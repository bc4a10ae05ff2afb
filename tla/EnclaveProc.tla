------------------------------ MODULE EnclaveProc ------------------------------
(***************************************************************************)
(* One enclave process (src/enclave_proc): the epoll event loop of its     *)
(* main thread, the connection listener thread, one thread per Terminate   *)
(* command, the socket-removal monitor, the signal thread, and the CLI     *)
(* instances they talk to.                                                 *)
(*                                                                         *)
(* Descriptors are numbers into a table (fdt), as they are for the code:   *)
(* EnclaveHandle.enc_fd, the epoll event data and a UnixStream all hold a  *)
(* number, and accept() and socketpair() hand out the lowest free one.     *)
(***************************************************************************)
EXTENDS Naturals, Sequences

CONSTANTS
  Client,      \* CLI instances that reach the process through its socket
  Launcher,    \* the CLI instance that forked the process
  Self,        \* the connection ConnectionListener::stop opens to the listener
  NoConn,
  Owner,       \* clients whose uid is the owner's or root's
  MaxFd,       \* descriptors the process may have open among the modelled ones
  Commands,    \* the commands each client may send
  Faults       \* environment faults that may happen

Conn == Client \cup {Launcher}

(* The descriptors the kernel may return to the process. *)
Fd == 1..MaxFd

(* enc_fd is 0 in the default handle and -1 once cleared: neither is in Fd. *)
NoFd == 0

FaultKind == {"die", "delete", "signal", "hangup", "runfail", "pcrfail"}

CliCommand == {"Terminate", "Describe", "GetEnclaveCID", "GetEnclaveFlags",
               "GetEnclaveName", "GetIDbyName"}

InternalCommand == {"TerminateComplete", "ConnectionListenerStop", "NotPermitted"}

ReadOnly == CliCommand \ {"Terminate"}

(* The commands whose arguments follow the two copies of the command.        *)
HasArgs(k) == k \in {"Run", "Describe", "GetIDbyName"}

(* The commands answered with a status code. *)
HasStatus(k) == k \in {"Run", "Terminate", "Describe", "GetEnclaveName", "GetIDbyName"}

Reply == {"confirm", "info", "value", "terminated", "error", "status0", "statusE"}

ASSUME ProcAssumption ==
  /\ MaxFd \in Nat /\ MaxFd >= 2
  /\ Launcher \notin Client /\ Self \notin Conn /\ NoConn \notin Conn
  /\ Owner \subseteq Client
  /\ Commands \in [Client -> SUBSET CliCommand]
  /\ Faults \subseteq FaultKind

VARIABLES
  proc,      \* "up", "returned" (event loop left, destructors run), "killed" (process::exit)
  mpc,       \* the main thread's place in process_event_loop
  mEnc,      \* the enc_fd it passed to get_next_connection
  mFd,       \* the descriptor of the event, then of the current Connection
  mHup,      \* whether the event's flags have EPOLLHUP
  mWho,      \* the peer of the current Connection
  mCmd,      \* the command being handled
  mDone,     \* the event loop's done flag
  joinT,     \* terminate_thread: the thread the main thread will join
  describe,  \* describe_thread is Some
  sFd,       \* self_conn, the stream ConnectionListener::stop opens
  encFd,     \* EnclaveHandle.enc_fd
  enclave,   \* "none", "running", "hungup": the enclave, as the driver sees it
  fdt,       \* the descriptor table
  epoll,     \* descriptors registered with epoll_fd
  lpc,       \* the connection listener thread
  lFd,       \* the stream it is reading a command from
  backlog,   \* connections not accepted yet
  sockFile,  \* the socket's path exists
  reqRemove, \* EnclaveProcSock.requested_remove
  mon,       \* the socket-removal monitor thread
  sig,       \* the signal thread has sent ConnectionListenerStop
  tpc,       \* the terminate threads, named after the client that asked
  tFd,       \* enc_fd as get_termination_resources returned it
  tConn,     \* the descriptor of the thread's clone of the Connection
  cst,       \* CLI instances: "idle", "open", "dead" (gone early), "done"
  cmd,       \* the command each of them sends
  sent,      \* how much of it is sent: 2 copies of the command, then the arguments
  got        \* the replies each of them received

mainVars   == <<mpc, mEnc, mFd, mHup, mWho, mCmd, mDone, joinT, describe, sFd>>
handleVars == <<encFd, enclave>>
fdVars     == <<fdt, epoll>>
listenVars == <<lpc, lFd, backlog>>
sockVars   == <<sockFile, reqRemove, mon>>
termVars   == <<tpc, tFd, tConn>>
cliVars    == <<cst, cmd, sent>>
vars == <<proc, mainVars, handleVars, fdVars, listenVars, sockVars, sig, termVars, cliVars, got>>

Free       == [kind |-> "free", who |-> NoConn]
EnclaveObj == [kind |-> "enclave", who |-> NoConn]
SelfEnd    == [kind |-> "selfEnd", who |-> NoConn]
SigObj     == [kind |-> "sig", who |-> NoConn]
Stream(c)  == [kind |-> IF c = Self THEN "self" ELSE "cli", who |-> c]
Local(c)   == [kind |-> "local", who |-> c]

Obj == {Free, EnclaveObj, SelfEnd, SigObj} \cup {Stream(c) : c \in Conn \cup {Self}}
         \cup {Local(c) : c \in Conn}

ThreadPc == {"none", "get", "close", "fail", "clear", "reply", "send", "sent", "done"}

TypeOK ==
  /\ proc \in {"up", "returned", "killed"}
  /\ mpc \in {"start", "loop", "wait", "del", "read", "handle", "listen", "register",
              "stop", "sendStop", "joinL", "joinT", "status", "drop", "dropSock", "joinM"}
  /\ mEnc \in Fd \cup {NoFd} /\ mFd \in Fd \cup {NoFd} /\ sFd \in Fd \cup {NoFd}
  /\ mHup \in BOOLEAN /\ mDone \in BOOLEAN /\ describe \in BOOLEAN
  /\ mWho \in Conn \cup {NoConn} /\ joinT \in Conn \cup {NoConn}
  /\ mCmd \in CliCommand \cup InternalCommand \cup {"Run", "none"}
  /\ encFd \in Fd \cup {NoFd}
  /\ enclave \in {"none", "running", "hungup"}
  /\ fdt \in [Fd -> Obj] /\ epoll \subseteq Fd
  /\ lpc \in {"none", "accept", "recv", "close", "done"}
  /\ lFd \in Fd \cup {NoFd}
  /\ backlog \in Seq(Client \cup {Self})
  /\ sockFile \in BOOLEAN /\ reqRemove \in BOOLEAN
  /\ mon \in {"none", "watch", "done"}
  /\ sig \in BOOLEAN
  /\ tpc \in [Conn -> ThreadPc]
  /\ tFd \in [Conn -> Fd \cup {NoFd}] /\ tConn \in [Conn -> Fd \cup {NoFd}]
  /\ cst \in [Conn -> {"idle", "open", "dead", "done"}]
  /\ cmd \in [Conn -> CliCommand \cup {"Run", "none"}]
  /\ sent \in [Conn -> 0..3]
  /\ got \in [Conn -> SUBSET Reply]

(***************************************************************************)
(* At the start the process owns its end of the socket pair it shares with *)
(* the launching CLI and the signal thread's stream, already in epoll.     *)
(***************************************************************************)
Init ==
  /\ proc = "up"
  /\ mpc = "start" /\ mEnc = NoFd /\ mFd = NoFd /\ mHup = FALSE
  /\ mWho = NoConn /\ mCmd = "none" /\ mDone = FALSE /\ joinT = NoConn
  /\ describe = FALSE /\ sFd = NoFd
  /\ encFd = NoFd /\ enclave = "none"
  /\ fdt = [f \in Fd |-> IF f = 1 THEN Stream(Launcher) ELSE IF f = 2 THEN SigObj ELSE Free]
  /\ epoll = {2}
  /\ lpc = "none" /\ lFd = NoFd /\ backlog = <<>>
  /\ sockFile = FALSE /\ reqRemove = FALSE /\ mon = "none"
  /\ sig = FALSE
  /\ tpc = [c \in Conn |-> "none"]
  /\ tFd = [c \in Conn |-> NoFd] /\ tConn = [c \in Conn |-> NoFd]
  /\ cst = [c \in Conn |-> IF c = Launcher THEN "open" ELSE "idle"]
  /\ cmd = [c \in Conn |-> IF c = Launcher THEN "Run" ELSE "none"]
  /\ sent = [c \in Conn |-> 0]
  /\ got = [c \in Conn |-> {}]

--------------------------------------------------------------------------------
(* Descriptors and streams *)

Lowest(f) == fdt[f] = Free /\ \A g \in Fd : g < f => fdt[g] # Free

NoneFree == \A f \in Fd : fdt[f] # Free

(* Mutant: the descriptor leaves epoll and is never closed. *)
CloseFdForgotten(f) == epoll' = epoll \ {f} /\ UNCHANGED fdt

(* close(2): the descriptor leaves the table and, being the last reference to *)
(* its file, epoll as well.                                                    *)
CloseFd(f) ==
  /\ fdt' = [fdt EXCEPT ![f] = Free]
  /\ epoll' = epoll \ {f}

(* A write succeeds when the descriptor is a CLI stream whose peer is there. *)
WriteOk(f) == f \in Fd /\ fdt[f].kind = "cli" /\ cst[fdt[f].who] = "open"

Tell(f, replies) == got' = [got EXCEPT ![fdt[f].who] = @ \cup replies]

ServerOpen(c) ==
  \/ \E f \in Fd : fdt[f] = Stream(c)
  \/ \E i \in DOMAIN backlog : backlog[i] = c

(* What the kernel does with a process that exits. *)
ReleaseAll ==
  /\ fdt' = [f \in Fd |-> Free]
  /\ epoll' = {}
  /\ backlog' = <<>>

(* process::exit from any thread: no destructor runs, the socket file stays. *)
Kill ==
  /\ proc' = "killed"
  /\ ReleaseAll
  /\ UNCHANGED <<mainVars, handleVars, lpc, lFd, sockVars, sig, termVars, cliVars, got>>

--------------------------------------------------------------------------------
(* The main thread: process_event_loop *)

AtMain(pc) == proc = "up" /\ mpc = pc

(* handle_new_connection on the launching CLI's stream. *)
HandleCommStream ==
  /\ AtMain("start")
  /\ \/ /\ sent[Launcher] >= 1
        /\ epoll' = epoll \cup {1}
        /\ mpc' = "loop"
        /\ UNCHANGED fdt
     \/ /\ sent[Launcher] = 0 /\ cst[Launcher] # "open"
        /\ CloseFd(1)
        /\ mpc' = "drop"
  /\ UNCHANGED <<proc, mEnc, mFd, mHup, mWho, mCmd, mDone, joinT, describe, sFd, handleVars,
                 listenVars, sockVars, sig, termVars, cliVars, got>>

(* The argument of get_next_connection is read before epoll_wait blocks. *)
GetEnclaveDescriptor ==
  /\ AtMain("loop")
  /\ mEnc' = encFd
  /\ mpc' = "wait"
  /\ UNCHANGED <<proc, mFd, mHup, mWho, mCmd, mDone, joinT, describe, sFd, handleVars, fdVars,
                 listenVars, sockVars, sig, termVars, cliVars, got>>

(* What epoll reports for a registered descriptor. The driver's poll raises   *)
(* only EPOLLHUP; a stream is readable when it holds data or its peer left.   *)
Ready(f) ==
  CASE fdt[f].kind = "enclave" -> enclave = "hungup"
    [] fdt[f].kind = "cli"     -> sent[fdt[f].who] >= 2 \/ cst[fdt[f].who] # "open"
    [] fdt[f].kind = "sig"     -> sig
    [] fdt[f].kind = "local"   -> tpc[fdt[f].who] \in {"sent", "done"}
    [] OTHER                   -> FALSE

HupFlag(f) ==
  CASE fdt[f].kind = "enclave" -> {TRUE}
    [] fdt[f].kind = "cli"     -> {cst[fdt[f].who] # "open"}
    [] OTHER                   -> BOOLEAN

EpollWait ==
  /\ AtMain("wait")
  /\ \E f \in epoll :
       /\ Ready(f)
       /\ mFd' = f
       /\ mHup' \in HupFlag(f)
  /\ mpc' = "del"
  /\ UNCHANGED <<proc, mEnc, mWho, mCmd, mDone, joinT, describe, sFd, handleVars, fdVars,
                 listenVars, sockVars, sig, termVars, cliVars, got>>

(* The descriptor is taken out of epoll; the connection is an enclave event   *)
(* exactly when its number is the enc_fd read before the wait.                *)
TakeEvent ==
  /\ AtMain("del")
  /\ \/ /\ mFd \in epoll
        /\ epoll' = epoll \ {mFd}
        /\ UNCHANGED fdt
        /\ mpc' = IF mFd # mEnc THEN "read" ELSE IF mHup THEN "drop" ELSE "loop"
     \/ /\ mFd \notin epoll
        /\ IF mFd # mEnc THEN CloseFd(mFd) ELSE UNCHANGED fdVars
        /\ mpc' = "drop"
  /\ UNCHANGED <<proc, mEnc, mFd, mHup, mWho, mCmd, mDone, joinT, describe, sFd, handleVars,
                 listenVars, sockVars, sig, termVars, cliVars, got>>

(* Mutant: every user may issue every command. *)
PermittedToAll(c, k) == c \in Conn /\ k \in CliCommand \cup {"Run"}

(* CommandRequesterPolicy::can_execute_command *)
Permitted(c, k) == c = Launcher \/ c \in Owner \/ k \in ReadOnly

ReadCommand ==
  /\ AtMain("read")
  /\ LET o == fdt[mFd]
         Take(c, k) ==
           /\ mWho' = c /\ mCmd' = k
           /\ mpc' = "handle"
           /\ UNCHANGED <<proc, mEnc, mFd, mHup, mDone, joinT, describe, sFd, handleVars, fdVars,
                          listenVars, sockVars, sig, termVars, cliVars, got>>
     IN \/ /\ o.kind = "cli" /\ sent[o.who] >= 2
           /\ Take(o.who, IF Permitted(o.who, cmd[o.who]) THEN cmd[o.who] ELSE "NotPermitted")
        \/ /\ o.kind = "local" /\ tpc[o.who] \in {"sent", "done"}
           /\ Take(NoConn, "TerminateComplete")
        \/ /\ o.kind = "sig" /\ sig
           /\ Take(NoConn, "ConnectionListenerStop")
        \/ /\ o.kind = "cli" /\ sent[o.who] < 2 /\ cst[o.who] # "open"
           /\ Kill
        \/ /\ o.kind \in {"free", "enclave", "self", "selfEnd"}
           /\ Kill

(* The handler's result (status code, do_break): the code is 0 exactly when   *)
(* the loop goes on, for every command that is answered with a status.        *)
Handled(doBreak) ==
  /\ mDone' = doBreak
  /\ mpc' = IF doBreak THEN "stop" ELSE "status"

(* connection.read blocks until the arguments are there and fails when the    *)
(* peer leaves before; the failure cannot be forwarded and ends the process.  *)
ArgsRead == HasArgs(mCmd) => sent[mWho] = 3

ArgsLost == HasArgs(mCmd) /\ sent[mWho] < 3 /\ cst[mWho] # "open"

(* Run: run_enclaves boots the enclave and writes its description; any error,   *)
(* a launching CLI that has left included, ends the process.                     *)
Run ==
  /\ AtMain("handle") /\ mCmd = "Run"
  /\ \/ /\ ArgsRead /\ WriteOk(mFd)
        /\ \E f \in Fd :
             /\ Lowest(f)
             /\ fdt' = [fdt EXCEPT ![f] = EnclaveObj]
             /\ encFd' = f
        /\ enclave' = "running" /\ describe' = TRUE
        /\ Tell(mFd, {"info"})
        /\ mpc' = "listen"
        /\ UNCHANGED <<proc, mEnc, mFd, mHup, mWho, mCmd, mDone, joinT, sFd, epoll, listenVars,
                       sockVars, sig, termVars, cliVars>>
     \/ /\ ArgsRead /\ WriteOk(mFd) /\ ("runfail" \in Faults \/ NoneFree)
        /\ Tell(mFd, {"error"})
        /\ Handled(TRUE)
        /\ UNCHANGED <<proc, mEnc, mFd, mHup, mWho, mCmd, joinT, describe, sFd, handleVars, fdVars,
                       listenVars, sockVars, sig, termVars, cliVars>>
     \/ /\ ArgsLost \/ (ArgsRead /\ ~WriteOk(mFd))
        /\ Kill

(* ConnectionListener::start: bind, watch the socket, spawn the listener. When  *)
(* it fails the socket may or may not have been created.                        *)
StartListener ==
  /\ AtMain("listen")
  /\ \/ /\ sockFile' = TRUE /\ mon' = "watch" /\ lpc' = "accept"
        /\ mpc' = "register"
        /\ UNCHANGED <<proc, mEnc, mFd, mHup, mWho, mCmd, mDone, joinT, describe, sFd, handleVars,
                       fdVars, lFd, backlog, reqRemove, sig, termVars, cliVars, got>>
     \/ /\ "runfail" \in Faults /\ WriteOk(mFd)
        /\ sockFile' \in BOOLEAN
        /\ Tell(mFd, {"error"})
        /\ Handled(TRUE)
        /\ UNCHANGED <<proc, mEnc, mFd, mHup, mWho, mCmd, joinT, describe, sFd, handleVars, fdVars,
                       listenVars, reqRemove, mon, sig, termVars, cliVars>>
     \/ /\ "runfail" \in Faults /\ ~WriteOk(mFd)
        /\ Kill

(* Mutant: the enclave descriptor is not added to epoll. *)
RegisterForgotten ==
  /\ AtMain("register")
  /\ Handled(FALSE)
  /\ UNCHANGED <<proc, mEnc, mFd, mHup, mWho, mCmd, joinT, describe, sFd, handleVars, fdVars,
                 listenVars, sockVars, sig, termVars, cliVars, got>>

RegisterEnclaveDescriptor ==
  /\ AtMain("register")
  /\ epoll' = epoll \cup {encFd}
  /\ Handled(FALSE)
  /\ UNCHANGED <<proc, mEnc, mFd, mHup, mWho, mCmd, joinT, describe, sFd, handleVars, fdt,
                 listenVars, sockVars, sig, termVars, cliVars, got>>

(* Terminate: a thread does the work; its end of a new stream pair will carry   *)
(* TerminateComplete. The handle of an earlier terminate thread is overwritten. *)
Terminate ==
  /\ AtMain("handle") /\ mCmd = "Terminate"
  /\ \/ /\ \E f \in Fd :
             /\ Lowest(f)
             /\ fdt' = [fdt EXCEPT ![f] = Local(mWho)]
             /\ epoll' = epoll \cup {f}
        /\ tpc' = [tpc EXCEPT ![mWho] = "get"]
        /\ tConn' = [tConn EXCEPT ![mWho] = mFd]
        /\ joinT' = mWho
        /\ Handled(FALSE)
        /\ UNCHANGED <<proc, mEnc, mFd, mHup, mWho, mCmd, describe, sFd, handleVars, listenVars,
                       sockVars, sig, tFd, cliVars, got>>
     \/ /\ NoneFree /\ WriteOk(mFd)
        /\ Tell(mFd, {"error"})
        /\ Handled(TRUE)
        /\ UNCHANGED <<proc, mEnc, mFd, mHup, mWho, mCmd, joinT, describe, sFd, handleVars, fdVars,
                       listenVars, sockVars, sig, termVars, cliVars>>
     \/ /\ NoneFree /\ ~WriteOk(mFd)
        /\ Kill

(* What the read-only commands write before the status; GetIDbyName answers     *)
(* with the ID only when the name is this enclave's.                            *)
Answers(k) ==
  CASE k \in {"Describe", "GetEnclaveName"}          -> {{"confirm", "info"}}
    [] k = "GetIDbyName"                             -> {{"confirm"}, {"confirm", "info"}}
    [] k \in {"GetEnclaveCID", "GetEnclaveFlags"}    -> {{"value"}}

(* The first Describe joins the thread that computes the measurements.          *)
FetchDescribeResult == describe' = (describe /\ mCmd # "Describe")

(* Describe takes the result of the PCR thread the first time; if that thread   *)
(* failed, the error ends the event loop.                                       *)
Query ==
  /\ AtMain("handle") /\ mCmd \in ReadOnly
  /\ \/ /\ ArgsRead /\ WriteOk(mFd)
        /\ \E replies \in Answers(mCmd) : Tell(mFd, replies)
        /\ FetchDescribeResult
        /\ Handled(FALSE)
        /\ UNCHANGED <<proc, mEnc, mFd, mHup, mWho, mCmd, joinT, sFd, handleVars, fdVars, listenVars,
                       sockVars, sig, termVars, cliVars>>
     \/ /\ ArgsRead /\ WriteOk(mFd)
        /\ "pcrfail" \in Faults /\ mCmd = "Describe" /\ describe
        /\ Tell(mFd, {"confirm", "error"})
        /\ FetchDescribeResult
        /\ Handled(TRUE)
        /\ UNCHANGED <<proc, mEnc, mFd, mHup, mWho, mCmd, joinT, sFd, handleVars, fdVars, listenVars,
                       sockVars, sig, termVars, cliVars>>
     \/ /\ ArgsLost \/ (ArgsRead /\ ~WriteOk(mFd))
        /\ Kill

(* TerminateComplete and ConnectionListenerStop end the loop; a command that is *)
(* not permitted is skipped.                                                    *)
Internal ==
  /\ AtMain("handle") /\ mCmd \in InternalCommand
  /\ Handled(mCmd # "NotPermitted")
  /\ UNCHANGED <<proc, mEnc, mFd, mHup, mWho, mCmd, joinT, describe, sFd, handleVars, fdVars,
                 listenVars, sockVars, sig, termVars, cliVars, got>>

(* Mutant: a reference to the connection of a Describe is kept. *)
KeepsDescribed == mCmd = "Describe"

(* The main thread drops its reference to the connection; a terminate thread    *)
(* that is still at work holds the other one.                                   *)
KeepsConn == mCmd = "Terminate" /\ ~mDone /\ tpc[mWho] # "done"

(* ConnectionListener::stop connects to the listener ...                        *)
ConnectSelf ==
  /\ AtMain("stop") /\ lpc # "none" /\ sockFile
  /\ \E f \in Fd :
       /\ Lowest(f)
       /\ fdt' = [fdt EXCEPT ![f] = SelfEnd]
       /\ sFd' = f
  /\ backlog' = Append(backlog, Self)
  /\ mpc' = "sendStop"
  /\ UNCHANGED <<proc, mEnc, mFd, mHup, mWho, mCmd, mDone, joinT, describe, handleVars, epoll,
                 lpc, lFd, sockVars, sig, termVars, cliVars, got>>

(* ... and sends it ConnectionListenerStop ...                                  *)
SendStop ==
  /\ AtMain("sendStop") /\ fdt[sFd] = SelfEnd
  /\ mpc' = "joinL"
  /\ UNCHANGED <<proc, mEnc, mFd, mHup, mWho, mCmd, mDone, joinT, describe, sFd, handleVars,
                 fdVars, listenVars, sockVars, sig, termVars, cliVars, got>>

(* ... unless there is no listener. When a step fails, the error leaves the     *)
(* loop and the current connection is dropped.                                  *)
NoListener ==
  /\ AtMain("stop") /\ lpc = "none"
  /\ mpc' = "joinT"
  /\ UNCHANGED <<proc, mEnc, mFd, mHup, mWho, mCmd, mDone, joinT, describe, sFd, handleVars,
                 fdVars, listenVars, sockVars, sig, termVars, cliVars, got>>

StopFails ==
  /\ \/ AtMain("stop") /\ lpc # "none" /\ (~sockFile \/ NoneFree)
     \/ AtMain("sendStop") /\ fdt[sFd] # SelfEnd
  /\ \/ /\ fdt[mFd] # Free /\ CloseFd(mFd)
        /\ mpc' = "drop"
        /\ UNCHANGED <<proc, mEnc, mFd, mHup, mWho, mCmd, mDone, joinT, describe, sFd, handleVars,
                       listenVars, sockVars, sig, termVars, cliVars, got>>
     \/ /\ fdt[mFd] = Free
        /\ Kill

JoinListener ==
  /\ AtMain("joinL")
  /\ lpc = "done"
  /\ CloseFd(sFd)
  /\ mpc' = "joinT"
  /\ UNCHANGED <<proc, mEnc, mFd, mHup, mWho, mCmd, mDone, joinT, describe, sFd, handleVars,
                 listenVars, sockVars, sig, termVars, cliVars, got>>

JoinTerminate ==
  /\ AtMain("joinT")
  /\ joinT # NoConn => tpc[joinT] = "done"
  /\ joinT' = NoConn
  /\ mpc' = "status"
  /\ UNCHANGED <<proc, mEnc, mFd, mHup, mWho, mCmd, mDone, describe, sFd, handleVars, fdVars,
                 listenVars, sockVars, sig, termVars, cliVars, got>>

(* ConnectionData::drop, with the last reference to the connection.             *)
DropConnection == IF KeepsConn THEN UNCHANGED fdVars ELSE fdt[mFd] # Free /\ CloseFd(mFd)

(* The status is written and the connection dropped. ConnectionData::drop ends  *)
(* the process when its descriptor has been closed behind its back.             *)
WriteStatus ==
  /\ AtMain("status")
  /\ \/ /\ ~KeepsConn /\ fdt[mFd] = Free
        /\ Kill
     \/ /\ DropConnection
        /\ \/ /\ HasStatus(mCmd) => WriteOk(mFd)
              /\ IF HasStatus(mCmd) THEN Tell(mFd, {IF mDone THEN "statusE" ELSE "status0"})
                                    ELSE UNCHANGED got
              /\ mpc' = IF mDone THEN "drop" ELSE "loop"
           \/ /\ HasStatus(mCmd) /\ ~WriteOk(mFd)
              /\ UNCHANGED got
              /\ mpc' = "drop"
        /\ UNCHANGED <<proc, mEnc, mFd, mHup, mWho, mCmd, mDone, joinT, describe, sFd, handleVars,
                       listenVars, sockVars, sig, termVars, cliVars>>

(* The destructors, in reverse order of declaration: the enclave manager, when  *)
(* no terminate thread shares it, then the listener's socket.                   *)
DropManager ==
  /\ AtMain("drop")
  /\ IF encFd # NoFd /\ \A c \in Conn : tpc[c] \in {"none", "done"}
     THEN CloseFd(encFd) /\ encFd' = NoFd
     ELSE UNCHANGED <<fdVars, encFd>>
  /\ mpc' = "dropSock"
  /\ UNCHANGED <<proc, mEnc, mFd, mHup, mWho, mCmd, mDone, joinT, describe, sFd, enclave,
                 listenVars, sockVars, sig, termVars, cliVars, got>>

DropSocket ==
  /\ AtMain("dropSock")
  /\ reqRemove' = TRUE /\ sockFile' = FALSE
  /\ mpc' = "joinM"
  /\ UNCHANGED <<proc, mEnc, mFd, mHup, mWho, mCmd, mDone, joinT, describe, sFd, handleVars, fdVars,
                 listenVars, mon, sig, termVars, cliVars, got>>

(* close_mut waits for the monitor thread, then enclave_process_run exits.      *)
ReturnAndExit ==
  /\ AtMain("joinM")
  /\ mon # "watch"
  /\ proc' = "returned"
  /\ ReleaseAll
  /\ UNCHANGED <<mainVars, handleVars, lpc, lFd, sockVars, sig, termVars, cliVars, got>>

Main ==
  \/ HandleCommStream \/ GetEnclaveDescriptor \/ EpollWait \/ TakeEvent \/ ReadCommand
  \/ Run \/ StartListener \/ RegisterEnclaveDescriptor \/ Terminate \/ Query \/ Internal
  \/ ConnectSelf \/ SendStop \/ NoListener \/ StopFails \/ JoinListener \/ JoinTerminate \/ WriteStatus
  \/ DropManager \/ DropSocket \/ ReturnAndExit

--------------------------------------------------------------------------------
(* The connection listener thread *)

AtListener(pc) == proc = "up" /\ lpc = pc

(* accept() takes the lowest descriptor; when none is left its error ends the   *)
(* accept loop.                                                                 *)
Accept ==
  /\ AtListener("accept")
  /\ backlog # <<>>
  /\ \/ /\ \E f \in Fd :
             /\ Lowest(f)
             /\ fdt' = [fdt EXCEPT ![f] = Stream(Head(backlog))]
             /\ lFd' = f
        /\ backlog' = Tail(backlog)
        /\ lpc' = "recv"
     \/ /\ NoneFree
        /\ lpc' = "close"
        /\ UNCHANGED <<fdt, lFd, backlog>>
  /\ UNCHANGED <<proc, mainVars, handleVars, epoll, sockVars, sig, termVars, cliVars, got>>

StopSent == mpc = "joinL"

(* Mutants: the comparison with ConnectionListenerStop dropped, or inverted. *)
NeverBreaks(o) == o.kind = "none"
BreaksOnCommand(o) == o.kind = "cli" /\ sent[o.who] >= 1

BreaksAccept(o) == o.kind = "self" /\ StopSent

(* handle_new_connection: read the first copy of the command, register the      *)
(* stream; every stream but the registered one is dropped.                      *)
HandleNewConnection ==
  /\ AtListener("recv")
  /\ LET o == fdt[lFd] IN
     \/ /\ o.kind = "cli" /\ sent[o.who] >= 1
        /\ epoll' = epoll \cup {lFd}
        /\ lpc' = IF BreaksAccept(o) THEN "close" ELSE "accept"
        /\ UNCHANGED fdt
     \/ /\ \/ o.kind = "cli" /\ sent[o.who] = 0 /\ cst[o.who] # "open"
           \/ o.kind = "self" /\ mpc # "sendStop"
           \/ o.kind \notin {"cli", "self"}
        /\ CloseFd(lFd)
        /\ lpc' = IF BreaksAccept(o) THEN "close" ELSE "accept"
  /\ UNCHANGED <<proc, mainVars, handleVars, lFd, backlog, sockVars, sig, termVars, cliVars, got>>

(* The socket is removed and the listening descriptor closed.                   *)
CloseListener ==
  /\ AtListener("close")
  /\ reqRemove' = TRUE /\ sockFile' = FALSE
  /\ backlog' = <<>>
  /\ lpc' = "done"
  /\ UNCHANGED <<proc, mainVars, handleVars, fdVars, lFd, mon, sig, termVars, cliVars, got>>

Listener == Accept \/ HandleNewConnection \/ CloseListener

--------------------------------------------------------------------------------
(* The terminate threads: run_terminate, terminate_enclaves and                 *)
(* EnclaveManager::terminate_enclave                                            *)

AtThread(c, pc) == proc = "up" /\ tpc[c] = pc

Goto(c, pc) == tpc' = [tpc EXCEPT ![c] = pc]

(* Mutant: the termination is reported before anything is released. *)
ReportFirst(c) ==
  /\ AtThread(c, "get")
  /\ tFd' = [tFd EXCEPT ![c] = encFd]
  /\ Goto(c, "reply")
  /\ UNCHANGED <<proc, mainVars, handleVars, fdVars, listenVars, sockVars, sig, tConn, cliVars, got>>

(* The handle is locked only while enc_fd is copied ...                         *)
GetTerminationResources(c) ==
  /\ AtThread(c, "get")
  /\ tFd' = [tFd EXCEPT ![c] = encFd]
  /\ Goto(c, "close")
  /\ UNCHANGED <<proc, mainVars, handleVars, fdVars, listenVars, sockVars, sig, tConn, cliVars, got>>

(* ... so the number is closed whatever it denotes by now.                      *)
ReleaseEnclaveDescriptor(c) ==
  /\ AtThread(c, "close")
  /\ IF tFd[c] # NoFd /\ fdt[tFd[c]] # Free
     THEN CloseFd(tFd[c]) /\ Goto(c, "clear")
     ELSE UNCHANGED fdVars /\ Goto(c, "fail")
  /\ UNCHANGED <<proc, mainVars, handleVars, listenVars, sockVars, sig, tFd, tConn, cliVars, got>>

(* EnclaveHandle::clear, under the lock. *)
ClearHandle(c) ==
  /\ AtThread(c, "clear")
  /\ encFd' = NoFd
  /\ Goto(c, "reply")
  /\ UNCHANGED <<proc, mainVars, enclave, fdVars, listenVars, sockVars, sig, tFd, tConn, cliVars, got>>

(* The result of the termination goes to the client; when it has left, the      *)
(* error cannot be forwarded and ends the process.                              *)
ReportTermination(c) ==
  /\ AtThread(c, "reply") \/ AtThread(c, "fail")
  /\ \/ /\ WriteOk(tConn[c])
        /\ Tell(tConn[c], {IF tpc[c] = "reply" THEN "terminated" ELSE "error"})
        /\ Goto(c, "send")
        /\ UNCHANGED <<proc, mainVars, handleVars, fdVars, listenVars, sockVars, sig, tFd, tConn, cliVars>>
     \/ /\ ~WriteOk(tConn[c])
        /\ Kill

(* send_command_and_close of TerminateComplete; it fails when the other end of  *)
(* the pair is closed.                                                          *)
SendTerminateComplete(c) ==
  /\ AtThread(c, "send")
  /\ \/ /\ \E f \in Fd : fdt[f] = Local(c)
        /\ Goto(c, "sent")
        /\ UNCHANGED <<proc, mainVars, handleVars, fdVars, listenVars, sockVars, sig, tFd, tConn, cliVars, got>>
     \/ /\ \A f \in Fd : fdt[f] # Local(c)
        /\ Kill

(* The thread returns and drops its reference to the connection.                *)
EndThread(c) ==
  /\ AtThread(c, "sent")
  /\ LET mainHolds == mpc = "status" /\ mCmd = "Terminate" /\ ~mDone /\ mWho = c IN
     \/ /\ IF mainHolds THEN UNCHANGED fdVars ELSE fdt[tConn[c]] # Free /\ CloseFd(tConn[c])
        /\ Goto(c, "done")
        /\ UNCHANGED <<proc, mainVars, handleVars, listenVars, sockVars, sig, tFd, tConn, cliVars, got>>
     \/ /\ ~mainHolds /\ fdt[tConn[c]] = Free
        /\ Kill

TerminateThread(c) ==
  \/ GetTerminationResources(c) \/ ReleaseEnclaveDescriptor(c) \/ ClearHandle(c)
  \/ ReportTermination(c) \/ SendTerminateComplete(c) \/ EndThread(c)

--------------------------------------------------------------------------------
(* The monitor, the signal thread, the enclave and the CLI instances            *)

(* Mutant: only a requested removal is noticed. *)
RequestedRemovalOnly ==
  /\ proc = "up" /\ mon = "watch" /\ ~sockFile /\ reqRemove
  /\ mon' = "done"
  /\ UNCHANGED <<proc, mainVars, handleVars, fdVars, listenVars, sockFile, reqRemove, sig,
                 termVars, cliVars, got>>

(* socket_removal_listener: a removal nobody in the process asked for is fatal. *)
SocketRemoved ==
  /\ proc = "up" /\ mon = "watch" /\ ~sockFile
  /\ \/ /\ reqRemove
        /\ mon' = "done"
        /\ UNCHANGED <<proc, mainVars, handleVars, fdVars, listenVars, sockFile, reqRemove, sig,
                       termVars, cliVars, got>>
     \/ /\ ~reqRemove
        /\ Kill

(* enclave_proc_handle_signals: the first signal sends ConnectionListenerStop.  *)
HandleSignal ==
  /\ proc = "up" /\ ~sig /\ "signal" \in Faults
  /\ sig' = TRUE
  /\ UNCHANGED <<proc, mainVars, handleVars, fdVars, listenVars, sockVars, termVars, cliVars, got>>

EnclaveHangsUp ==
  /\ proc = "up" /\ enclave = "running" /\ "hangup" \in Faults
  /\ \E f \in Fd : fdt[f] = EnclaveObj
  /\ enclave' = "hungup"
  /\ UNCHANGED <<proc, mainVars, encFd, fdVars, listenVars, sockVars, sig, termVars, cliVars, got>>

SocketDeleted ==
  /\ sockFile /\ "delete" \in Faults
  /\ sockFile' = FALSE
  /\ UNCHANGED <<proc, mainVars, handleVars, fdVars, listenVars, reqRemove, mon, sig, termVars,
                 cliVars, got>>

(* enclave_proc_connect_to_single / _to_all *)
Connect(c) ==
  /\ proc = "up" /\ sockFile /\ cst[c] = "idle"
  /\ \E k \in Commands[c] : cmd' = [cmd EXCEPT ![c] = k]
  /\ cst' = [cst EXCEPT ![c] = "open"]
  /\ backlog' = Append(backlog, c)
  /\ UNCHANGED <<proc, mainVars, handleVars, fdVars, lpc, lFd, sockVars, sig, termVars, sent, got>>

(* enclave_proc_command_send_single: the command twice, then the arguments.     *)
Send(c) ==
  /\ cst[c] = "open" /\ ServerOpen(c)
  /\ sent[c] < (IF HasArgs(cmd[c]) THEN 3 ELSE 2)
  /\ sent' = [sent EXCEPT ![c] = @ + 1]
  /\ UNCHANGED <<proc, mainVars, handleVars, fdVars, listenVars, sockVars, sig, termVars, cst, cmd, got>>

(* The CLI reads replies until the process closes the stream ...                *)
Finish(c) ==
  /\ cst[c] = "open" /\ ~ServerOpen(c)
  /\ cst' = [cst EXCEPT ![c] = "done"]
  /\ UNCHANGED <<proc, mainVars, handleVars, fdVars, listenVars, sockVars, sig, termVars, cmd, sent, got>>

(* ... or is interrupted.                                                       *)
Die(c) ==
  /\ cst[c] = "open" /\ "die" \in Faults
  /\ cst' = [cst EXCEPT ![c] = "dead"]
  /\ UNCHANGED <<proc, mainVars, handleVars, fdVars, listenVars, sockVars, sig, termVars, cmd, sent, got>>

(* The system may rest once every CLI returned, with the process gone or waiting *)
(* for connections with its listener up.                                         *)
Rest ==
  /\ \A c \in Conn : cst[c] # "open"
  /\ proc # "up" \/ (mpc = "wait" /\ lpc = "accept" /\ backlog = <<>>)
  /\ UNCHANGED vars

Next ==
  \/ Main \/ Listener
  \/ \E c \in Conn : TerminateThread(c)
  \/ SocketRemoved \/ HandleSignal \/ EnclaveHangsUp \/ SocketDeleted
  \/ \E c \in Client : Connect(c)
  \/ \E c \in Conn : Send(c) \/ Finish(c) \/ Die(c)
  \/ Rest

Spec == Init /\ [][Next]_vars

(***************************************************************************)
(* Every thread of the process is scheduled, and a CLI instance that has   *)
(* connected goes on to send its command and to read its replies. Nothing  *)
(* is assumed about signals, hang-ups, deletions, deaths or new clients.   *)
(***************************************************************************)
Fairness ==
  /\ WF_vars(Main) /\ WF_vars(Listener) /\ WF_vars(SocketRemoved)
  /\ \A c \in Conn : WF_vars(TerminateThread(c)) /\ WF_vars(Send(c) \/ Finish(c))

FairSpec == Spec /\ Fairness

--------------------------------------------------------------------------------
(* Properties *)

(* The driver has been told to release the enclave: it booted and no            *)
(* descriptor of the process refers to it any more.                             *)
Released == enclave # "none" /\ \A f \in Fd : fdt[f] # EnclaveObj

(* A client that receives the termination record ("Terminated": true) is told   *)
(* the truth even when several Terminate commands race: the enclave has been    *)
(* released by then.                                                            *)
TerminatedMeansReleased ==
  \A c \in Conn : "terminated" \in got[c] => Released

(* The enclave and its clients as EnclaveLifecycle sees them.                   *)
Life == IF enclave = "none" THEN "none" ELSE IF Released THEN "stopped" ELSE "running"
Told == {c \in Conn : "terminated" \in got[c]}
Gone == proc # "up"

(* The process implements its lifecycle: one boot, one final stop, termination  *)
(* records only after it, no enclave left behind by an exit of any kind.        *)
Lifecycle == INSTANCE EnclaveLifecycle WITH life <- Life, told <- Told, gone <- Gone

ImplementsLifecycle == Lifecycle!Spec

(* Without faults of the environment the process, and with it the enclave, goes *)
(* down only because a client that may do so sent Terminate: queries, refused   *)
(* commands and descriptor reuse never end it.                                  *)
SurvivesClients ==
  (proc # "up" /\ Faults = {}) =>
     \E c \in Owner : cmd[c] = "Terminate" /\ sent[c] >= 2

(* The process is reachable as long as it serves: until it stops its listener,  *)
(* or somebody else deletes the socket, the socket file exists. (A process that *)
(* lost its socket must not go on, says socket.rs, for nobody could terminate   *)
(* it.)                                                                         *)
Reachable ==
  (proc = "up" /\ mpc \in {"loop", "wait", "del", "read", "handle"} /\ lpc # "none"
     /\ "delete" \notin Faults) => sockFile

(* While stop() waits for the listener thread, its ConnectionListenerStop is on *)
(* the way: not accepted yet, in the listener's hands, or obeyed. Otherwise the *)
(* join would never return.                                                     *)
StopReachesListener ==
  AtMain("joinL") =>
     \/ lpc \in {"close", "done"}
     \/ \E i \in DOMAIN backlog : backlog[i] = Self
     \/ lpc = "recv" /\ fdt[lFd] = Stream(Self)

(* A terminate thread, a hang-up of the enclave or a signal brings the process  *)
(* down, whatever the clients do meanwhile.                                     *)
EndsProcess ==
  (enclave = "hungup" \/ sig \/ \E c \in Conn : tpc[c] # "none") ~> (proc # "up")

(* The monitor never sleeps through the removal of the socket: it returns, or   *)
(* ends the process.                                                            *)
MonitorNotices == (mon = "watch" /\ ~sockFile) ~> (mon = "done" \/ proc # "up")

(* Every CLI instance that connected is eventually answered or disconnected: no *)
(* stream is left open and unread for ever.                                     *)
ClientsReturn == \A c \in Conn : (cst[c] = "open") ~> (cst[c] # "open")

================================================================================
