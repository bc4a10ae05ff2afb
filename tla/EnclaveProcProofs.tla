--------------------------- MODULE EnclaveProcProofs ---------------------------
(***************************************************************************)
(* The inductive invariant of EnclaveProc and what follows from it, for    *)
(* any set of clients, any commands they may send, any number of           *)
(* descriptors and any faults. First its parts about types and about       *)
(* descriptors; then those about the boot (the enclave boots once, and     *)
(* nothing happens before) and about termination; then the theorems:       *)
(* types, truthful termination records, and that EnclaveProc implements    *)
(* EnclaveLifecycle. Two more invariants on top of it show that a process  *)
(* that serves can be reached and that clients do not bring it down.       *)
(***************************************************************************)
EXTENDS EnclaveProc, TLAPS

(* The main thread has booted the enclave and not yet gone back to its loop.    *)
AfterBoot == {"listen", "register", "stop", "sendStop", "joinL", "joinT", "status",
              "drop", "dropSock", "joinM"}

WithConn == {"handle", "listen", "register", "stop", "sendStop", "joinL", "joinT", "status"}

(* A number is used as a descriptor only where it is one.                       *)
FdInv ==
  /\ mpc \in {"del", "read"} => mFd \in Fd
  /\ lpc = "recv" => lFd \in Fd
  /\ mpc \in {"listen", "register"} => encFd \in Fd /\ \A c \in Conn : tpc[c] = "none"
  /\ mCmd = "Terminate" => mWho \in Conn

(* The enclave boots once: only the launching CLI sends Run, on descriptor 1,   *)
(* and nothing else happens before.                                             *)
BootInv ==
  /\ cmd[Launcher] = "Run" /\ \A c \in Client : cmd[c] \in CliCommand \cup {"none"}
  /\ \A f \in Fd : fdt[f] = Stream(Launcher) => f = 1
  /\ enclave = "none" =>
       /\ ~sockFile /\ mCmd # "Terminate" /\ mpc \notin {"listen", "register"}
       /\ \A c \in Client : cmd[c] = "none"
       /\ \A c \in Conn : tpc[c] = "none"
       /\ \A f \in Fd : fdt[f] # EnclaveObj
  /\ mpc = "handle" /\ mCmd = "Run" => enclave = "none"
  /\ enclave # "none" /\ (\E f \in Fd : fdt[f] = Stream(Launcher)) => mCmd = "Run" /\ mpc \in AfterBoot
  /\ mCmd = "Run" /\ mpc \in WithConn => mFd = 1

(* A terminate thread past the close has released the enclave: the number it    *)
(* copied was the enclave's, or the enclave was released already.               *)
TermInv ==
  /\ \A f \in Fd : fdt[f] = EnclaveObj => encFd = f
  /\ \A c \in Conn : tpc[c] = "close" => tFd[c] = encFd \/ Released
  /\ \A c \in Conn : tpc[c] \in {"clear", "reply"} => Released
  /\ TerminatedMeansReleased

ProcInv == TypeOK /\ FdInv /\ BootInv /\ TermInv

(* The objects a descriptor may denote are distinct.                            *)
LEMMA Objects ==
  /\ {Free, EnclaveObj, SelfEnd, SigObj} \subseteq Obj
  /\ \A c \in Conn \cup {Self} : Stream(c) \in Obj \ {Free, EnclaveObj, SelfEnd, SigObj}
  /\ \A c \in Conn : Local(c) \in Obj \ {Free, EnclaveObj, SelfEnd, SigObj}
  /\ \A c \in Conn, d \in Conn \cup {Self} : Local(c) # Stream(d)
  /\ Free # EnclaveObj /\ Free # SelfEnd /\ Free # SigObj /\ EnclaveObj # SelfEnd /\ EnclaveObj # SigObj
  /\ \A c \in Client \cup {Self} : Stream(c) # Stream(Launcher)
  /\ \A o \in Obj : o.kind = "cli" => o.who \in Conn /\ o = Stream(o.who)
  /\ \A o \in Obj : o.kind = "local" => o.who \in Conn
<1> USE DEF Obj, Free, EnclaveObj, SelfEnd, SigObj, Stream, Local, Conn
<1>1. \A o \in Obj : o.kind = "cli" => o.who \in Conn /\ o = Stream(o.who)
  BY ProcAssumption
<1>2. \A o \in Obj : o.kind = "local" => o.who \in Conn
  BY ProcAssumption
<1>3. \A c \in Client \cup {Self} : Stream(c) # Stream(Launcher)
  BY ProcAssumption
<1> QED
  BY <1>1, <1>2, <1>3, ProcAssumption, Zenon

(* TypeOK in parts: what the main thread, the handle, the descriptors, the      *)
(* listener, the socket, the terminate threads and the clients own.             *)
MainOK ==
  /\ proc \in {"up", "returned", "killed"}
  /\ mpc \in {"start", "loop", "wait", "del", "read", "handle", "listen", "register",
              "stop", "sendStop", "joinL", "joinT", "status", "drop", "dropSock", "joinM"}
  /\ mEnc \in Fd \cup {NoFd} /\ mFd \in Fd \cup {NoFd} /\ sFd \in Fd \cup {NoFd}
  /\ mHup \in BOOLEAN /\ mDone \in BOOLEAN /\ describe \in BOOLEAN
  /\ mWho \in Conn \cup {NoConn} /\ joinT \in Conn \cup {NoConn}
  /\ mCmd \in CliCommand \cup InternalCommand \cup {"Run", "none"}

HandleOK == encFd \in Fd \cup {NoFd} /\ enclave \in {"none", "running", "hungup"}

FdOK == fdt \in [Fd -> Obj] /\ epoll \subseteq Fd

ListenOK ==
  /\ lpc \in {"none", "accept", "recv", "close", "done"} /\ lFd \in Fd \cup {NoFd}
  /\ backlog \in Seq(Client \cup {Self})

SockOK == sockFile \in BOOLEAN /\ reqRemove \in BOOLEAN /\ mon \in {"none", "watch", "done"}

SigOK == sig \in BOOLEAN

TermOK ==
  /\ tpc \in [Conn -> ThreadPc]
  /\ tFd \in [Conn -> Fd \cup {NoFd}] /\ tConn \in [Conn -> Fd \cup {NoFd}]

CliOK ==
  /\ cst \in [Conn -> {"idle", "open", "dead", "done"}]
  /\ cmd \in [Conn -> CliCommand \cup {"Run", "none"}] /\ sent \in [Conn -> 0..3]

GotOK == got \in [Conn -> SUBSET Reply]

Parts == MainOK /\ HandleOK /\ FdOK /\ ListenOK /\ SockOK /\ SigOK /\ TermOK /\ CliOK /\ GotOK

(* The parts are TypeOK, before a step ...                                      *)
LEMMA TypeParts == TypeOK <=> Parts
  BY Zenon DEF Parts, TypeOK, MainOK, HandleOK, FdOK, ListenOK, SockOK, SigOK, TermOK, CliOK, GotOK

(* ... and after it.                                                            *)
LEMMA TypePartsNext == TypeOK' <=> Parts'
  BY Zenon DEF Parts, TypeOK, MainOK, HandleOK, FdOK, ListenOK, SockOK, SigOK, TermOK, CliOK, GotOK

(* A part keeps its types when its variables do not change.                     *)
Kept ==
  /\ UNCHANGED <<proc, mainVars>> => MainOK'
  /\ UNCHANGED handleVars => HandleOK'
  /\ UNCHANGED fdVars => FdOK'
  /\ UNCHANGED listenVars => ListenOK'
  /\ UNCHANGED sockVars => SockOK'
  /\ UNCHANGED sig => SigOK'
  /\ UNCHANGED termVars => TermOK'
  /\ UNCHANGED cliVars => CliOK'
  /\ UNCHANGED got => GotOK'

(* It does.                                                                     *)
LEMMA PartsKept == Parts => Kept
<1> SUFFICES ASSUME Parts PROVE Kept
  OBVIOUS
<1>1. UNCHANGED <<proc, mainVars>> => MainOK'
  BY DEF Parts, MainOK, mainVars
<1>2. UNCHANGED handleVars => HandleOK'
  BY DEF Parts, HandleOK, handleVars
<1>3. UNCHANGED fdVars => FdOK'
  BY DEF Parts, FdOK, fdVars
<1>4. UNCHANGED listenVars => ListenOK'
  BY DEF Parts, ListenOK, listenVars
<1>5. UNCHANGED sockVars => SockOK'
  BY DEF Parts, SockOK, sockVars
<1>6. UNCHANGED sig => SigOK'
  BY DEF Parts, SigOK
<1>7. UNCHANGED termVars => TermOK'
  BY DEF Parts, TermOK, termVars
<1>8. UNCHANGED cliVars => CliOK'
  BY DEF Parts, CliOK, cliVars
<1>9. UNCHANGED got => GotOK'
  BY DEF Parts, GotOK
<1> QED
  BY <1>1, <1>2, <1>3, <1>4, <1>5, <1>6, <1>7, <1>8, <1>9 DEF Kept

(* What an exit does to the types.                                              *)
LEMMA ExitTypeOK ==
  ASSUME Parts, ReleaseAll, proc' \in {"returned", "killed"},
         UNCHANGED <<mainVars, handleVars, lpc, lFd, sockVars, sig, termVars, cliVars, got>>
  PROVE  Parts'
<1>1. FdOK'
  BY Objects DEF ReleaseAll, FdOK
<1>2. ListenOK'
  BY DEF ReleaseAll, Parts, ListenOK
<1>3. MainOK'
  BY DEF Parts, MainOK, mainVars
<1> QED
  BY <1>1, <1>2, <1>3, PartsKept, Zenon DEF Kept, Parts

(* process::exit keeps the types.                                               *)
LEMMA KillTypeOK == Parts /\ Kill => Parts'
  BY ExitTypeOK DEF Kill

(* What the steps on descriptors, replies and threads do to the types.          *)
TypedStep ==
  /\ \A f : CloseFd(f) => FdOK'
  /\ \A f, r : r \subseteq Reply /\ Tell(f, r) => GotOK'
  /\ \A f, o : o \in Obj /\ fdt' = [fdt EXCEPT ![f] = o] => fdt' \in [Fd -> Obj]
  /\ \A c \in Conn, pc \in ThreadPc : Goto(c, pc) /\ UNCHANGED <<tFd, tConn>> => TermOK'

(* Writing a reply and closing a descriptor keep the types.                     *)
LEMMA StepTypes == Parts => TypedStep
<1> SUFFICES ASSUME Parts PROVE TypedStep
  OBVIOUS
<1>0. FdOK /\ TermOK /\ GotOK
  BY DEF Parts
<1>1. ASSUME NEW f, CloseFd(f) PROVE FdOK'
  BY <1>0, <1>1, Objects, Zenon DEF CloseFd, FdOK
<1>2. ASSUME NEW f, NEW r, r \subseteq Reply, Tell(f, r) PROVE GotOK'
  BY <1>0, <1>2, Zenon DEF Tell, GotOK
<1>3. ASSUME NEW f, NEW o \in Obj, fdt' = [fdt EXCEPT ![f] = o] PROVE fdt' \in [Fd -> Obj]
  BY <1>0, <1>3, Zenon DEF FdOK
<1>4. ASSUME NEW c \in Conn, NEW pc \in ThreadPc, Goto(c, pc), UNCHANGED <<tFd, tConn>> PROVE TermOK'
  BY <1>0, <1>4 DEF Goto, TermOK
<1> QED
  BY <1>1, <1>2, <1>3, <1>4, Zenon DEF TypedStep

(* Waiting for events and reading commands keep the types.                      *)
LEMMA LoopTypeOK ==
  ProcInv /\ (HandleCommStream \/ GetEnclaveDescriptor \/ EpollWait \/ TakeEvent \/ ReadCommand) => Parts'
<1> SUFFICES ASSUME ProcInv, HandleCommStream \/ GetEnclaveDescriptor \/ EpollWait \/ TakeEvent \/ ReadCommand
             PROVE  Parts'
  OBVIOUS
<1>0. Parts /\ Kept /\ TypedStep
  BY TypeParts, PartsKept, StepTypes DEF ProcInv
<1>m. MainOK /\ HandleOK /\ FdOK /\ ListenOK /\ SockOK /\ TermOK
  BY <1>0 DEF Parts
<1>1. CASE HandleCommStream
  <2>1. MainOK'
    BY <1>m, <1>1 DEF MainOK, HandleCommStream
  <2>2. 1 \in Fd
    BY ProcAssumption DEF Fd
  <2>3. FdOK'
    BY Zenon, <1>0, <1>m, <1>1, <2>2 DEF FdOK, TypedStep, HandleCommStream
  <2> QED
    BY <1>0, <1>1, <2>1, <2>3, Zenon DEF Kept, Parts, HandleCommStream
<1>2. CASE GetEnclaveDescriptor
  <2>1. MainOK'
    BY <1>m, <1>2 DEF MainOK, HandleOK, GetEnclaveDescriptor
  <2> QED
    BY <1>0, <1>2, <2>1, Zenon DEF Kept, Parts, GetEnclaveDescriptor
<1>3. CASE EpollWait
  <2>1. PICK f \in epoll : mFd' = f /\ mHup' \in HupFlag(f)
    BY <1>3 DEF EpollWait
  <2>2. mHup' \in BOOLEAN
    BY <2>1, Zenon DEF HupFlag
  <2>3. mFd' \in Fd
    BY <1>m, <2>1 DEF FdOK
  <2>4. MainOK'
    BY <1>m, <1>3, <2>2, <2>3 DEF MainOK, EpollWait
  <2> QED
    BY <1>0, <1>3, <2>4, Zenon DEF Kept, Parts, EpollWait
<1>4. CASE TakeEvent
  <2>1. FdOK'
    BY <1>0, <1>m, <1>4 DEF FdOK, TypedStep, TakeEvent, fdVars
  <2>2. MainOK'
    BY <1>m, <1>4 DEF MainOK, TakeEvent
  <2> QED
    BY <1>0, <1>4, <2>1, <2>2, Zenon DEF Kept, Parts, TakeEvent
<1>5. CASE ReadCommand
  <2>1. CASE Kill
    BY <1>0, <2>1, KillTypeOK
  <2>2. CASE ~Kill
    <3>0. mpc = "read"
      BY <1>5, Zenon DEF ReadCommand, AtMain
    <3>1. mFd \in Fd /\ fdt[mFd] \in Obj
      BY <1>m, <3>0 DEF FdOK, ProcInv, FdInv
    <3>2. fdt[mFd].kind = "cli" => fdt[mFd].who \in Conn
      BY <3>1, Objects
    <3>3. cmd \in [Conn -> CliCommand \cup {"Run", "none"}]
      BY <1>0 DEF Parts, CliOK
    <3>4. mWho' \in Conn \cup {NoConn} /\ mCmd' \in CliCommand \cup InternalCommand \cup {"Run", "none"}
      BY Zenon, <1>5, <2>2, <3>2, <3>3 DEF ReadCommand, InternalCommand
    <3>5. /\ mpc' = "handle"
          /\ UNCHANGED <<proc, mEnc, mFd, mHup, mDone, joinT, describe, sFd, handleVars, fdVars,
                         listenVars, sockVars, sig, termVars, cliVars, got>>
      BY <1>5, <2>2, Zenon DEF ReadCommand
    <3>6. MainOK'
      BY <1>m, <3>4, <3>5 DEF MainOK
    <3> QED
      BY <1>0, <3>5, <3>6, Zenon DEF Kept, Parts
  <2> QED
    BY <2>1, <2>2
<1> QED
  BY <1>1, <1>2, <1>3, <1>4, <1>5

(* The arms of handle_command keep the types.                                   *)
LEMMA HandleTypeOK ==
  ProcInv /\ (Run \/ StartListener \/ RegisterEnclaveDescriptor \/ Terminate \/ Query \/ Internal) => Parts'
<1> SUFFICES ASSUME ProcInv, Run \/ StartListener \/ RegisterEnclaveDescriptor \/ Terminate \/ Query \/ Internal
             PROVE  Parts'
  OBVIOUS
<1>0. Parts /\ Kept /\ TypedStep
  BY TypeParts, PartsKept, StepTypes DEF ProcInv
<1>m. MainOK /\ HandleOK /\ FdOK /\ ListenOK /\ SockOK /\ TermOK
  BY <1>0 DEF Parts
<1>d. mDone \in BOOLEAN /\ describe \in BOOLEAN /\ sockFile \in BOOLEAN
  BY <1>m DEF MainOK, SockOK
<1>6. CASE Run
  <2>1. CASE Kill
    BY <1>0, <2>1, KillTypeOK
  <2>2. CASE ~Kill
    <3>1. mDone' \in BOOLEAN /\ mpc' \in {"stop", "status", "listen"} /\ describe' \in BOOLEAN
      BY <1>d, <1>6, <2>2, Zenon DEF Run, Handled
    <3>2. /\ enclave' \in {enclave, "running"}
          /\ UNCHANGED <<proc, mEnc, mFd, mHup, mWho, mCmd, joinT, sFd, epoll, listenVars,
                         sockVars, sig, termVars, cliVars>>
      BY <1>6, <2>2, Zenon DEF Run, handleVars, fdVars
    <3>3. MainOK'
      BY <1>m, <3>1, <3>2 DEF MainOK
    <3>4. GotOK'
      BY <1>0, <1>6, <2>2, Zenon DEF TypedStep, Run, Reply
    <3>5. fdt' \in [Fd -> Obj] /\ encFd' \in Fd \cup {NoFd}
      BY <1>0, <1>m, <1>6, <2>2, Objects, Zenon DEF FdOK, HandleOK, TypedStep, Run, handleVars, fdVars
    <3>6. FdOK' /\ HandleOK'
      BY <1>m, <3>2, <3>5 DEF FdOK, HandleOK
    <3> QED
      BY <1>0, <3>2, <3>3, <3>4, <3>6, Zenon DEF Kept, Parts
  <2> QED
    BY <2>1, <2>2
<1>7. CASE StartListener
  <2>1. CASE Kill
    BY <1>0, <2>1, KillTypeOK
  <2>2. CASE ~Kill
    <3>1. mDone' \in BOOLEAN /\ mpc' \in {"stop", "status", "register"} /\ sockFile' \in BOOLEAN
      BY <1>d, <1>7, <2>2, Zenon DEF StartListener, Handled
    <3>2. /\ mon' \in {mon, "watch"} /\ lpc' \in {lpc, "accept"}
          /\ UNCHANGED <<proc, mEnc, mFd, mHup, mWho, mCmd, joinT, describe, sFd, handleVars,
                         fdVars, lFd, backlog, reqRemove, sig, termVars, cliVars>>
      BY <1>7, <2>2, Zenon DEF StartListener, listenVars
    <3>3. MainOK'
      BY <1>m, <3>1, <3>2 DEF MainOK
    <3>4. GotOK'
      BY <1>0, <1>7, <2>2, Zenon DEF TypedStep, Kept, StartListener, Reply
    <3>5. SockOK' /\ ListenOK'
      BY <1>m, <3>1, <3>2 DEF SockOK, ListenOK
    <3> QED
      BY <1>0, <3>2, <3>3, <3>4, <3>5, Zenon DEF Kept, Parts
  <2> QED
    BY <2>1, <2>2
<1>8. CASE RegisterEnclaveDescriptor
  <2>1. mDone' \in BOOLEAN /\ mpc' \in {"stop", "status"}
    BY <1>8, Zenon DEF RegisterEnclaveDescriptor, Handled
  <2>2. MainOK'
    BY <1>m, <1>8, <2>1 DEF MainOK, RegisterEnclaveDescriptor
  <2>3. encFd \in Fd
    BY <1>8 DEF RegisterEnclaveDescriptor, AtMain, ProcInv, FdInv
  <2>4. FdOK'
    BY <1>m, <1>8, <2>3 DEF FdOK, RegisterEnclaveDescriptor
  <2> QED
    BY <1>0, <1>8, <2>2, <2>4, Zenon DEF Kept, Parts, RegisterEnclaveDescriptor
<1>9. CASE Terminate
  <2>1. CASE Kill
    BY <1>0, <2>1, KillTypeOK
  <2>2. CASE ~Kill
    <3>1. mWho \in Conn
      BY <1>9 DEF Terminate, ProcInv, FdInv
    <3>2. mDone' \in BOOLEAN /\ mpc' \in {"stop", "status"}
      BY <1>9, <2>2, Zenon DEF Terminate, Handled
    <3>3. /\ joinT' \in {joinT, mWho}
          /\ UNCHANGED <<proc, mEnc, mFd, mHup, mWho, mCmd, describe, sFd, handleVars, listenVars,
                         sockVars, sig, tFd, cliVars>>
      BY <1>9, <2>2, Zenon DEF Terminate, termVars
    <3>4. MainOK'
      BY <1>m, <3>2, <3>3 DEF MainOK
    <3>5. GotOK'
      BY <1>0, <1>9, <2>2, Zenon DEF TypedStep, Kept, Terminate, Reply
    <3>6. FdOK'
      <4>1. Local(mWho) \in Obj
        BY <3>1, Objects
      <4> QED
        BY <1>m, <1>9, <2>2, <4>1, Zenon DEF FdOK, Terminate, fdVars
    <3>7. TermOK'
      <4>1. mFd \in Fd \cup {NoFd}
        BY <1>m DEF MainOK
      <4> QED
        BY <1>m, <1>9, <2>2, <3>1, <4>1, Zenon DEF TermOK, Terminate, ThreadPc, termVars
    <3> QED
      BY <1>0, <3>3, <3>4, <3>5, <3>6, <3>7, Zenon DEF Kept, Parts
  <2> QED
    BY <2>1, <2>2
<1>10. CASE Query
  <2>1. CASE Kill
    BY <1>0, <2>1, KillTypeOK
  <2>2. CASE ~Kill
    <3>1. \A r \in Answers(mCmd) : r \subseteq Reply
      BY <1>10, Zenon DEF Query, ReadOnly, CliCommand, Answers, Reply
    <3>2. GotOK'
      BY <1>0, <1>10, <2>2, <3>1, Zenon DEF TypedStep, Query, Reply
    <3>3. mDone' \in BOOLEAN /\ mpc' \in {"stop", "status"} /\ describe' \in BOOLEAN
      BY <1>10, <2>2, Zenon DEF Query, Handled, FetchDescribeResult
    <3>4. UNCHANGED <<proc, mEnc, mFd, mHup, mWho, mCmd, joinT, sFd, handleVars, fdVars, listenVars,
                      sockVars, sig, termVars, cliVars>>
      BY <1>10, <2>2, Zenon DEF Query
    <3>5. MainOK'
      BY <1>m, <3>3, <3>4 DEF MainOK
    <3> QED
      BY <1>0, <3>2, <3>4, <3>5, Zenon DEF Kept, Parts
  <2> QED
    BY <2>1, <2>2
<1>11. CASE Internal
  <2>1. mDone' \in BOOLEAN /\ mpc' \in {"stop", "status"}
    BY <1>11, Zenon DEF Internal, Handled
  <2>2. MainOK'
    BY <1>m, <1>11, <2>1 DEF MainOK, Internal
  <2> QED
    BY <1>0, <1>11, <2>2, Zenon DEF Kept, Parts, Internal
<1> QED
  BY <1>6, <1>7, <1>8, <1>9, <1>10, <1>11

(* The steps of the main thread after its loop.                                 *)
EndStep ==
  \/ ConnectSelf \/ SendStop \/ NoListener \/ StopFails \/ JoinListener \/ JoinTerminate \/ WriteStatus
  \/ DropManager \/ DropSocket \/ ReturnAndExit

(* The shutdown and the destructors keep the types.                             *)
LEMMA EndTypeOK == ProcInv /\ EndStep => Parts'
<1> SUFFICES ASSUME ProcInv, EndStep PROVE Parts'
  OBVIOUS
<1>0. Parts /\ Kept /\ TypedStep
  BY TypeParts, PartsKept, StepTypes DEF ProcInv
<1>m. MainOK /\ HandleOK /\ FdOK /\ ListenOK /\ SockOK /\ TermOK
  BY <1>0 DEF Parts
<1>1. CASE ConnectSelf
  <2>1. fdt' \in [Fd -> Obj] /\ epoll' = epoll /\ sFd' \in Fd
    BY <1>0, <1>1, Objects, Zenon DEF TypedStep, ConnectSelf
  <2>2. FdOK'
    BY <1>m, <2>1 DEF FdOK
  <2>3. ListenOK'
    BY <1>m, <1>1 DEF ListenOK, ConnectSelf
  <2>4. MainOK'
    BY <1>m, <1>1, <2>1 DEF MainOK, ConnectSelf
  <2> QED
    BY <1>0, <1>1, <2>2, <2>3, <2>4, Zenon DEF Kept, Parts, ConnectSelf
<1>2. CASE SendStop \/ NoListener
  <2>1. MainOK'
    BY <1>m, <1>2 DEF MainOK, SendStop, NoListener
  <2> QED
    BY <1>0, <1>2, <2>1, Zenon DEF Kept, Parts, SendStop, NoListener
<1>3. CASE StopFails
  <2>1. CASE Kill
    BY <1>0, <2>1, KillTypeOK
  <2>2. CASE ~Kill
    <3>1. MainOK' /\ FdOK'
      BY <1>0, <1>m, <1>3, <2>2 DEF MainOK, TypedStep, StopFails
    <3> QED
      BY <1>0, <1>3, <2>2, <3>1, Zenon DEF Kept, Parts, StopFails
  <2> QED
    BY <2>1, <2>2
<1>4. CASE JoinListener
  <2>1. MainOK' /\ FdOK'
    BY <1>0, <1>m, <1>4 DEF MainOK, TypedStep, JoinListener
  <2> QED
    BY <1>0, <1>4, <2>1, Zenon DEF Kept, Parts, JoinListener
<1>5. CASE JoinTerminate
  <2>1. MainOK'
    BY <1>m, <1>5 DEF MainOK, JoinTerminate
  <2> QED
    BY <1>0, <1>5, <2>1, Zenon DEF Kept, Parts, JoinTerminate
<1>6. CASE WriteStatus
  <2>1. CASE Kill
    BY <1>0, <2>1, KillTypeOK
  <2>2. CASE ~Kill
    <3>1. GotOK'
      BY <1>0, <1>6, <2>2 DEF TypedStep, Kept, WriteStatus, Reply
    <3>2. FdOK'
      BY <1>0, <1>6, <2>2 DEF TypedStep, Kept, WriteStatus, DropConnection
    <3>3. /\ mpc' \in {"drop", "loop"}
          /\ UNCHANGED <<proc, mEnc, mFd, mHup, mWho, mCmd, mDone, joinT, describe, sFd, handleVars,
                         listenVars, sockVars, sig, termVars, cliVars>>
      BY <1>6, <2>2 DEF WriteStatus
    <3>4. MainOK'
      BY <1>m, <3>3 DEF MainOK
    <3> QED
      BY <1>0, <3>1, <3>2, <3>3, <3>4, Zenon DEF Kept, Parts
  <2> QED
    BY <2>1, <2>2
<1>7. CASE DropManager
  <2>1. MainOK'
    BY <1>m, <1>7 DEF MainOK, DropManager
  <2>2. FdOK' /\ HandleOK'
    BY <1>0, <1>m, <1>7 DEF HandleOK, TypedStep, Kept, DropManager
  <2> QED
    BY <1>0, <1>7, <2>1, <2>2, Zenon DEF Kept, Parts, DropManager
<1>8. CASE DropSocket
  <2>1. reqRemove' \in BOOLEAN /\ sockFile' \in BOOLEAN
    BY <1>8, Zenon DEF DropSocket
  <2>2. SockOK'
    BY <1>m, <1>8, <2>1 DEF SockOK, DropSocket
  <2>3. MainOK'
    BY <1>m, <1>8 DEF MainOK, DropSocket
  <2> QED
    BY <1>0, <1>8, <2>2, <2>3, Zenon DEF Kept, Parts, DropSocket
<1>9. CASE ReturnAndExit
  <2>1. /\ ReleaseAll /\ proc' = "returned"
        /\ UNCHANGED <<mainVars, handleVars, lpc, lFd, sockVars, sig, termVars, cliVars, got>>
    BY <1>9 DEF ReturnAndExit
  <2> QED
    BY <1>0, <2>1, ExitTypeOK
<1> QED
  BY <1>1, <1>2, <1>3, <1>4, <1>5, <1>6, <1>7, <1>8, <1>9 DEF EndStep

--------------------------------------------------------------------------------
(* The other threads, and descriptors *)

(* The invariant holds in the forked process.                                   *)
LEMMA InitProcInv == Init => ProcInv
<1> SUFFICES ASSUME Init PROVE ProcInv
  OBVIOUS
<1>1. 1 \in Fd /\ 2 \in Fd
  BY ProcAssumption DEF Fd
<1>2. TypeOK
  <2>1. fdt \in [Fd -> Obj]
    BY Zenon, Objects DEF Init, Conn
  <2>2. backlog \in Seq(Client \cup {Self})
    BY DEF Init
  <2>3. sent \in [Conn -> 0..3] /\ got \in [Conn -> SUBSET Reply] /\ cmd \in [Conn -> CliCommand \cup {"Run", "none"}]
    BY DEF Init
  <2>4. /\ tpc \in [Conn -> ThreadPc]
        /\ tFd \in [Conn -> Fd \cup {NoFd}] /\ tConn \in [Conn -> Fd \cup {NoFd}]
        /\ cst \in [Conn -> {"idle", "open", "dead", "done"}]
    BY DEF Init, ThreadPc
  <2> QED
    BY <1>1, <2>1, <2>2, <2>3, <2>4, Zenon DEF Init, TypeOK
<1>3. FdInv
  BY DEF Init, FdInv
<1>4. BootInv
  <2>1. \A f \in Fd : (fdt[f] = Stream(Launcher) => f = 1) /\ fdt[f] # EnclaveObj
    BY Zenon, Objects DEF Init, Conn
  <2> QED
    BY <2>1, ProcAssumption DEF Init, BootInv, Conn
<1>5. TermInv
  <2>1. \A f \in Fd : fdt[f] # EnclaveObj
    BY Zenon, Objects DEF Init, Conn
  <2> QED
    BY <2>1 DEF Init, TermInv, TerminatedMeansReleased
<1> QED
  BY <1>2, <1>3, <1>4, <1>5 DEF ProcInv

(* The listener, the monitor, signals and the environment keep the types.       *)
LEMMA ListenTypeOK ==
  ProcInv /\ (Listener \/ SocketRemoved \/ HandleSignal \/ EnclaveHangsUp \/ SocketDeleted) => Parts'
<1> SUFFICES ASSUME ProcInv, Listener \/ SocketRemoved \/ HandleSignal \/ EnclaveHangsUp \/ SocketDeleted
             PROVE  Parts'
  OBVIOUS
<1>0. Parts /\ Kept /\ TypedStep
  BY TypeParts, PartsKept, StepTypes DEF ProcInv
<1>m. MainOK /\ HandleOK /\ FdOK /\ ListenOK /\ SockOK /\ TermOK
  BY <1>0 DEF Parts
<1>1. CASE Accept
  <2>1. ListenOK'
    BY <1>m, <1>1 DEF ListenOK, Accept
  <2>2. Stream(Head(backlog)) \in Obj
    <3>1. Head(backlog) \in Client \cup {Self}
      BY <1>m, <1>1 DEF ListenOK, Accept
    <3> QED
      BY <3>1, Objects DEF Conn
  <2>3. FdOK'
    BY <1>m, <1>1, <2>2, Zenon DEF FdOK, Accept
  <2> QED
    BY <1>0, <1>1, <2>1, <2>3, Zenon DEF Kept, Parts, Accept
<1>2. CASE HandleNewConnection
  <2>1. lFd \in Fd
    BY ZenonT(30), <1>2 DEF HandleNewConnection, AtListener, ProcInv, FdInv
  <2>2. FdOK'
    BY Zenon, <1>0, <1>m, <1>2, <2>1 DEF FdOK, TypedStep, HandleNewConnection
  <2>3. ListenOK'
    BY Zenon, <1>m, <1>2 DEF ListenOK, HandleNewConnection
  <2> QED
    BY <1>0, <1>2, <2>2, <2>3, ZenonT(30) DEF Kept, Parts, HandleNewConnection
<1>3. CASE CloseListener
  <2>1. reqRemove' \in BOOLEAN /\ sockFile' \in BOOLEAN
    BY <1>3, Zenon DEF CloseListener
  <2>2. SockOK' /\ ListenOK'
    BY <1>m, <1>3, <2>1 DEF SockOK, ListenOK, CloseListener
  <2> QED
    BY <1>0, <1>3, <2>2, Zenon DEF Kept, Parts, CloseListener
<1>4. CASE SocketRemoved
  <2>1. CASE Kill
    BY <1>0, <2>1, KillTypeOK
  <2>2. CASE ~Kill
    <3>1. SockOK'
      BY <1>m, <1>4, <2>2 DEF SockOK, SocketRemoved
    <3> QED
      BY <1>0, <1>4, <2>2, <3>1, Zenon DEF Kept, Parts, SocketRemoved
  <2> QED
    BY <2>1, <2>2
<1>5. CASE HandleSignal
  <2>1. SigOK'
    BY <1>5, Zenon DEF SigOK, HandleSignal
  <2> QED
    BY <1>0, <1>5, <2>1, Zenon DEF Kept, Parts, HandleSignal
<1>6. CASE EnclaveHangsUp
  <2>1. HandleOK'
    BY <1>m, <1>6 DEF HandleOK, EnclaveHangsUp
  <2> QED
    BY <1>0, <1>6, <2>1, Zenon DEF Kept, Parts, EnclaveHangsUp
<1>7. CASE SocketDeleted
  <2>1. SockOK'
    BY <1>m, <1>7, Zenon DEF SockOK, SocketDeleted
  <2> QED
    BY <1>0, <1>7, <2>1, Zenon DEF Kept, Parts, SocketDeleted
<1> QED
  BY <1>1, <1>2, <1>3, <1>4, <1>5, <1>6, <1>7, Zenon DEF Listener

(* Every step of every terminate thread keeps the types.                        *)
LEMMA ThreadTypeOK ==
  ASSUME ProcInv, NEW c \in Conn, TerminateThread(c)
  PROVE  Parts'
<1>0. Parts /\ Kept /\ TypedStep
  BY TypeParts, PartsKept, StepTypes DEF ProcInv
<1>m. MainOK /\ HandleOK /\ FdOK /\ ListenOK /\ SockOK /\ TermOK
  BY <1>0 DEF Parts
<1>p. ThreadPc = {"none", "get", "close", "fail", "clear", "reply", "send", "sent", "done"}
  BY DEF ThreadPc
<1>1. CASE Kill
  BY <1>0, <1>1, KillTypeOK
<1>2. CASE GetTerminationResources(c)
  <2>1. TermOK'
    BY <1>m, <1>2 DEF TermOK, HandleOK, Goto, ThreadPc, GetTerminationResources
  <2> QED
    BY <1>0, <1>2, <2>1, Zenon DEF Kept, Parts, GetTerminationResources
<1>3. CASE ReleaseEnclaveDescriptor(c)
  <2>1. TermOK' /\ FdOK'
    BY Zenon, <1>0, <1>3, <1>p DEF TypedStep, Kept, ReleaseEnclaveDescriptor
  <2> QED
    BY <1>0, <1>3, <2>1, Zenon DEF Kept, Parts, ReleaseEnclaveDescriptor
<1>4. CASE ClearHandle(c)
  <2>1. TermOK'
    BY <1>0, <1>4, <1>p DEF TypedStep, ClearHandle
  <2>2. HandleOK'
    BY <1>m, <1>4 DEF HandleOK, ClearHandle
  <2> QED
    BY <1>0, <1>4, <2>1, <2>2, Zenon DEF Kept, Parts, ClearHandle
<1>5. CASE ReportTermination(c) /\ ~Kill
  <2>1. TermOK'
    BY Zenon, <1>0, <1>5, <1>p DEF TypedStep, ReportTermination
  <2>2. GotOK'
    BY Zenon, <1>0, <1>5 DEF TypedStep, ReportTermination, Reply
  <2> QED
    BY <1>0, <1>5, <2>1, <2>2, Zenon DEF Kept, Parts, ReportTermination
<1>6. CASE SendTerminateComplete(c) /\ ~Kill
  <2>1. TermOK'
    BY <1>0, <1>6, <1>p DEF TypedStep, SendTerminateComplete
  <2> QED
    BY <1>0, <1>6, <2>1, Zenon DEF Kept, Parts, SendTerminateComplete
<1>7. CASE EndThread(c) /\ ~Kill
  <2>1. TermOK' /\ FdOK'
    BY Zenon, <1>0, <1>7, <1>p DEF TypedStep, Kept, EndThread
  <2> QED
    BY <1>0, <1>7, <2>1, Zenon DEF Kept, Parts, EndThread
<1> QED
  BY <1>1, <1>2, <1>3, <1>4, <1>5, <1>6, <1>7, Zenon DEF TerminateThread

(* Every step of a client keeps the types.                                      *)
LEMMA ClientTypeOK ==
  ASSUME ProcInv, NEW c \in Conn, (c \in Client /\ Connect(c)) \/ Send(c) \/ Finish(c) \/ Die(c)
  PROVE  Parts'
<1>0. Parts /\ Kept
  BY TypeParts, PartsKept DEF ProcInv
<1>m. ListenOK /\ CliOK
  BY <1>0 DEF Parts
<1>1. CASE c \in Client /\ Connect(c)
  <2>1. ListenOK'
    <3>1. backlog' = Append(backlog, c) /\ lpc' = lpc /\ lFd' = lFd
      BY <1>1, Zenon DEF Connect
    <3>2. Append(backlog, c) \in Seq(Client \cup {Self})
      <4>1. backlog \in Seq(Client \cup {Self}) /\ c \in Client \cup {Self}
        BY <1>m, <1>1 DEF ListenOK
      <4> QED
        BY <4>1
    <3> QED
      BY <1>m, <3>1, <3>2 DEF ListenOK
  <2>2. CliOK'
    BY <1>m, <1>1, ProcAssumption DEF CliOK, Connect
  <2> QED
    BY <1>0, <1>1, <2>1, <2>2, Zenon DEF Kept, Parts, Connect
<1>2. CASE Send(c)
  <2>1. CliOK'
    BY <1>m, <1>2 DEF CliOK, Send
  <2> QED
    BY <1>0, <1>2, <2>1, Zenon DEF Kept, Parts, Send
<1>3. CASE Finish(c) \/ Die(c)
  <2>1. CliOK'
    BY Zenon, <1>m, <1>3 DEF CliOK, Finish, Die
  <2> QED
    BY <1>0, <1>3, <2>1, Zenon DEF Kept, Parts, Finish, Die
<1> QED
  BY <1>1, <1>2, <1>3

(* Every step of every thread keeps the types.                                  *)
LEMMA NextTypeOK == ProcInv /\ [Next]_vars => TypeOK'
<1> SUFFICES ASSUME ProcInv, [Next]_vars PROVE Parts'
  BY TypePartsNext
<1>1. CASE Rest \/ UNCHANGED vars
  <2>1. UNCHANGED <<proc, mainVars, handleVars, fdVars, listenVars, sockVars, sig, termVars, cliVars, got>>
    BY <1>1, Zenon DEF Rest, vars
  <2> QED
    BY <2>1, TypeParts, PartsKept, Zenon DEF ProcInv, Kept, Parts
<1>2. Client \subseteq Conn
  BY DEF Conn
<1> QED
  BY <1>1, <1>2, LoopTypeOK, HandleTypeOK, EndTypeOK, ListenTypeOK, ThreadTypeOK, ClientTypeOK
  DEF Next, Main, EndStep

(* Every step uses only numbers of descriptors as descriptors.                  *)
LEMMA NextFdInv == ProcInv /\ [Next]_vars => FdInv'
<1> SUFFICES ASSUME ProcInv, [Next]_vars PROVE FdInv'
  OBVIOUS
<1>0. FdInv /\ TypeOK /\ BootInv
  BY DEF ProcInv
<1> USE DEF FdInv, AtMain, AtListener, AtThread, Goto, Handled, Kill, mainVars, handleVars, fdVars, listenVars, sockVars, termVars, cliVars
<1>1. CASE HandleCommStream
  BY Zenon, <1>0, <1>1 DEF HandleCommStream
<1>2. CASE GetEnclaveDescriptor
  BY <1>0, <1>2 DEF GetEnclaveDescriptor
<1>3. CASE EpollWait
  BY Zenon, <1>0, <1>3 DEF EpollWait, TypeOK
<1>4. CASE TakeEvent
  BY Zenon, <1>0, <1>4 DEF TakeEvent
<1>5. CASE ReadCommand
  <2>1. mFd \in Fd /\ fdt[mFd] \in Obj
    BY Zenon, <1>0, <1>5 DEF ReadCommand, TypeOK
  <2>2. fdt[mFd].kind = "cli" => fdt[mFd].who \in Conn
    BY Zenon, <2>1, Objects
  <2> QED
    BY ZenonT(30), <1>0, <1>5, <2>2 DEF ReadCommand
<1>6. CASE Run
  <2>1. \A c \in Conn : tpc[c] = "none"
    BY Zenon, <1>0, <1>6 DEF Run, BootInv
  <2> QED
    BY Zenon, <1>0, <1>6, <2>1 DEF Run
<1>7. CASE StartListener
  BY Zenon, <1>0, <1>7 DEF StartListener
<1>8. CASE RegisterEnclaveDescriptor
  BY <1>0, <1>8 DEF RegisterEnclaveDescriptor
<1>9. CASE Terminate
  BY Zenon, <1>0, <1>9 DEF Terminate
<1>10. CASE Query
  BY Zenon, <1>0, <1>10 DEF Query
<1>11. CASE Internal
  BY Zenon, <1>0, <1>11 DEF Internal
<1>12. CASE ConnectSelf
  BY Zenon, <1>0, <1>12 DEF ConnectSelf
<1>13. CASE SendStop
  BY <1>0, <1>13 DEF SendStop
<1>14. CASE NoListener
  BY <1>0, <1>14 DEF NoListener
<1>15. CASE StopFails
  BY Zenon, <1>0, <1>15 DEF StopFails
<1>16. CASE JoinListener
  BY <1>0, <1>16 DEF JoinListener
<1>17. CASE JoinTerminate
  BY Zenon, <1>0, <1>17 DEF JoinTerminate
<1>18. CASE WriteStatus
  BY Zenon, <1>0, <1>18 DEF WriteStatus
<1>19. CASE DropManager
  BY Zenon, <1>0, <1>19 DEF DropManager
<1>20. CASE DropSocket
  BY Zenon, <1>0, <1>20 DEF DropSocket
<1>21. CASE ReturnAndExit
  BY <1>0, <1>21 DEF ReturnAndExit
<1>22. CASE Accept
  BY Zenon, <1>0, <1>22 DEF Accept
<1>23. CASE HandleNewConnection
  BY Zenon, <1>0, <1>23 DEF HandleNewConnection
<1>24. CASE CloseListener
  BY Zenon, <1>0, <1>24 DEF CloseListener
<1>25. CASE SocketRemoved
  BY Zenon, <1>0, <1>25 DEF SocketRemoved
<1>26. CASE HandleSignal
  BY <1>0, <1>26 DEF HandleSignal
<1>27. CASE EnclaveHangsUp
  BY Zenon, <1>0, <1>27 DEF EnclaveHangsUp
<1>28. CASE SocketDeleted
  BY Zenon, <1>0, <1>28 DEF SocketDeleted
<1>29. CASE Rest
  BY Zenon, <1>0, <1>29 DEF Rest, vars
<1>30. ASSUME NEW c \in Conn, GetTerminationResources(c) PROVE FdInv'
  BY Zenon, <1>0, <1>30 DEF GetTerminationResources
<1>31. ASSUME NEW c \in Conn, ReleaseEnclaveDescriptor(c) PROVE FdInv'
  BY Zenon, <1>0, <1>31 DEF ReleaseEnclaveDescriptor
<1>32. ASSUME NEW c \in Conn, ClearHandle(c) PROVE FdInv'
  BY Zenon, <1>0, <1>32 DEF ClearHandle
<1>33. ASSUME NEW c \in Conn, ReportTermination(c) PROVE FdInv'
  BY Zenon, <1>0, <1>33 DEF ReportTermination
<1>34. ASSUME NEW c \in Conn, SendTerminateComplete(c) PROVE FdInv'
  BY Zenon, <1>0, <1>34 DEF SendTerminateComplete
<1>35. ASSUME NEW c \in Conn, EndThread(c) PROVE FdInv'
  BY Zenon, <1>0, <1>35 DEF EndThread
<1>36. ASSUME NEW c \in Conn, Send(c) PROVE FdInv'
  BY Zenon, <1>0, <1>36 DEF Send
<1>37. ASSUME NEW c \in Conn, Finish(c) PROVE FdInv'
  BY Zenon, <1>0, <1>37 DEF Finish
<1>38. ASSUME NEW c \in Conn, Die(c) PROVE FdInv'
  BY Zenon, <1>0, <1>38 DEF Die
<1>39. ASSUME NEW c \in Client, Connect(c) PROVE FdInv'
  BY <1>0, <1>39, Zenon DEF Connect, Conn
<1>40. CASE UNCHANGED vars
  BY Zenon, <1>0, <1>40 DEF vars
<1> QED
  BY <1>1, <1>2, <1>3, <1>4, <1>5, <1>6, <1>7, <1>8, <1>9, <1>10, <1>11, <1>12, <1>13, <1>14, <1>15, <1>16, <1>17, <1>18, <1>19, <1>20, <1>21, <1>22, <1>23, <1>24, <1>25, <1>26, <1>27, <1>28, <1>29, <1>30, <1>31, <1>32, <1>33, <1>34, <1>35, <1>36, <1>37, <1>38, <1>39, <1>40, Zenon DEF Next, Main, Listener, TerminateThread

--------------------------------------------------------------------------------
(* The boot, termination, and what follows *)

(* A step that neither boots the enclave nor tells a client of its end.         *)
Calm ==
  /\ enclave' = "none" <=> enclave = "none"
  /\ \A f \in Fd : fdt'[f] = EnclaveObj => fdt[f] = EnclaveObj
  /\ \A f \in Fd : fdt'[f] = Stream(Launcher) => fdt[f] = Stream(Launcher)
  /\ Told' = Told

(* The steps on the descriptor table that are calm.                             *)
Shrinks ==
  /\ \A f \in Fd : fdt'[f] = EnclaveObj => fdt[f] = EnclaveObj
  /\ \A f \in Fd : fdt'[f] = Stream(Launcher) => fdt[f] = Stream(Launcher)

CalmTable ==
  /\ UNCHANGED fdt => Shrinks
  /\ ReleaseAll => Shrinks
  /\ \A f : CloseFd(f) => Shrinks
  /\ \A f, o : o \notin {EnclaveObj, Stream(Launcher)} /\ fdt' = [fdt EXCEPT ![f] = o] => Shrinks

(* accept, socketpair and close of another descriptor leave the enclave alone.  *)
LEMMA TableIsCalm == TypeOK => CalmTable
<1> SUFFICES ASSUME TypeOK PROVE CalmTable
  OBVIOUS
<1>0. fdt \in [Fd -> Obj] /\ Launcher \in Conn
  BY Zenon DEF TypeOK, Conn
<1>1. UNCHANGED fdt => Shrinks
  BY DEF Shrinks
<1>2. ReleaseAll => Shrinks
  BY <1>0, Objects DEF Shrinks, ReleaseAll
<1>3. ASSUME NEW f, CloseFd(f) PROVE Shrinks
  BY <1>0, <1>3, Objects DEF Shrinks, CloseFd
<1>4. ASSUME NEW f, NEW o, o \notin {EnclaveObj, Stream(Launcher)}, fdt' = [fdt EXCEPT ![f] = o]
      PROVE  Shrinks
  BY <1>0, <1>4 DEF Shrinks
<1> QED
  BY Zenon, <1>1, <1>2, <1>3, <1>4 DEF CalmTable

(* Writing a reply that is no termination record tells nobody of a termination. *)
LEMMA TellTold ==
  ASSUME TypeOK, NEW f, NEW r, Tell(f, r), "terminated" \notin r
  PROVE  Told' = Told
  BY Zenon DEF TypeOK, Tell, Told

(* Every step but a boot and the report of a termination is calm.               *)
LEMMA NextCalm ==
  ASSUME ProcInv, [Next]_vars
  PROVE  \/ Calm
         \/ Run /\ ~Kill /\ enclave' # "none"
         \/ \E c \in Conn : ReportTermination(c) /\ tpc[c] = "reply" /\ ~Kill
<1>0. TypeOK /\ FdInv /\ Launcher \in Conn
  BY DEF ProcInv, Conn
<1>1. CalmTable
  BY <1>0, TableIsCalm
<1>2. ASSUME Shrinks, Told' = Told, enclave' = "none" <=> enclave = "none" PROVE Calm
  BY Zenon, <1>2 DEF Calm, Shrinks
<1>3. got' = got => Told' = Told
  BY DEF Told
<1>4. CASE Kill
  BY <1>1, <1>2, <1>3, <1>4 DEF Kill, CalmTable, handleVars
<1> USE DEF AtMain, AtListener, AtThread, mainVars, handleVars, fdVars, listenVars, sockVars,
            termVars, cliVars
<1>5. ASSUME HandleCommStream, ~Kill PROVE Calm
  BY Zenon, <1>1, <1>2, <1>3, <1>5 DEF HandleCommStream, CalmTable
<1>6. ASSUME GetEnclaveDescriptor \/ EpollWait \/ SendStop \/ NoListener \/ JoinTerminate \/ Internal, ~Kill PROVE Calm
  BY Zenon, <1>1, <1>2, <1>3, <1>6 DEF GetEnclaveDescriptor, EpollWait, SendStop, NoListener, JoinTerminate, Internal, CalmTable
<1>7. ASSUME RegisterEnclaveDescriptor \/ DropSocket \/ HandleSignal \/ EnclaveHangsUp \/ CloseListener \/ SocketDeleted, ~Kill PROVE Calm
  BY <1>1, <1>2, <1>3, <1>7, Zenon DEF RegisterEnclaveDescriptor, DropSocket, HandleSignal, EnclaveHangsUp, CloseListener, SocketDeleted, CalmTable
<1>8. ASSUME TakeEvent, ~Kill PROVE Calm
  BY Zenon, <1>1, <1>2, <1>3, <1>8 DEF TakeEvent, CalmTable
<1>9. ASSUME ReadCommand, ~Kill PROVE Calm
  BY Zenon, <1>1, <1>2, <1>3, <1>9 DEF ReadCommand, CalmTable
<1>10. ASSUME StopFails, ~Kill PROVE Calm
  BY Zenon, <1>1, <1>2, <1>3, <1>10 DEF StopFails, CalmTable
<1>11. ASSUME JoinListener, ~Kill PROVE Calm
  BY Zenon, <1>1, <1>2, <1>3, <1>11 DEF JoinListener, CalmTable
<1>12. ASSUME DropManager, ~Kill PROVE Calm
  BY Zenon, <1>1, <1>2, <1>3, <1>12 DEF DropManager, CalmTable
<1>13. ASSUME HandleNewConnection, ~Kill PROVE Calm
  BY Zenon, <1>1, <1>2, <1>3, <1>13 DEF HandleNewConnection, CalmTable
<1>14. ASSUME SocketRemoved, ~Kill PROVE Calm
  BY Zenon, <1>1, <1>2, <1>3, <1>14 DEF SocketRemoved, CalmTable
<1>15. ASSUME ReturnAndExit, ~Kill PROVE Calm
  BY <1>1, <1>2, <1>3, <1>15 DEF ReturnAndExit, CalmTable
<1>16. ASSUME ConnectSelf, ~Kill PROVE Calm
  BY <1>0, <1>1, <1>2, <1>3, <1>16, Objects, Zenon DEF ConnectSelf, CalmTable
<1>17. ASSUME Accept, ~Kill PROVE Calm
  <2>1. Head(backlog) \in Client \cup {Self}
    <3>1. backlog \in Seq(Client \cup {Self}) /\ backlog # <<>>
      BY Zenon, <1>0, <1>17 DEF Accept, TypeOK
    <3> QED
      BY <3>1
  <2>2. Stream(Head(backlog)) \notin {EnclaveObj, Stream(Launcher)}
    BY Zenon, <2>1, Objects DEF Conn
  <2> QED
    BY <1>1, <1>2, <1>3, <1>17, <2>2, Zenon DEF Accept, CalmTable
<1>18. ASSUME Terminate, ~Kill PROVE Calm
  <2>1. Local(mWho) \notin {EnclaveObj, Stream(Launcher)}
    BY Zenon, <1>0, <1>18, Objects DEF Terminate, FdInv
  <2>2. Told' = Told
    BY <1>0, <1>3, <1>18, TellTold, Zenon DEF Terminate
  <2> QED
    BY <1>1, <1>2, <1>18, <2>1, <2>2, Zenon DEF Terminate, CalmTable
<1>19. ASSUME StartListener, ~Kill PROVE Calm
  <2>1. Told' = Told
    BY <1>0, <1>3, <1>19, TellTold, Zenon DEF StartListener
  <2> QED
    BY <1>1, <1>2, <1>19, <2>1, Zenon DEF StartListener, CalmTable
<1>20. ASSUME Query, ~Kill PROVE Calm
  <2>1. \A r \in Answers(mCmd) : "terminated" \notin r
    BY <1>20 DEF Query, Answers, ReadOnly, CliCommand
  <2>2. Told' = Told
    BY <1>0, <1>3, <1>20, <2>1, TellTold, Zenon DEF Query
  <2> QED
    BY <1>1, <1>2, <1>20, <2>2, Zenon DEF Query, CalmTable
<1>21. ASSUME WriteStatus, ~Kill PROVE Calm
  <2>1. Told' = Told
    BY Zenon, <1>0, <1>3, <1>21, TellTold DEF WriteStatus
  <2> QED
    BY Zenon, <1>1, <1>2, <1>21, <2>1 DEF WriteStatus, DropConnection, CalmTable
<1>22. ASSUME Run, enclave' = "none", ~Kill PROVE Calm
  <2>1. Told' = Told
    BY <1>0, <1>3, <1>22, TellTold, Zenon DEF Run
  <2> QED
    BY <1>1, <1>2, <1>22, <2>1, Zenon DEF Run, CalmTable
<1>23. ASSUME NEW c \in Conn, GetTerminationResources(c), ~Kill PROVE Calm
  BY Zenon, <1>1, <1>2, <1>3, <1>23 DEF GetTerminationResources, CalmTable
<1>24. ASSUME NEW c \in Conn, ReleaseEnclaveDescriptor(c), ~Kill PROVE Calm
  BY Zenon, <1>1, <1>2, <1>3, <1>24 DEF ReleaseEnclaveDescriptor, CalmTable
<1>25. ASSUME NEW c \in Conn, ClearHandle(c), ~Kill PROVE Calm
  BY Zenon, <1>1, <1>2, <1>3, <1>25 DEF ClearHandle, CalmTable
<1>26. ASSUME NEW c \in Conn, SendTerminateComplete(c), ~Kill PROVE Calm
  BY Zenon, <1>1, <1>2, <1>3, <1>26 DEF SendTerminateComplete, CalmTable
<1>27. ASSUME NEW c \in Conn, EndThread(c), ~Kill PROVE Calm
  BY Zenon, <1>1, <1>2, <1>3, <1>27 DEF EndThread, CalmTable
<1>28. ASSUME NEW c \in Conn, ReportTermination(c), tpc[c] # "reply", ~Kill PROVE Calm
  <2>1. Told' = Told
    BY Zenon, <1>0, <1>3, <1>28, TellTold DEF ReportTermination
  <2> QED
    BY Zenon, <1>1, <1>2, <1>28, <2>1 DEF ReportTermination, CalmTable
<1>29. ASSUME NEW c \in Conn, Connect(c) \/ Send(c) \/ Finish(c) \/ Die(c), ~Kill PROVE Calm
  BY Zenon, <1>1, <1>2, <1>3, <1>29 DEF Connect, Send, Finish, Die, CalmTable
<1>30. ASSUME Rest \/ UNCHANGED vars, ~Kill PROVE Calm
  BY Zenon, <1>1, <1>2, <1>3, <1>30 DEF Rest, vars, CalmTable
<1> QED
  BY Zenon, <1>4, <1>5, <1>6, <1>7, <1>8, <1>9, <1>10, <1>11, <1>12, <1>13, <1>14, <1>15, <1>16, <1>17, <1>18, <1>19, <1>20, <1>21, <1>22, <1>23, <1>24, <1>25, <1>26, <1>27, <1>28, <1>29, <1>30
  DEF Next, Main, Listener, TerminateThread, Conn

(* What a calm step must keep for BootInv to stay true.                         *)
BootMove ==
  /\ UNCHANGED <<cmd, mCmd>>
  /\ enclave = "none" => ~sockFile' /\ tpc' = tpc /\ mpc' \notin {"listen", "register"}
  /\ mpc' = "handle" => mpc = "handle"
  /\ mpc \in AfterBoot => mpc' \in AfterBoot
  /\ mpc' \in WithConn => mpc \in WithConn /\ mFd' = mFd

(* A step that BootMove describes keeps the part of the invariant about the boot. *)
LEMMA MoveBootInv ==
  ASSUME BootInv, Calm, BootMove
  PROVE  BootInv'
<1>1. enclave' = "none" => /\ ~sockFile' /\ mCmd' # "Terminate" /\ mpc' \notin {"listen", "register"}
                           /\ \A c \in Client : cmd'[c] = "none"
                           /\ \A c \in Conn : tpc'[c] = "none"
                           /\ \A f \in Fd : fdt'[f] # EnclaveObj
  BY Zenon DEF BootInv, Calm, BootMove
<1>2. mpc' = "handle" /\ mCmd' = "Run" => enclave' = "none"
  BY Zenon DEF BootInv, Calm, BootMove
<1>3. enclave' # "none" /\ (\E f \in Fd : fdt'[f] = Stream(Launcher)) => mCmd' = "Run" /\ mpc' \in AfterBoot
  BY Zenon DEF BootInv, Calm, BootMove
<1>4. mCmd' = "Run" /\ mpc' \in WithConn => mFd' = 1
  BY DEF BootInv, BootMove
<1> QED
  BY Zenon, <1>1, <1>2, <1>3, <1>4 DEF BootInv, Calm, BootMove

(* Every step keeps it: the enclave boots once.                                 *)
LEMMA NextBootInv == ProcInv /\ [Next]_vars => BootInv'
<1> SUFFICES ASSUME ProcInv, [Next]_vars PROVE BootInv'
  OBVIOUS
<1>0. BootInv /\ TypeOK
  BY DEF ProcInv
<1> USE DEF AtMain, AtListener, AtThread, Goto, Handled, mainVars, handleVars, fdVars, listenVars,
            sockVars, termVars, cliVars
<1>b. enclave = "none" => /\ ~sockFile /\ mCmd # "Terminate" /\ mpc \notin {"listen", "register"}
                          /\ \A c \in Conn : tpc[c] = "none"
  BY <1>0 DEF BootInv
<1>c. /\ cmd[Launcher] = "Run" /\ \A c \in Client : cmd[c] \in CliCommand \cup {"none"}
      /\ enclave = "none" => \A c \in Client : cmd[c] = "none"
  BY Zenon, <1>0 DEF BootInv
<1>t. fdt \in [Fd -> Obj]
  BY Zenon, <1>0 DEF TypeOK
<1>1. CASE Calm /\ BootMove
  BY <1>0, <1>1, MoveBootInv
<1>2. ASSUME Kill PROVE BootMove
  BY Zenon, <1>b, <1>2 DEF Kill, BootMove
<1>3a. ASSUME HandleCommStream, ~Kill PROVE BootMove
  <2>1. /\ mpc = "start" /\ mpc' \in {"loop", "drop"}
        /\ UNCHANGED <<mCmd, mFd, cliVars, sockVars, termVars>>
    BY <1>3a, Zenon DEF HandleCommStream
  <2> QED
    BY <1>b, <2>1 DEF BootMove, AfterBoot, WithConn
<1>3b. ASSUME GetEnclaveDescriptor, ~Kill PROVE BootMove
  BY Zenon, <1>b, <1>3b DEF BootMove, AfterBoot, WithConn, GetEnclaveDescriptor
<1>3c. ASSUME EpollWait, ~Kill PROVE BootMove
  BY Zenon, <1>b, <1>3c DEF BootMove, AfterBoot, WithConn, EpollWait
<1>3d. ASSUME TakeEvent, ~Kill PROVE BootMove
  BY Zenon, <1>b, <1>3d DEF BootMove, AfterBoot, WithConn, TakeEvent
<1>4. ASSUME StartListener, ~Kill PROVE BootMove
  BY Zenon, <1>b, <1>4 DEF BootMove, AfterBoot, WithConn, StartListener
<1>5. ASSUME RegisterEnclaveDescriptor, ~Kill PROVE BootMove
  BY Zenon, <1>b, <1>5 DEF BootMove, AfterBoot, WithConn, RegisterEnclaveDescriptor
<1>6. ASSUME Terminate, ~Kill PROVE BootMove
  BY Zenon, <1>b, <1>6 DEF BootMove, AfterBoot, WithConn, Terminate
<1>7a. ASSUME Query, ~Kill PROVE BootMove
  BY <1>b, <1>7a DEF BootMove, AfterBoot, WithConn, Query
<1>7b. ASSUME Internal, ~Kill PROVE BootMove
  BY <1>b, <1>7b DEF BootMove, AfterBoot, WithConn, Internal
<1>8a. ASSUME ConnectSelf, ~Kill PROVE BootMove
  BY <1>b, <1>8a DEF BootMove, AfterBoot, WithConn, ConnectSelf
<1>8b. ASSUME SendStop, ~Kill PROVE BootMove
  BY <1>b, <1>8b DEF BootMove, AfterBoot, WithConn, SendStop
<1>8c. ASSUME NoListener, ~Kill PROVE BootMove
  BY <1>b, <1>8c DEF BootMove, AfterBoot, WithConn, NoListener
<1>9a. ASSUME StopFails, ~Kill PROVE BootMove
  BY <1>b, <1>9a DEF BootMove, AfterBoot, WithConn, StopFails
<1>9b. ASSUME JoinListener, ~Kill PROVE BootMove
  BY <1>b, <1>9b DEF BootMove, AfterBoot, WithConn, JoinListener
<1>9c. ASSUME JoinTerminate, ~Kill PROVE BootMove
  BY <1>b, <1>9c DEF BootMove, AfterBoot, WithConn, JoinTerminate
<1>10a. ASSUME DropManager, ~Kill PROVE BootMove
  BY <1>b, <1>10a DEF BootMove, AfterBoot, WithConn, DropManager
<1>10b. ASSUME DropSocket, ~Kill PROVE BootMove
  BY <1>b, <1>10b DEF BootMove, AfterBoot, WithConn, DropSocket
<1>10c. ASSUME ReturnAndExit, ~Kill PROVE BootMove
  BY <1>b, <1>10c DEF BootMove, AfterBoot, WithConn, ReturnAndExit
<1>11a. ASSUME Accept, ~Kill PROVE BootMove
  BY Zenon, <1>b, <1>11a DEF BootMove, AfterBoot, WithConn, Accept
<1>11b. ASSUME HandleNewConnection, ~Kill PROVE BootMove
  BY Zenon, <1>b, <1>11b DEF BootMove, AfterBoot, WithConn, HandleNewConnection
<1>11c. ASSUME CloseListener, ~Kill PROVE BootMove
  BY Zenon, <1>b, <1>11c DEF BootMove, AfterBoot, WithConn, CloseListener
<1>12a. ASSUME SocketRemoved, ~Kill PROVE BootMove
  BY <1>b, <1>12a DEF BootMove, AfterBoot, WithConn, SocketRemoved
<1>12b. ASSUME HandleSignal, ~Kill PROVE BootMove
  BY <1>b, <1>12b DEF BootMove, AfterBoot, WithConn, HandleSignal
<1>12c. ASSUME EnclaveHangsUp, ~Kill PROVE BootMove
  BY <1>b, <1>12c DEF BootMove, AfterBoot, WithConn, EnclaveHangsUp
<1>12d. ASSUME SocketDeleted, ~Kill PROVE BootMove
  BY <1>b, <1>12d DEF BootMove, AfterBoot, WithConn, SocketDeleted
<1>13. ASSUME NEW c \in Conn, GetTerminationResources(c) \/ ReleaseEnclaveDescriptor(c) \/ ClearHandle(c), ~Kill PROVE BootMove
  BY Zenon, <1>b, <1>13 DEF BootMove, AfterBoot, WithConn, GetTerminationResources, ReleaseEnclaveDescriptor, ClearHandle
<1>14. ASSUME NEW c \in Conn, ReportTermination(c) \/ SendTerminateComplete(c) \/ EndThread(c), ~Kill PROVE BootMove
  BY Zenon, <1>b, <1>14 DEF BootMove, AfterBoot, WithConn, ReportTermination, SendTerminateComplete, EndThread
<1>15a. ASSUME NEW c \in Conn, Send(c), ~Kill PROVE BootMove
  BY <1>b, <1>15a, Zenon DEF BootMove, AfterBoot, WithConn, Send
<1>15b. ASSUME NEW c \in Conn, Finish(c), ~Kill PROVE BootMove
  BY Zenon, <1>b, <1>15b DEF BootMove, AfterBoot, WithConn, Finish
<1>15c. ASSUME NEW c \in Conn, Die(c), ~Kill PROVE BootMove
  BY Zenon, <1>b, <1>15c DEF BootMove, AfterBoot, WithConn, Die
<1>16. ASSUME Rest \/ UNCHANGED vars PROVE BootMove
  <2>1. UNCHANGED <<mainVars, cliVars, sockVars, termVars>>
    BY <1>16, Zenon DEF Rest, vars
  <2> QED
    BY Zenon, <1>b, <2>1 DEF BootMove
<1>17. CASE ReadCommand /\ ~Kill
  <2>6. mpc = "read"
    BY <1>17, Zenon DEF ReadCommand
  <2>1. mFd \in Fd /\ fdt[mFd] \in Obj
    BY <1>t, <2>6 DEF ProcInv, FdInv
  <2>2. fdt[mFd].kind = "cli" => fdt[mFd].who \in Conn /\ fdt[mFd] = Stream(fdt[mFd].who)
    BY Zenon, <2>1, Objects
  <2>3. /\ mpc' = "handle" /\ mFd' = mFd
        /\ UNCHANGED <<cmd, tpc, sockFile, enclave, fdt>>
    BY <1>17, Zenon DEF ReadCommand
  <2>4. mCmd' = "Run" => fdt[mFd] = Stream(Launcher)
    BY <1>c, <1>17, <2>2, Zenon DEF ReadCommand, CliCommand, Conn
  <2>5. mCmd' = "Terminate" => enclave # "none"
    BY <1>c, <1>17, <2>2, Zenon DEF ReadCommand, Conn
  <2>7. enclave # "none" => \A f \in Fd : fdt[f] # Stream(Launcher)
    BY Zenon, <1>0, <2>6 DEF BootInv, AfterBoot
  <2> QED
    BY Zenon, <1>0, <2>1, <2>3, <2>4, <2>5, <2>7 DEF BootInv
<1>18. CASE Run /\ ~Kill /\ enclave' # "none"
  <2>1. enclave = "none" /\ mCmd' = "Run" /\ mpc' = "listen" /\ mFd' = mFd /\ mFd = 1 /\ UNCHANGED cmd
    BY Zenon, <1>0, <1>18 DEF Run, BootInv, WithConn
  <2>2. \A f \in Fd : fdt'[f] = Stream(Launcher) => fdt[f] = Stream(Launcher)
    BY <1>t, <1>18, Objects, Zenon DEF Run, Conn
  <2> QED
    BY Zenon, <1>0, <1>18, <2>1, <2>2 DEF BootInv, AfterBoot
<1>19. ASSUME Run, ~Kill, enclave' = "none" PROVE BootMove
  <2>1. /\ mpc = "handle" /\ mCmd = "Run" /\ mpc' = "stop"
        /\ UNCHANGED <<mCmd, mFd, cmd, tpc, sockFile>>
    BY Zenon, <1>19 DEF Run
  <2> QED
    BY <1>b, <2>1 DEF BootMove, AfterBoot, WithConn
<1>20. CASE WriteStatus /\ ~Kill /\ Calm
  <2>1. mCmd = "Run" => \A f \in Fd : fdt'[f] # Stream(Launcher)
    <3> SUFFICES ASSUME mCmd = "Run" PROVE \A f \in Fd : fdt'[f] # Stream(Launcher)
      OBVIOUS
    <3>1. mFd = 1 /\ CloseFd(1)
      BY Zenon, <1>0, <1>20 DEF WriteStatus, DropConnection, KeepsConn, BootInv, WithConn
    <3>2. \A f \in Fd : fdt[f] = Stream(Launcher) => f = 1
      BY Zenon, <1>0 DEF BootInv
    <3> QED
      BY Zenon, <1>t, <3>1, <3>2, Objects DEF CloseFd, Conn
  <2>2. mpc' \in {"drop", "loop"} /\ UNCHANGED <<cmd, mCmd, tpc, sockFile, enclave>>
    BY Zenon, <1>20 DEF WriteStatus
  <2>3. mpc = "status"
    BY Zenon, <1>20 DEF WriteStatus
  <2> QED
    BY Zenon, <1>0, <1>20, <2>1, <2>2, <2>3 DEF BootInv, Calm, AfterBoot, WithConn
<1>21. ASSUME NEW c \in Client, Connect(c) PROVE BootInv'
  <2>1. enclave # "none" /\ UNCHANGED <<enclave, fdt, mpc, mCmd, mFd>>
    BY Zenon, <1>0, <1>21 DEF Connect, BootInv
  <2>2. cmd'[Launcher] = "Run" /\ \A d \in Client : cmd'[d] \in CliCommand \cup {"none"}
    <3>1. PICK k \in CliCommand : cmd' = [cmd EXCEPT ![c] = k]
      BY <1>21, ProcAssumption, Zenon DEF Connect
    <3>2. c # Launcher /\ c \in DOMAIN cmd
      BY Zenon, <1>0, ProcAssumption DEF TypeOK, Conn
    <3> QED
      BY <1>0, <3>1, <3>2 DEF BootInv
  <2> QED
    BY Zenon, <1>0, <2>1, <2>2 DEF BootInv
<1> QED
  <2>1. ASSUME Calm PROVE BootInv'
    BY Zenon, <1>1, <1>2, <1>3a, <1>3b, <1>3c, <1>3d, <1>4, <1>5, <1>6, <1>7a, <1>7b, <1>8a, <1>8b, <1>8c, <1>9a, <1>9b, <1>9c, <1>10a, <1>10b, <1>10c, <1>11a, <1>11b, <1>11c,
       <1>12a, <1>12b, <1>12c, <1>12d, <1>13, <1>14, <1>15a, <1>15b, <1>15c, <1>16, <1>17, <1>18, <1>19, <1>20, <1>21, <2>1
    DEF Next, Main, Listener, TerminateThread
  <2>2. ASSUME NEW c \in Conn, ReportTermination(c), tpc[c] = "reply", ~Kill PROVE BootInv'
    <3>1. BootMove
      BY <1>14, <2>2
    <3>2. UNCHANGED <<enclave, fdt>>
      BY Zenon, <2>2 DEF ReportTermination
    <3> QED
      BY Zenon, <1>0, <3>1, <3>2 DEF BootInv, BootMove
  <2> QED
    BY <1>18, <2>1, <2>2, NextCalm

--------------------------------------------------------------------------------
(* Termination *)

(* What a calm step must keep for TermInv to stay true.                         *)
TermMove ==
  /\ encFd' = encFd
  /\ \A c \in Conn : tpc'[c] = "close" => tpc[c] = "close" /\ tFd'[c] = tFd[c]
  /\ \A c \in Conn : tpc'[c] \in {"clear", "reply"} => tpc[c] \in {"clear", "reply"}

(* A released enclave does not come back in a calm step.                        *)
LEMMA CalmReleased == Calm /\ Released => Released'
  BY Zenon DEF Calm, Released

(* A step that TermMove describes keeps the part of the invariant about termination. *)
LEMMA MoveTermInv ==
  ASSUME TermInv, Calm, TermMove
  PROVE  TermInv'
<1>1. Released => Released'
  BY CalmReleased
<1>2. TerminatedMeansReleased'
  BY Zenon, <1>1 DEF TermInv, TerminatedMeansReleased, Calm, Told
<1>3. \A f \in Fd : fdt'[f] = EnclaveObj => encFd' = f
  BY Zenon DEF TermInv, Calm, TermMove
<1> QED
  BY Zenon, <1>1, <1>2, <1>3 DEF TermInv, TermMove

(* Every step keeps it: a thread past the close has released the enclave.       *)
LEMMA NextTermInv == ProcInv /\ [Next]_vars => TermInv'
<1> SUFFICES ASSUME ProcInv, [Next]_vars PROVE TermInv'
  OBVIOUS
<1>0. TermInv /\ TypeOK /\ FdInv /\ BootInv
  BY DEF ProcInv
<1>t. /\ fdt \in [Fd -> Obj] /\ tpc \in [Conn -> ThreadPc]
      /\ tFd \in [Conn -> Fd \cup {NoFd}] /\ got \in [Conn -> SUBSET Reply]
  BY Zenon, <1>0 DEF TypeOK
<1>1. CASE Calm /\ TermMove
  BY <1>0, <1>1, MoveTermInv
<1>2. UNCHANGED <<handleVars, termVars>> => TermMove
  BY Zenon DEF TermMove, handleVars, termVars
<1>3. Kill => TermMove
  BY <1>2 DEF Kill
<1> USE DEF AtMain, AtThread, Goto
<1>4. ASSUME HandleCommStream \/ GetEnclaveDescriptor \/ EpollWait \/ TakeEvent \/ ReadCommand, ~Kill
      PROVE  TermMove
  BY <1>2, <1>4, Zenon DEF HandleCommStream, GetEnclaveDescriptor, EpollWait, TakeEvent, ReadCommand
<1>5. ASSUME StartListener \/ RegisterEnclaveDescriptor \/ Query \/ Internal \/ ConnectSelf \/ SendStop, ~Kill
      PROVE  TermMove
  BY <1>2, <1>5, Zenon DEF StartListener, RegisterEnclaveDescriptor, Query, Internal, ConnectSelf, SendStop
<1>6. ASSUME NoListener \/ StopFails \/ JoinListener \/ JoinTerminate \/ WriteStatus \/ DropSocket, ~Kill
      PROVE  TermMove
  BY Zenon, <1>2, <1>6 DEF NoListener, StopFails, JoinListener, JoinTerminate, WriteStatus, DropSocket
<1>7. ASSUME ReturnAndExit \/ Listener \/ SocketRemoved \/ HandleSignal \/ SocketDeleted, ~Kill
      PROVE  TermMove
  BY <1>2, <1>7, Zenon DEF ReturnAndExit, Listener, Accept, HandleNewConnection, CloseListener, SocketRemoved,
                    HandleSignal, SocketDeleted
<1>8. ASSUME EnclaveHangsUp \/ Rest \/ UNCHANGED vars PROVE TermMove
  BY <1>8, Zenon DEF EnclaveHangsUp, Rest, vars, handleVars, termVars, TermMove
<1>9. ASSUME NEW c \in Conn, Connect(c) \/ Send(c) \/ Finish(c) \/ Die(c) PROVE TermMove
  BY <1>2, <1>9, Zenon DEF Connect, Send, Finish, Die
<1>10. ASSUME Run, ~Kill, enclave' = "none" PROVE TermMove
  BY <1>2, <1>10, Zenon DEF Run
<1>11. CASE Run /\ ~Kill /\ enclave' # "none"
  <2>1. /\ enclave = "none" /\ UNCHANGED termVars
        /\ \E f \in Fd : fdt' = [fdt EXCEPT ![f] = EnclaveObj] /\ encFd' = f
    <3>1. AtMain("handle") /\ mCmd = "Run"
      BY Zenon, <1>11 DEF Run
    <3>2. enclave = "none"
      BY <1>0, <3>1 DEF BootInv
    <3> QED
      BY <1>11, <3>2, Zenon DEF Run, handleVars
  <2>2. /\ \A c \in Conn : tpc[c] = "none" /\ "terminated" \notin got[c]
        /\ \A f \in Fd : fdt[f] # EnclaveObj
    BY Zenon, <1>0, <2>1 DEF BootInv, TermInv, TerminatedMeansReleased, Released
  <2>3. Told' = Told
    BY <1>0, <1>11, TellTold, Zenon DEF Run
  <2> QED
    BY <1>0, <1>t, <2>1, <2>2, <2>3, Zenon DEF TermInv, TerminatedMeansReleased, Told, termVars
<1>12. ASSUME Terminate, ~Kill PROVE TermMove
  <2>1. mWho \in Conn /\ tpc \in [Conn -> ThreadPc]
    BY Zenon, <1>0, <1>t, <1>12 DEF Terminate, FdInv
  <2> QED
    BY <1>12, <2>1, Zenon DEF Terminate, TermMove, handleVars, termVars
<1>13. CASE DropManager /\ Calm
  <2>1. CASE encFd' = encFd
    BY <1>0, <1>13, <2>1, MoveTermInv, Zenon DEF DropManager, TermMove, termVars
  <2>2. CASE encFd' # encFd
    <3>1. CloseFd(encFd) /\ (\A c \in Conn : tpc[c] \in {"none", "done"}) /\ UNCHANGED termVars
      BY Zenon, <1>13, <2>2 DEF DropManager
    <3>2. \A f \in Fd : fdt'[f] # EnclaveObj
      BY Zenon, <1>0, <1>t, <3>1, Objects DEF CloseFd, TermInv
    <3>3. TerminatedMeansReleased'
      BY <1>0, <1>13, CalmReleased, Zenon DEF TermInv, TerminatedMeansReleased, Calm, Told
    <3> QED
      BY <3>1, <3>2, <3>3, Zenon DEF TermInv, termVars
  <2> QED
    BY <2>1, <2>2
<1>14. ASSUME NEW c \in Conn, GetTerminationResources(c), Calm PROVE TermInv'
  <2>1. /\ UNCHANGED <<encFd, fdt>> /\ tpc'[c] = "close" /\ tFd'[c] = encFd
        /\ \A d \in Conn \ {c} : tpc'[d] = tpc[d] /\ tFd'[d] = tFd[d]
    BY Zenon, <1>0, <1>t, <1>14 DEF GetTerminationResources, handleVars, fdVars
  <2>2. (Released => Released') /\ TerminatedMeansReleased'
    BY <1>0, <1>14, CalmReleased, Zenon DEF TermInv, TerminatedMeansReleased, Calm, Told
  <2> QED
    BY <1>0, <2>1, <2>2, Zenon DEF TermInv
<1>15. ASSUME NEW c \in Conn, ReleaseEnclaveDescriptor(c), Calm PROVE TermInv'
  <2>1. tpc[c] = "close" /\ UNCHANGED <<encFd, tFd>> /\ \A d \in Conn \ {c} : tpc'[d] = tpc[d]
    BY Zenon, <1>0, <1>t, <1>15 DEF ReleaseEnclaveDescriptor, handleVars
  <2>2. (Released => Released') /\ TerminatedMeansReleased'
    BY Zenon, <1>0, <1>15, CalmReleased DEF TermInv, TerminatedMeansReleased, Calm, Told
  <2>3. CASE tpc'[c] = "fail"
    BY ZenonT(30), <1>0, <1>15, <2>1, <2>2, <2>3 DEF TermInv, Calm
  <2>4. CASE tpc'[c] # "fail"
    <3>1. CloseFd(tFd[c]) /\ tpc'[c] = "clear" /\ UNCHANGED enclave
      BY Zenon, <1>0, <1>t, <1>15, <2>4 DEF ReleaseEnclaveDescriptor, handleVars
    <3>2. enclave # "none"
      BY ZenonT(30), <1>0, <2>1 DEF BootInv
    <3>3. CASE tFd[c] = encFd
      <4>1. \A f \in Fd : fdt'[f] # EnclaveObj
        BY <1>0, <1>t, <3>1, <3>3, Objects, Zenon DEF CloseFd, TermInv
      <4>2. Released'
        BY Zenon, <3>1, <3>2, <4>1 DEF Released
      <4> QED
        BY Zenon, <2>2, <4>1, <4>2 DEF TermInv
    <3>4. CASE Released
      <4>1. Released'
        BY <2>2, <3>4
      <4> QED
        BY Zenon, <2>2, <4>1 DEF TermInv, Released
    <3> QED
      BY Zenon, <1>0, <2>1, <3>3, <3>4 DEF TermInv
  <2> QED
    BY <2>3, <2>4
<1>16. ASSUME NEW c \in Conn, ClearHandle(c), Calm PROVE TermInv'
  <2>1. Released'
    BY Zenon, <1>0, <1>16, CalmReleased DEF ClearHandle, TermInv
  <2> QED
    BY Zenon, <2>1 DEF TermInv, TerminatedMeansReleased, Released
<1>17. ASSUME NEW c \in Conn, ReportTermination(c) \/ SendTerminateComplete(c) \/ EndThread(c), ~Kill
       PROVE  TermMove
  BY Zenon, <1>0, <1>t, <1>17 DEF ReportTermination, SendTerminateComplete, EndThread, TermMove, handleVars
<1>18. ASSUME NEW c \in Conn, ReportTermination(c), tpc[c] = "reply", ~Kill PROVE TermInv'
  <2>1. Released /\ UNCHANGED <<enclave, fdt>>
    BY <1>0, <1>18, Zenon DEF ReportTermination, TermInv, handleVars, fdVars
  <2>2. Released'
    BY <2>1 DEF Released
  <2> QED
    BY <2>2 DEF TermInv, TerminatedMeansReleased, Released
<1> QED
  <2>1. ASSUME Calm PROVE TermInv'
    BY Zenon, <1>1, <1>3, <1>4, <1>5, <1>6, <1>7, <1>8, <1>9, <1>10, <1>11, <1>12, <1>13, <1>14, <1>15, <1>16,
       <1>17, <2>1
    DEF Next, Main, TerminateThread, Conn
  <2> QED
    BY <1>11, <1>18, <2>1, NextCalm

(* The invariant is inductive.                                                  *)
LEMMA NextProcInv == ProcInv /\ [Next]_vars => ProcInv'
  BY NextTypeOK, NextFdInv, NextBootInv, NextTermInv DEF ProcInv

(* The invariant holds in every state of the process.                           *)
LEMMA AlwaysProcInv == Spec => []ProcInv
  BY InitProcInv, NextProcInv, PTL DEF Spec

(* Every behaviour of the process is well typed.                                *)
THEOREM TypeCorrect == Spec => []TypeOK
<1>1. ProcInv => TypeOK
  BY DEF ProcInv
<1> QED
  BY <1>1, AlwaysProcInv, PTL

(* However many Terminate commands race, whatever faults happen and whichever   *)
(* descriptor numbers are reused, a client receives the termination record only *)
(* after the enclave was released.                                              *)
THEOREM TerminationIsTruthful == Spec => []TerminatedMeansReleased
<1>1. ProcInv => TerminatedMeansReleased
  BY DEF ProcInv, TermInv
<1> QED
  BY <1>1, AlwaysProcInv, PTL

--------------------------------------------------------------------------------
(* Reachability *)

(* The listener is on its way out, and the socket with it, only once the main   *)
(* thread has left its loop for good.                                           *)
ReachInv ==
  /\ mpc \in {"stop", "sendStop", "joinL", "joinT"} => mDone
  /\ lpc \in {"close", "done"} =>
       mpc \in {"joinL", "joinT", "drop", "dropSock", "joinM"} \/ (mpc = "status" /\ mDone)
  /\ lpc # "none" /\ ~sockFile => lpc = "done" \/ mpc = "joinM"
  /\ mpc = "listen" \/ enclave = "none" => lpc = "none"

(* A step of the main thread that leaves the listener and the socket alone.     *)
LEMMA MainReachInv ==
  ASSUME ProcInv, ReachInv, Main, ~StartListener, UNCHANGED <<lpc, sockFile>>
  PROVE  ReachInv'
<1>0. mpc = "handle" /\ mCmd = "Run" => enclave = "none"
  BY Zenon DEF ProcInv, BootInv
<1> USE DEF ReachInv, AtMain, Handled, handleVars
<1>1. CASE UNCHANGED <<mpc, mDone, enclave>>
  BY Zenon, <1>1
<1>2. CASE HandleCommStream \/ GetEnclaveDescriptor \/ EpollWait \/ TakeEvent
  BY Zenon, <1>2 DEF HandleCommStream, GetEnclaveDescriptor, EpollWait, TakeEvent
<1>3. CASE ReadCommand /\ ~Kill
  BY Zenon, <1>3 DEF ReadCommand
<1>4. CASE (Run \/ RegisterEnclaveDescriptor) /\ ~Kill
  BY Zenon, <1>0, <1>4 DEF Run, RegisterEnclaveDescriptor
<1>5. CASE (Terminate \/ Query \/ Internal) /\ ~Kill
  BY Zenon, <1>5 DEF Terminate, Query, Internal
<1>6. CASE (ConnectSelf \/ SendStop \/ NoListener \/ StopFails) /\ ~Kill
  <2>1. /\ mpc \in {"stop", "sendStop"} /\ mpc' \in {"sendStop", "joinL", "joinT", "drop"}
        /\ UNCHANGED <<mDone, enclave>>
    BY Zenon, <1>6 DEF ConnectSelf, SendStop, NoListener, StopFails
  <2> QED
    BY Zenon, <2>1
<1>7. CASE JoinListener \/ JoinTerminate
  BY Zenon, <1>7 DEF JoinListener, JoinTerminate
<1>8. CASE WriteStatus /\ ~Kill
  BY Zenon, <1>8 DEF WriteStatus
<1>9. CASE DropManager \/ DropSocket \/ ReturnAndExit
  BY Zenon, <1>9 DEF DropManager, DropSocket, ReturnAndExit, mainVars
<1>10. Kill => UNCHANGED <<mpc, mDone, enclave>>
  BY Zenon DEF Kill, mainVars
<1> QED
  BY Zenon, <1>1, <1>2, <1>3, <1>4, <1>5, <1>6, <1>7, <1>8, <1>9, <1>10 DEF Main

(* As long as there is a descriptor for accept(), every step keeps it.          *)
LEMMA NextReachInv ==
  ASSUME ProcInv, ReachInv, [Next]_vars, ~NoneFree, "delete" \notin Faults
  PROVE  ReachInv'
<1>1. CASE UNCHANGED <<mpc, mDone, lpc, sockFile, enclave>>
  BY Zenon, <1>1 DEF ReachInv
<1>2. CASE Main
  <2>1. CASE StartListener /\ ~Kill
    <3>1. mpc = "listen" /\ lpc = "none" /\ UNCHANGED enclave
      BY Zenon, <2>1 DEF StartListener, AtMain, ReachInv, handleVars
    <3>2. CASE sockFile' = TRUE /\ lpc' = "accept" /\ mpc' = "register"
      BY Zenon, <3>1, <3>2, <2>1 DEF ReachInv, ProcInv, BootInv
    <3>3. CASE mpc' = "stop" /\ mDone' = TRUE /\ UNCHANGED lpc
      BY Zenon, <3>1, <3>3 DEF ReachInv
    <3> QED
      BY Zenon, <2>1, <3>2, <3>3 DEF StartListener, Handled, listenVars
  <2>2. CASE DropSocket
    BY Zenon, <2>2 DEF DropSocket, AtMain, ReachInv, listenVars, handleVars
  <2>3. CASE UNCHANGED <<lpc, sockFile>> /\ ~StartListener
    BY Zenon, <1>2, <2>3, MainReachInv
  <2>10. CASE Kill
    BY Zenon, <1>1, <2>10 DEF Kill, mainVars, handleVars, sockVars
  <2> USE DEF listenVars, sockVars
  <2>4. Kill => UNCHANGED <<lpc, sockFile>>
    BY Zenon DEF Kill
  <2>5. HandleCommStream \/ GetEnclaveDescriptor \/ EpollWait \/ TakeEvent => UNCHANGED <<lpc, sockFile>>
    BY Zenon DEF HandleCommStream, GetEnclaveDescriptor, EpollWait, TakeEvent
  <2>6. ReadCommand \/ Run \/ RegisterEnclaveDescriptor => UNCHANGED <<lpc, sockFile>>
    BY Zenon, <2>4 DEF ReadCommand, Run, RegisterEnclaveDescriptor
  <2>7. Terminate \/ Query \/ Internal => UNCHANGED <<lpc, sockFile>>
    BY Zenon, <2>4 DEF Terminate, Query, Internal
  <2>8. ConnectSelf \/ SendStop \/ NoListener \/ StopFails => UNCHANGED <<lpc, sockFile>>
    BY Zenon, <2>4 DEF ConnectSelf, SendStop, NoListener, StopFails
  <2>9. JoinListener \/ JoinTerminate \/ WriteStatus \/ DropManager \/ ReturnAndExit => UNCHANGED <<lpc, sockFile>>
    BY Zenon, <2>4 DEF JoinListener, JoinTerminate, WriteStatus, DropManager, ReturnAndExit
  <2> QED
    BY Zenon, <1>2, <2>1, <2>2, <2>3, <2>4, <2>5, <2>6, <2>7, <2>8, <2>9, <2>10 DEF Main
<1>3. CASE Accept
  BY Zenon, <1>3 DEF Accept, AtListener, ReachInv, mainVars, handleVars, sockVars
<1>4. CASE HandleNewConnection
  <2>1. /\ lpc = "recv" /\ UNCHANGED <<mpc, mDone, sockFile, enclave>>
        /\ lpc' \in {"accept", "close"} /\ (lpc' = "close" => mpc = "joinL")
    BY Zenon, <1>4 DEF HandleNewConnection, BreaksAccept, StopSent, AtListener, mainVars, handleVars, sockVars
  <2> QED
    BY Zenon, <2>1 DEF ReachInv
<1>5. CASE CloseListener
  BY Zenon, <1>5 DEF CloseListener, AtListener, ReachInv, mainVars, handleVars
<1> USE DEF mainVars, handleVars, listenVars, sockVars
<1>6. SocketRemoved \/ HandleSignal \/ SocketDeleted => UNCHANGED <<mpc, mDone, lpc, sockFile, enclave>>
  BY Zenon DEF SocketRemoved, Kill, HandleSignal, SocketDeleted
<1>10. CASE EnclaveHangsUp
  BY Zenon, <1>10 DEF EnclaveHangsUp, ReachInv
<1>7. ASSUME NEW c \in Conn, TerminateThread(c) PROVE UNCHANGED <<mpc, mDone, lpc, sockFile, enclave>>
  <2>1. GetTerminationResources(c) \/ ReleaseEnclaveDescriptor(c) \/ ClearHandle(c)
          => UNCHANGED <<mpc, mDone, lpc, sockFile, enclave>>
    BY Zenon DEF GetTerminationResources, ReleaseEnclaveDescriptor, ClearHandle
  <2>2. ReportTermination(c) \/ SendTerminateComplete(c) \/ EndThread(c) => UNCHANGED <<mpc, mDone, lpc, sockFile, enclave>>
    BY Zenon DEF ReportTermination, SendTerminateComplete, EndThread, Kill
  <2> QED
    BY Zenon, <1>7, <2>1, <2>2 DEF TerminateThread
<1>8. ASSUME NEW c, Connect(c) \/ Send(c) \/ Finish(c) \/ Die(c) PROVE UNCHANGED <<mpc, mDone, lpc, sockFile, enclave>>
  BY Zenon, <1>8 DEF Connect, Send, Finish, Die
<1>9. Rest \/ UNCHANGED vars => UNCHANGED <<mpc, mDone, lpc, sockFile, enclave>>
  BY Zenon DEF Rest, vars
<1> QED
  BY Zenon, <1>1, <1>2, <1>3, <1>4, <1>5, <1>6, <1>7, <1>8, <1>9, <1>10 DEF Next, Listener

(* As long as accept() finds a free descriptor, the socket is there whenever    *)
(* the process serves, unless somebody else deletes it: the listener leaves     *)
(* only when stop() told it to, after the event loop was left for good.         *)
THEOREM ServingIsReachable == Spec /\ []~NoneFree => []Reachable
<1>1. CASE "delete" \in Faults
  <2>1. Reachable
    BY <1>1 DEF Reachable
  <2> QED
    BY <2>1, PTL
<1>2. CASE "delete" \notin Faults
  <2>1. Init => ReachInv
    BY DEF Init, ReachInv
  <2>2. ProcInv /\ ReachInv /\ [Next]_vars /\ ~NoneFree => ReachInv'
    BY <1>2, NextReachInv
  <2>3. ReachInv => Reachable
    BY DEF ReachInv, Reachable
  <2> QED
    BY <2>1, <2>2, <2>3, AlwaysProcInv, PTL DEF Spec
<1> QED
  BY <1>1, <1>2

--------------------------------------------------------------------------------
(* Survival *)

(* A client that may terminate the enclave has sent Terminate.                  *)
TermSent == \E c \in Owner : cmd[c] = "Terminate" /\ sent[c] >= 2

(* A client that has not connected yet has chosen no command.                   *)
IdleInv == \A c \in Conn : cst[c] = "idle" => cmd[c] = "none"

(* As long as nobody did, in an environment without faults, the main thread     *)
(* stays in its loop ...                                                        *)
AtConn == {"handle", "listen", "register", "status"}

QuietControl ==
  /\ proc = "up" /\ mpc \in {"start", "loop", "wait", "del", "read"} \cup AtConn
  /\ mCmd \in ReadOnly \cup {"Run", "NotPermitted", "none"} /\ (mpc = "status" => ~mDone)
  /\ \A c \in Conn : tpc[c] = "none"
  /\ ~sig /\ enclave # "hungup"
  /\ mon = "watch" /\ ~sockFile => reqRemove

(* ... the streams in the table, those that wait to be accepted and the one the *)
(* listener reads from have a peer ...                                          *)
QuietTable ==
  /\ \A f \in Fd : /\ fdt[f].kind \in {"free", "enclave", "sig", "cli"}
                   /\ fdt[f].kind = "cli" => WriteOk(f)
                   /\ enclave = "none" /\ f > 2 => fdt[f] = Free
  /\ \A f \in epoll : fdt[f] # Free
  /\ encFd # NoFd => fdt[encFd] = EnclaveObj

QuietListener ==
  /\ \A i \in DOMAIN backlog : backlog[i] \in Client /\ cst[backlog[i]] = "open"
  /\ enclave = "none" => lpc = "none"
  /\ lpc = "recv" => WriteOk(lFd) /\ lFd \notin epoll

(* ... and the main thread serves a stream that is neither the enclave's        *)
(* descriptor nor the one the listener reads from.                              *)
QuietMain ==
  /\ mpc = "start" => WriteOk(1) /\ fdt[1].who = Launcher /\ enclave = "none"
  /\ mpc = "wait" => mEnc = encFd
  /\ mpc = "del" => mFd \in epoll /\ mFd # mEnc
  /\ mpc \in {"del", "read"} \cup AtConn => WriteOk(mFd) /\ (lpc = "recv" => lFd # mFd)
  /\ mpc \in AtConn => fdt[mFd].who = mWho

QuietInv == QuietControl /\ QuietTable /\ QuietListener /\ QuietMain

(* What the kinds of a descriptor tell.                                         *)
LEMMA Kinds ==
  /\ Free.kind = "free" /\ EnclaveObj.kind = "enclave"
  /\ \A c \in Conn : Stream(c).kind = "cli" /\ Stream(c).who = c
  /\ \A f : WriteOk(f) => fdt[f] # Free /\ fdt[f] # EnclaveObj
  BY ProcAssumption DEF Free, EnclaveObj, Stream, WriteOk, Conn

(* A stream that keeps its descriptor and its peer can still be written to.     *)
LEMMA WriteOkKept ==
  ASSUME UNCHANGED <<fdt, cst>>, NEW f
  PROVE  WriteOk(f)' <=> WriteOk(f)
  BY Zenon DEF WriteOk

(* Only the clients' own steps change what they sent.                           *)
LEMMA ClientsSend ==
  ASSUME [Next]_vars
  PROVE  UNCHANGED cliVars \/ (\E c \in Conn : Send(c) \/ Finish(c) \/ Die(c)) \/ \E c \in Client : Connect(c)
<1>1. Kill => UNCHANGED cliVars
  BY Zenon DEF Kill
<1>2. HandleCommStream \/ GetEnclaveDescriptor \/ EpollWait \/ TakeEvent \/ ReadCommand => UNCHANGED cliVars
  BY Zenon, <1>1 DEF HandleCommStream, GetEnclaveDescriptor, EpollWait, TakeEvent, ReadCommand
<1>3. Run \/ StartListener \/ RegisterEnclaveDescriptor \/ Terminate \/ Query \/ Internal => UNCHANGED cliVars
  BY Zenon, <1>1 DEF Run, StartListener, RegisterEnclaveDescriptor, Terminate, Query, Internal
<1>4. ConnectSelf \/ SendStop \/ NoListener \/ StopFails \/ JoinListener \/ JoinTerminate => UNCHANGED cliVars
  BY Zenon, <1>1 DEF ConnectSelf, SendStop, NoListener, StopFails, JoinListener, JoinTerminate
<1>5. WriteStatus \/ DropManager \/ DropSocket \/ ReturnAndExit => UNCHANGED cliVars
  BY Zenon, <1>1 DEF WriteStatus, DropManager, DropSocket, ReturnAndExit
<1>6. Listener => UNCHANGED cliVars
  BY Zenon DEF Listener, Accept, HandleNewConnection, CloseListener
<1>7. SocketRemoved \/ HandleSignal \/ EnclaveHangsUp \/ SocketDeleted => UNCHANGED cliVars
  BY Zenon, <1>1 DEF SocketRemoved, HandleSignal, EnclaveHangsUp, SocketDeleted
<1>8. ASSUME NEW c, TerminateThread(c) PROVE UNCHANGED cliVars
  <2>1. GetTerminationResources(c) \/ ReleaseEnclaveDescriptor(c) \/ ClearHandle(c) => UNCHANGED cliVars
    BY Zenon DEF GetTerminationResources, ReleaseEnclaveDescriptor, ClearHandle
  <2>2. ReportTermination(c) \/ SendTerminateComplete(c) \/ EndThread(c) => UNCHANGED cliVars
    BY Zenon, <1>1 DEF ReportTermination, SendTerminateComplete, EndThread
  <2> QED
    BY Zenon, <1>8, <2>1, <2>2 DEF TerminateThread
<1>9. Rest \/ UNCHANGED vars => UNCHANGED cliVars
  BY Zenon DEF Rest, vars
<1> QED
  BY Zenon, <1>2, <1>3, <1>4, <1>5, <1>6, <1>7, <1>8, <1>9 DEF Next, Main

(* What has been sent stays sent, and an idle client stays without a command.   *)
LEMMA NextIdleInv ==
  ASSUME TypeOK, IdleInv, [Next]_vars
  PROVE  IdleInv' /\ (TermSent => TermSent')
<1>t. cst \in [Conn -> {"idle", "open", "dead", "done"}] /\ cmd \in [Conn -> CliCommand \cup {"Run", "none"}]
      /\ sent \in [Conn -> 0..3]
  BY Zenon DEF TypeOK
<1>o. Owner \subseteq Conn /\ Client \subseteq Conn
  BY ProcAssumption DEF Conn
<1>1. CASE UNCHANGED cliVars
  BY Zenon, <1>1 DEF IdleInv, TermSent, cliVars
<1>2. ASSUME NEW c \in Client, Connect(c) PROVE IdleInv' /\ (TermSent => TermSent')
  <2>1. /\ cst[c] = "idle" /\ cst'[c] = "open" /\ UNCHANGED sent
        /\ \A d \in Conn \ {c} : cst'[d] = cst[d] /\ cmd'[d] = cmd[d]
    BY Zenon, <1>t, <1>o, <1>2 DEF Connect
  <2>2. cmd[c] = "none"
    BY Zenon, <1>o, <2>1 DEF IdleInv
  <2> QED
    BY Zenon, <1>o, <2>1, <2>2 DEF IdleInv, TermSent
<1>3. ASSUME NEW c \in Conn, Send(c) PROVE IdleInv' /\ (TermSent => TermSent')
  <2>1. UNCHANGED <<cst, cmd>> /\ \A d \in Conn : sent'[d] \in {sent[d], sent[d] + 1} /\ sent[d] \in 0..3
    BY Zenon, <1>t, <1>3 DEF Send
  <2>2. ASSUME NEW n \in 0..3, NEW m, m \in {n, n + 1}, n >= 2 PROVE m >= 2
    BY <2>2
  <2>3. \A d \in Conn : sent[d] >= 2 => sent'[d] >= 2
    BY Zenon, <2>1, <2>2
  <2> QED
    BY Zenon, <1>o, <2>1, <2>3 DEF IdleInv, TermSent
<1>4. ASSUME NEW c \in Conn, Finish(c) \/ Die(c) PROVE IdleInv' /\ (TermSent => TermSent')
  <2>1. UNCHANGED <<cmd, sent>> /\ \A d \in Conn : cst'[d] = "idle" => cst[d] = "idle"
    BY Zenon, <1>t, <1>4 DEF Finish, Die
  <2> QED
    BY Zenon, <2>1 DEF IdleInv, TermSent
<1> QED
  BY Zenon, <1>1, <1>2, <1>3, <1>4, ClientsSend

(* No terminate thread, no shutdown and no fault happens then.                  *)
LEMMA QuietImpossible ==
  ASSUME QuietInv, Faults = {}
  PROVE  /\ ~(ConnectSelf \/ SendStop \/ NoListener \/ StopFails \/ JoinListener \/ JoinTerminate)
         /\ ~(Terminate \/ DropManager \/ DropSocket \/ ReturnAndExit)
         /\ ~(HandleSignal \/ EnclaveHangsUp \/ SocketDeleted)
         /\ \A c \in Conn : ~TerminateThread(c) /\ ~Die(c)
<1>1. /\ mpc \in {"start", "loop", "wait", "del", "read", "handle", "listen", "register", "status"}
      /\ mCmd # "Terminate" /\ \A c \in Conn : tpc[c] = "none"
  BY Zenon DEF QuietInv, QuietControl, AtConn, ReadOnly
<1>2. ~(ConnectSelf \/ SendStop \/ NoListener \/ StopFails \/ JoinListener \/ JoinTerminate)
  BY Zenon, <1>1 DEF ConnectSelf, SendStop, NoListener, StopFails, JoinListener, JoinTerminate, AtMain
<1>3. ~(Terminate \/ DropManager \/ DropSocket \/ ReturnAndExit)
  BY Zenon, <1>1 DEF Terminate, DropManager, DropSocket, ReturnAndExit, AtMain
<1>4. ~(HandleSignal \/ EnclaveHangsUp \/ SocketDeleted)
  BY Zenon DEF HandleSignal, EnclaveHangsUp, SocketDeleted
<1>5. ASSUME NEW c \in Conn PROVE ~TerminateThread(c) /\ ~Die(c)
  <2>1. tpc[c] = "none"
    BY <1>1
  <2>2. ~(GetTerminationResources(c) \/ ReleaseEnclaveDescriptor(c) \/ ClearHandle(c))
    BY Zenon, <2>1 DEF GetTerminationResources, ReleaseEnclaveDescriptor, ClearHandle, AtThread
  <2>3. ~(ReportTermination(c) \/ SendTerminateComplete(c) \/ EndThread(c) \/ Die(c))
    BY Zenon, <2>1 DEF ReportTermination, SendTerminateComplete, EndThread, AtThread, Die
  <2> QED
    BY Zenon, <2>2, <2>3 DEF TerminateThread
<1> QED
  BY Zenon, <1>2, <1>3, <1>4, <1>5

(* A step that leaves the table, the clients and the listener as they are.      *)
LEMMA QuietFrame ==
  ASSUME QuietInv, UNCHANGED <<fdt, cst, backlog, lpc, lFd, encFd, enclave>>,
         \A f \in epoll' : fdt[f] # Free, lpc = "recv" => lFd \notin epoll'
  PROVE  QuietTable' /\ QuietListener'
<1>0. QuietTable /\ QuietListener /\ \A f : WriteOk(f)' <=> WriteOk(f)
  BY Zenon, WriteOkKept DEF QuietInv
<1> QED
  BY Zenon, <1>0 DEF QuietTable, QuietListener

(* Waiting for an event: it comes from a stream.                                *)
LEMMA QuietLoop ==
  ASSUME ProcInv, QuietInv, HandleCommStream \/ GetEnclaveDescriptor \/ EpollWait \/ TakeEvent
  PROVE  QuietInv'
<1>0. QuietControl /\ QuietTable /\ QuietListener /\ QuietMain
  BY DEF QuietInv
<1>w. ASSUME UNCHANGED <<fdt, cst>>, NEW f PROVE WriteOk(f)' <=> WriteOk(f)
  BY Zenon, <1>w, WriteOkKept
<1> USE DEF AtMain, handleVars, fdVars, listenVars, sockVars, termVars, cliVars
<1>1. CASE HandleCommStream
  <2>1. cst[Launcher] = "open" /\ WriteOk(1) /\ fdt[1] # Free /\ lpc = "none"
    <3>1. mpc = "start"
      BY Zenon, <1>1 DEF HandleCommStream
    <3>2. WriteOk(1) /\ fdt[1].who = Launcher /\ enclave = "none"
      BY Zenon, <1>0, <3>1 DEF QuietMain
    <3> QED
      BY Zenon, <1>0, <3>2, Kinds DEF WriteOk, QuietListener
  <2>2. /\ mpc' = "loop" /\ epoll' = epoll \cup {1} /\ UNCHANGED fdt
        /\ UNCHANGED <<proc, mCmd, handleVars, listenVars, sockVars, sig, termVars, cliVars>>
    BY Zenon, <1>1, <2>1 DEF HandleCommStream
  <2>3. QuietTable' /\ QuietListener'
    BY Zenon, <1>0, <2>1, <2>2, QuietFrame DEF QuietTable, QuietListener
  <2>4. QuietControl' /\ QuietMain'
    BY Zenon, <1>0, <2>2 DEF QuietControl, QuietMain, AtConn
  <2> QED
    BY <2>3, <2>4 DEF QuietInv
<1>2. CASE GetEnclaveDescriptor
  <2>1. /\ mpc' = "wait" /\ mEnc' = encFd
        /\ UNCHANGED <<proc, mCmd, fdVars, handleVars, listenVars, sockVars, sig, termVars, cliVars>>
    BY Zenon, <1>2 DEF GetEnclaveDescriptor
  <2>2. QuietTable' /\ QuietListener'
    BY Zenon, <1>0, <2>1, QuietFrame DEF QuietTable, QuietListener
  <2>3. QuietControl' /\ QuietMain'
    BY Zenon, <1>0, <2>1 DEF QuietControl, QuietMain, AtConn
  <2> QED
    BY <2>2, <2>3 DEF QuietInv
<1>3. CASE EpollWait
  <2>1. PICK f \in epoll : Ready(f) /\ mFd' = f
    BY Zenon, <1>3 DEF EpollWait
  <2>2. /\ mpc = "wait" /\ mpc' = "del"
        /\ UNCHANGED <<proc, mEnc, mCmd, fdVars, handleVars, listenVars, sockVars, sig, termVars, cliVars>>
    BY Zenon, <1>3 DEF EpollWait
  <2>3. f \in Fd /\ fdt[f].kind \in {"enclave", "sig", "cli"}
    <3>1. f \in Fd /\ fdt[f] \in Obj
      BY Zenon DEF ProcInv, TypeOK
    <3>2. fdt[f].kind \in {"free", "enclave", "sig", "cli"}
      BY Zenon, <1>0, <3>1 DEF QuietTable
    <3>3. fdt[f].kind # "free"
      BY Zenon, <2>1, <3>1 DEF Ready
    <3> QED
      BY Zenon, <3>1, <3>2, <3>3
  <2>4. fdt[f].kind = "cli"
    <3>1. ~sig /\ enclave # "hungup"
      BY Zenon, <1>0 DEF QuietControl
    <3> QED
      BY <2>1, <2>3, <3>1 DEF Ready
  <2>5. WriteOk(f) /\ f # mEnc
    <3>1. WriteOk(f)
      BY Zenon, <1>0, <2>3, <2>4 DEF QuietTable
    <3>2. mEnc = encFd
      BY Zenon, <1>0, <2>2 DEF QuietMain
    <3>3. encFd # NoFd => fdt[encFd] = EnclaveObj
      BY Zenon, <1>0 DEF QuietTable
    <3>4. NoFd \notin Fd
      BY ProcAssumption DEF NoFd, Fd
    <3> QED
      BY Zenon, <2>3, <3>1, <3>2, <3>3, <3>4, Kinds
  <2>6. QuietTable' /\ QuietListener'
    BY Zenon, <1>0, <2>2, QuietFrame DEF QuietTable, QuietListener
  <2>7. QuietControl' /\ QuietMain'
    BY Zenon, <1>0, <1>w, <2>1, <2>2, <2>5 DEF QuietControl, QuietMain, QuietListener, AtConn
  <2> QED
    BY <2>6, <2>7 DEF QuietInv
<1>4. CASE TakeEvent
  <2>1. mpc = "del" /\ mFd \in epoll /\ mFd # mEnc /\ WriteOk(mFd) /\ (lpc = "recv" => lFd # mFd)
    BY Zenon, <1>0, <1>4 DEF TakeEvent, QuietMain
  <2>2. /\ mpc' = "read" /\ epoll' = epoll \ {mFd} /\ mFd' = mFd
        /\ UNCHANGED <<proc, fdt, mCmd, handleVars, listenVars, sockVars, sig, termVars, cliVars>>
    BY Zenon, <1>4, <2>1 DEF TakeEvent
  <2>3. QuietTable' /\ QuietListener'
    BY Zenon, <1>0, <2>2, QuietFrame DEF QuietTable, QuietListener
  <2>4. QuietControl' /\ QuietMain'
    BY Zenon, <1>0, <1>w, <2>1, <2>2 DEF QuietControl, QuietMain, AtConn
  <2> QED
    BY <2>3, <2>4 DEF QuietInv
<1> QED
  BY Zenon, <1>1, <1>2, <1>3, <1>4

(* A descriptor that is opened or closed leaves the others alone.               *)
LEMMA TableSet ==
  ASSUME TypeOK, NEW f \in Fd, NEW o, fdt' = [fdt EXCEPT ![f] = o], UNCHANGED cst
  PROVE  /\ fdt'[f] = o
         /\ \A g \in Fd \ {f} : fdt'[g] = fdt[g] /\ (WriteOk(g)' <=> WriteOk(g))
<1>1. fdt'[f] = o /\ \A g \in Fd \ {f} : fdt'[g] = fdt[g]
  BY Zenon DEF TypeOK
<1> QED
  BY Zenon, <1>1 DEF WriteOk

(* Reading a command: it is not a Terminate that the requester may issue.       *)
LEMMA QuietRead ==
  ASSUME ProcInv, QuietInv, ReadCommand, ~TermSent
  PROVE  QuietInv'
<1>0. QuietControl /\ QuietTable /\ QuietListener /\ QuietMain
  BY DEF QuietInv
<1> DEFINE c == fdt[mFd].who
<1>1. mpc = "read" /\ WriteOk(mFd) /\ (lpc = "recv" => lFd # mFd)
  BY Zenon, <1>0 DEF ReadCommand, AtMain, QuietMain
<1>2. fdt[mFd].kind = "cli" /\ cst[c] = "open" /\ c \in Conn
  <2>1. fdt[mFd] \in Obj
    BY Zenon, <1>1 DEF ProcInv, TypeOK, WriteOk
  <2> QED
    BY Zenon, <1>1, <2>1, Objects DEF WriteOk
<1>3. /\ mWho' = c /\ mpc' = "handle" /\ sent[c] >= 2
      /\ mCmd' = IF Permitted(c, cmd[c]) THEN cmd[c] ELSE "NotPermitted"
      /\ UNCHANGED <<proc, mEnc, mFd, mHup, mDone, joinT, describe, sFd, handleVars, fdVars,
                     listenVars, sockVars, sig, termVars, cliVars, got>>
  BY Zenon, <1>2 DEF ReadCommand
<1> HIDE DEF c
<1>4. mCmd' \in ReadOnly \cup {"Run", "NotPermitted", "none"}
  <2>1. cmd[c] \in CliCommand \cup {"Run", "none"}
    BY Zenon, <1>2 DEF ProcInv, TypeOK
  <2>2. ~(cmd[c] = "Terminate" /\ Permitted(c, cmd[c]))
    BY Zenon, <1>2, <1>3 DEF ProcInv, BootInv, Permitted, TermSent, ReadOnly
  <2> QED
    BY Zenon, <1>3, <2>1, <2>2 DEF ReadOnly
<1> USE DEF handleVars, fdVars, listenVars, sockVars, termVars, cliVars
<1>5. QuietTable' /\ QuietListener'
  BY Zenon, <1>0, <1>3, QuietFrame DEF QuietTable, QuietListener
<1>6. QuietControl'
  BY Zenon, <1>0, <1>3, <1>4 DEF QuietControl, AtConn
<1>7. QuietMain'
  BY Zenon, <1>1, <1>3, WriteOkKept DEF QuietMain, AtConn, c
<1> QED
  BY <1>5, <1>6, <1>7 DEF QuietInv

(* Handling it: only the boot of the enclave opens a descriptor.                *)
LEMMA QuietHandle ==
  ASSUME ProcInv, QuietInv, Faults = {}, MaxFd >= 3,
         Run \/ StartListener \/ RegisterEnclaveDescriptor \/ Query \/ Internal
  PROVE  QuietInv'
<1>0. QuietControl /\ QuietTable /\ QuietListener /\ QuietMain /\ TypeOK /\ BootInv
  BY DEF QuietInv, ProcInv
<1>1. /\ mpc \in {"handle", "listen", "register"} /\ mpc \in AtConn
      /\ WriteOk(mFd) /\ (lpc = "recv" => lFd # mFd) /\ fdt[mFd].who = mWho
  <2>1. mpc \in {"handle", "listen", "register"}
    BY Zenon DEF Run, StartListener, RegisterEnclaveDescriptor, Query, Internal, AtMain
  <2>2. mpc \in AtConn
    BY Zenon, <2>1 DEF AtConn
  <2> QED
    BY Zenon, <1>0, <2>1, <2>2 DEF QuietMain
<1>2. mFd \in Fd /\ fdt[mFd] # Free /\ ~ArgsLost
  BY Zenon, <1>1, Kinds DEF WriteOk, ArgsLost
<1> USE DEF AtMain, Handled, handleVars, fdVars, listenVars, sockVars, termVars, cliVars
<1>w. UNCHANGED <<fdt, cst, epoll, lpc, lFd, mFd, mWho>> /\ mpc' \in AtConn => QuietMain'
  BY Zenon, <1>1, WriteOkKept DEF QuietMain, AtConn
<1>3. CASE Run
  <2>1. mCmd = "Run" /\ enclave = "none" /\ lpc = "none"
    BY Zenon, <1>0, <1>3 DEF Run, BootInv, QuietListener
  <2>2. ~NoneFree
    <3>1. 3 \in Fd /\ 3 > 2
      BY ProcAssumption DEF Fd
    <3> QED
      BY Zenon, <1>0, <2>1, <3>1 DEF QuietTable, NoneFree
  <2>3. /\ mpc' = "listen" /\ enclave' = "running"
        /\ UNCHANGED <<proc, mCmd, mFd, mWho, mDone, epoll, listenVars, sockVars, sig, termVars, cliVars>>
    BY Zenon, <1>1, <1>2, <1>3, <2>2 DEF Run
  <2>4. PICK f \in Fd : fdt[f] = Free /\ fdt' = [fdt EXCEPT ![f] = EnclaveObj] /\ encFd' = f
    BY Zenon, <1>1, <1>2, <1>3, <2>2 DEF Run, Lowest
  <2>5. fdt'[f] = EnclaveObj /\ \A g \in Fd \ {f} : fdt'[g] = fdt[g] /\ (WriteOk(g)' <=> WriteOk(g))
    BY Zenon, <1>0, <2>3, <2>4, TableSet
  <2>6. QuietTable'
    <3>1. ASSUME NEW g \in Fd
          PROVE  /\ fdt'[g].kind \in {"free", "enclave", "sig", "cli"}
                 /\ fdt'[g].kind = "cli" => WriteOk(g)'
      BY Zenon, <1>0, <2>5, Kinds DEF QuietTable
    <3>2. \A g \in epoll' : fdt'[g] # Free
      BY Zenon, <1>0, <2>3, <2>5, Objects DEF QuietTable, TypeOK
    <3> QED
      BY Zenon, <2>3, <2>4, <2>5, <3>1, <3>2 DEF QuietTable
  <2>7. QuietListener' /\ QuietControl'
    BY Zenon, <1>0, <2>1, <2>3 DEF QuietListener, QuietControl, AtConn
  <2>8. QuietMain'
    BY Zenon, <1>1, <1>2, <2>1, <2>3, <2>4, <2>5 DEF QuietMain, AtConn
  <2> QED
    BY <2>6, <2>7, <2>8 DEF QuietInv
<1>4. CASE StartListener
  <2>1. /\ mpc = "listen" /\ sockFile' = TRUE /\ mon' = "watch" /\ lpc' = "accept" /\ mpc' = "register"
        /\ UNCHANGED <<proc, mFd, mWho, mCmd, handleVars, fdVars, lFd, backlog, sig, termVars, cliVars>>
    BY Zenon, <1>4 DEF StartListener
  <2>2. enclave # "none"
    BY Zenon, <1>0, <2>1 DEF BootInv
  <2>3. QuietTable' /\ QuietListener'
    BY Zenon, <1>0, <2>1, <2>2, WriteOkKept DEF QuietTable, QuietListener
  <2>4. QuietControl'
    BY Zenon, <1>0, <2>1 DEF QuietControl, AtConn
  <2>5. QuietMain'
    BY Zenon, <1>1, <2>1, WriteOkKept DEF QuietMain, AtConn
  <2> QED
    BY <2>3, <2>4, <2>5 DEF QuietInv
<1>5. CASE RegisterEnclaveDescriptor
  <2>1. /\ mpc = "register" /\ mpc' = "status" /\ mDone' = FALSE /\ epoll' = epoll \cup {encFd}
        /\ UNCHANGED <<proc, mFd, mWho, mCmd, handleVars, fdt, listenVars, sockVars, sig, termVars, cliVars>>
    BY Zenon, <1>5 DEF RegisterEnclaveDescriptor
  <2>2. fdt[encFd] = EnclaveObj
    <3>1. encFd \in Fd /\ NoFd \notin Fd
      BY <2>1, ProcAssumption DEF ProcInv, FdInv, NoFd, Fd
    <3> QED
      BY Zenon, <1>0, <3>1 DEF QuietTable
  <2>3. (\A f \in epoll' : fdt[f] # Free) /\ (lpc = "recv" => lFd \notin epoll')
    BY Zenon, <1>0, <2>1, <2>2, Kinds, Objects DEF QuietTable, QuietListener
  <2>4. QuietTable' /\ QuietListener'
    BY Zenon, <2>1, <2>3, QuietFrame
  <2>5. QuietControl'
    BY Zenon, <1>0, <2>1 DEF QuietControl, AtConn
  <2>6. QuietMain'
    BY Zenon, <1>1, <2>1, WriteOkKept DEF QuietMain, AtConn
  <2> QED
    BY <2>4, <2>5, <2>6 DEF QuietInv
<1>6. CASE Query \/ Internal
  <2>1. /\ mpc' = "status" /\ mDone' = FALSE
        /\ UNCHANGED <<proc, mFd, mWho, mCmd, handleVars, fdVars, listenVars, sockVars, sig, termVars, cliVars>>
    <3>1. CASE Query
      BY Zenon, <1>1, <1>2, <3>1 DEF Query
    <3>2. CASE Internal
      <4>1. mCmd = "NotPermitted"
        BY Zenon, <1>0, <3>2 DEF Internal, QuietControl, ReadOnly, CliCommand, InternalCommand
      <4> QED
        BY Zenon, <3>2, <4>1 DEF Internal
    <3> QED
      BY Zenon, <1>6, <3>1, <3>2
  <2>2. QuietTable' /\ QuietListener'
    BY Zenon, <1>0, <2>1, QuietFrame DEF QuietTable, QuietListener
  <2>3. QuietControl'
    BY Zenon, <1>0, <2>1 DEF QuietControl, AtConn
  <2>4. QuietMain'
    BY Zenon, <1>w, <2>1 DEF AtConn
  <2> QED
    BY <2>2, <2>3, <2>4 DEF QuietInv
<1> QED
  BY Zenon, <1>3, <1>4, <1>5, <1>6

(* A step of the others that lets the streams be.                               *)
LEMMA QuietMainKept ==
  ASSUME QuietMain, UNCHANGED <<mpc, mFd, mEnc, mWho, fdt, encFd, enclave>>, epoll \subseteq epoll',
         \A f : WriteOk(f) => WriteOk(f)', lpc' = "recv" => lpc = "recv" /\ lFd' = lFd
  PROVE  QuietMain'
<1>1. (mpc = "start" => WriteOk(1)' /\ fdt'[1].who = Launcher /\ enclave' = "none")
      /\ (mpc = "wait" => mEnc = encFd) /\ (mpc = "del" => mFd \in epoll' /\ mFd # mEnc)
  BY Zenon DEF QuietMain
<1>2. mpc \in {"del", "read"} \cup AtConn => WriteOk(mFd)' /\ (lpc' = "recv" => lFd' # mFd)
  BY Zenon DEF QuietMain
<1>3. mpc \in AtConn => fdt'[mFd].who = mWho
  BY Zenon DEF QuietMain
<1> QED
  BY Zenon, <1>1, <1>2, <1>3 DEF QuietMain

(* The status can be written, and only the connection's own descriptor closes.  *)
LEMMA QuietStatus ==
  ASSUME ProcInv, QuietInv, WriteStatus
  PROVE  QuietInv'
<1>0. QuietControl /\ QuietTable /\ QuietListener /\ QuietMain /\ TypeOK
  BY DEF QuietInv, ProcInv
<1>1. /\ mpc = "status" /\ ~mDone /\ mCmd # "Terminate"
      /\ WriteOk(mFd) /\ (lpc = "recv" => lFd # mFd)
  <2>1. mpc = "status" /\ mpc \in AtConn
    BY Zenon DEF WriteStatus, AtMain, AtConn
  <2> QED
    BY Zenon, <1>0, <2>1 DEF QuietControl, QuietMain, ReadOnly
<1>2. mFd \in Fd /\ fdt[mFd] # Free /\ fdt[mFd] # EnclaveObj /\ ~KeepsConn
  BY Zenon, <1>1, Kinds DEF WriteOk, KeepsConn
<1>3. /\ fdt' = [fdt EXCEPT ![mFd] = Free] /\ epoll' = epoll \ {mFd} /\ mpc' = "loop"
      /\ UNCHANGED <<proc, mCmd, mDone, handleVars, listenVars, sockVars, sig, termVars, cliVars>>
  BY Zenon, <1>1, <1>2 DEF WriteStatus, DropConnection, CloseFd
<1> USE DEF handleVars, listenVars, sockVars, termVars, cliVars
<1>4. fdt'[mFd] = Free /\ \A g \in Fd \ {mFd} : fdt'[g] = fdt[g] /\ (WriteOk(g)' <=> WriteOk(g))
  BY Zenon, <1>0, <1>2, <1>3, TableSet
<1>5. QuietTable'
  <2>1. ASSUME NEW f \in Fd
        PROVE  /\ fdt'[f].kind \in {"free", "enclave", "sig", "cli"}
               /\ fdt'[f].kind = "cli" => WriteOk(f)'
               /\ enclave' = "none" /\ f > 2 => fdt'[f] = Free
    BY Zenon, <1>0, <1>3, <1>4, Kinds DEF QuietTable
  <2>2. \A f \in epoll' : fdt'[f] # Free
    BY Zenon, <1>0, <1>3, <1>4 DEF QuietTable, TypeOK
  <2>3. encFd' # NoFd => fdt'[encFd'] = EnclaveObj
    BY Zenon, <1>0, <1>2, <1>3, <1>4 DEF QuietTable, TypeOK
  <2> QED
    BY Zenon, <2>1, <2>2, <2>3 DEF QuietTable
<1>6. QuietListener'
  <2>1. lpc = "recv" => WriteOk(lFd)' /\ lFd \notin epoll'
    <3>1. lpc = "recv" => WriteOk(lFd) /\ lFd \in Fd /\ lFd # mFd /\ lFd \notin epoll
      BY Zenon, <1>0, <1>1 DEF QuietListener, WriteOk
    <3> QED
      BY Zenon, <1>3, <1>4, <3>1
  <2> QED
    BY Zenon, <1>0, <1>3, <2>1 DEF QuietListener
<1>7. QuietControl' /\ QuietMain'
  BY Zenon, <1>0, <1>3 DEF QuietControl, QuietMain, AtConn
<1> QED
  BY <1>5, <1>6, <1>7 DEF QuietInv

(* The listener: it accepts on a free descriptor, and always gets a command.    *)
LEMMA QuietListen ==
  ASSUME ProcInv, QuietInv, Listener
  PROVE  QuietInv'
<1>0. QuietControl /\ QuietTable /\ QuietListener /\ QuietMain /\ TypeOK
  BY DEF QuietInv, ProcInv
<1>1. /\ lpc \in {"accept", "recv", "close"} /\ mpc # "start" /\ enclave # "none"
      /\ UNCHANGED <<proc, mainVars, handleVars, mon, sig, termVars, cliVars>>
  <2>1. lpc \in {"accept", "recv", "close"}
        /\ UNCHANGED <<proc, mainVars, handleVars, mon, sig, termVars, cliVars>>
    BY Zenon DEF Listener, Accept, HandleNewConnection, CloseListener, AtListener, sockVars
  <2> QED
    BY Zenon, <1>0, <2>1 DEF QuietListener, QuietMain
<1> USE DEF mainVars, handleVars, fdVars, listenVars, sockVars, termVars, cliVars
<1>2. CASE Accept /\ UNCHANGED fdt
  <2>1. lpc' = "close" /\ UNCHANGED <<backlog, epoll, sockVars>>
    <3>1. ~\E f \in Fd : Lowest(f) /\ fdt' = [fdt EXCEPT ![f] = Stream(Head(backlog))]
      <4>1. Head(backlog) \in Conn \cup {Self}
        <5>1. backlog \in Seq(Client \cup {Self}) /\ backlog # <<>>
          BY Zenon, <1>0, <1>2 DEF Accept, TypeOK
        <5>2. Head(backlog) \in Client \cup {Self}
          BY <5>1
        <5> QED
          BY Zenon, <5>2 DEF Conn
      <4> QED
        BY Zenon, <1>0, <1>2, <4>1, Objects DEF Lowest, TypeOK
    <3> QED
      BY Zenon, <1>2, <3>1 DEF Accept
  <2>2. QuietTable' /\ QuietListener'
    BY Zenon, <1>0, <1>1, <2>1, <1>2, WriteOkKept DEF QuietTable, QuietListener
  <2>3. QuietControl'
    BY Zenon, <1>0, <1>1, <2>1, <1>2 DEF QuietControl
  <2>m. QuietMain'
    BY Zenon, <1>0, <1>1, <2>1, <1>2, WriteOkKept, QuietMainKept
  <2> QED
    BY <2>m, <2>2, <2>3 DEF QuietInv
<1>3. CASE Accept /\ fdt' # fdt
  <2> DEFINE c == Head(backlog)
  <2>1. PICK f \in Fd : fdt[f] = Free /\ fdt' = [fdt EXCEPT ![f] = Stream(c)] /\ lFd' = f
    BY Zenon, <1>3 DEF Accept, Lowest
  <2>2. lpc' = "recv" /\ backlog # <<>> /\ backlog' = Tail(backlog) /\ UNCHANGED <<epoll, sockVars>>
    BY Zenon, <1>3 DEF Accept
  <2>3. /\ c \in Conn /\ cst[c] = "open"
        /\ \A i \in DOMAIN backlog' : backlog'[i] \in Client /\ cst[backlog'[i]] = "open"
    <3>1. backlog \in Seq(Client \cup {Self})
      BY Zenon, <1>0 DEF TypeOK
    <3>2. 1 \in DOMAIN backlog /\ c = backlog[1]
          /\ \A i \in DOMAIN backlog' : i + 1 \in DOMAIN backlog /\ backlog'[i] = backlog[i + 1]
      BY <2>2, <3>1
    <3> QED
      BY Zenon, <1>0, <3>2 DEF QuietListener, Conn
  <2> HIDE DEF c
  <2>4. fdt'[f] = Stream(c) /\ \A g \in Fd \ {f} : fdt'[g] = fdt[g] /\ (WriteOk(g)' <=> WriteOk(g))
    BY Zenon, <1>0, <1>1, <2>1, TableSet
  <2>5. WriteOk(f)' /\ fdt'[f].kind = "cli" /\ fdt'[f] # Free
    <3>1. fdt'[f].kind = "cli" /\ fdt'[f].who = c /\ cst' = cst
      BY Zenon, <1>1, <2>3, <2>4, Kinds
    <3> QED
      BY Zenon, <2>3, <3>1, Kinds DEF WriteOk
  <2>6. QuietTable'
    <3>1. ASSUME NEW g \in Fd
          PROVE  /\ fdt'[g].kind \in {"free", "enclave", "sig", "cli"}
                 /\ fdt'[g].kind = "cli" => WriteOk(g)'
      BY Zenon, <1>0, <2>4, <2>5 DEF QuietTable
    <3>2. \A g \in epoll' : fdt'[g] # Free
      BY Zenon, <1>0, <2>2, <2>4, <2>5 DEF QuietTable, TypeOK
    <3>3. encFd' # NoFd => fdt'[encFd'] = EnclaveObj
      BY Zenon, <1>0, <1>1, <2>1, <2>4, Objects DEF QuietTable, TypeOK
    <3> QED
      BY Zenon, <1>1, <3>1, <3>2, <3>3 DEF QuietTable
  <2>7. QuietListener'
    BY Zenon, <1>0, <1>1, <2>1, <2>2, <2>3, <2>5 DEF QuietListener, QuietTable
  <2>8. QuietMain'
    <3>1. ASSUME WriteOk(mFd) PROVE WriteOk(mFd)' /\ f # mFd /\ fdt'[mFd] = fdt[mFd]
      <4>1. mFd \in Fd /\ f # mFd /\ mFd' = mFd
        BY Zenon, <1>1, <2>1, <3>1, Kinds DEF WriteOk
      <4> QED
        BY Zenon, <2>4, <3>1, <4>1
    <3> QED
      BY Zenon, <1>0, <1>1, <2>1, <2>2, <3>1 DEF QuietMain
  <2>9. QuietControl'
    BY Zenon, <1>0, <1>1, <2>2 DEF QuietControl
  <2> QED
    BY <2>6, <2>7, <2>8, <2>9 DEF QuietInv
<1>4. CASE HandleNewConnection
  <2>1. lpc = "recv" /\ WriteOk(lFd) /\ fdt[lFd] # Free /\ fdt[lFd].kind = "cli"
    BY Zenon, <1>0, <1>4, Kinds DEF HandleNewConnection, AtListener, QuietListener, WriteOk
  <2>2. epoll' = epoll \cup {lFd} /\ lpc' = "accept" /\ UNCHANGED <<fdt, backlog, lFd, sockVars>>
    BY Zenon, <1>4, <2>1 DEF HandleNewConnection, BreaksAccept, WriteOk
  <2>3. QuietTable' /\ QuietListener'
    BY Zenon, <1>0, <1>1, <2>1, <2>2, WriteOkKept DEF QuietTable, QuietListener
  <2>4. QuietControl'
    BY Zenon, <1>0, <1>1, <2>2 DEF QuietControl
  <2>m. QuietMain'
    BY Zenon, <1>0, <1>1, <2>2, WriteOkKept, QuietMainKept
  <2> QED
    BY <2>m, <2>3, <2>4 DEF QuietInv
<1>5. CASE CloseListener
  <2>1. reqRemove' = TRUE /\ backlog' = <<>> /\ lpc' = "done" /\ UNCHANGED fdVars
    BY Zenon, <1>5 DEF CloseListener
  <2>2. DOMAIN backlog' = {}
    BY <2>1
  <2>3. QuietTable' /\ QuietListener'
    BY Zenon, <1>0, <1>1, <2>1, <2>2, WriteOkKept DEF QuietTable, QuietListener
  <2>4. QuietControl'
    BY Zenon, <1>0, <1>1, <2>1 DEF QuietControl
  <2>m. QuietMain'
    BY Zenon, <1>0, <1>1, <2>1, WriteOkKept, QuietMainKept
  <2> QED
    BY <2>m, <2>3, <2>4 DEF QuietInv
<1> QED
  BY Zenon, <1>2, <1>3, <1>4, <1>5 DEF Listener

(* The clients: one that the process holds a stream of does not finish.         *)
LEMMA QuietClients ==
  ASSUME ProcInv, QuietInv,
         (\E c \in Client : Connect(c)) \/ (\E c \in Conn : Send(c) \/ Finish(c))
  PROVE  QuietInv'
<1>0. QuietControl /\ QuietTable /\ QuietListener /\ QuietMain /\ TypeOK
  BY DEF QuietInv, ProcInv
<1>t. cst \in [Conn -> {"idle", "open", "dead", "done"}] /\ Client \subseteq Conn
  BY Zenon, <1>0 DEF TypeOK, Conn
<1> USE DEF mainVars, handleVars, fdVars, sockVars, termVars, listenVars
<1> DEFINE Served == /\ UNCHANGED <<proc, mainVars, handleVars, fdVars, lpc, lFd, sockVars, sig, termVars>>
                     /\ \A d \in Conn : cst[d] = "open" /\ ServerOpen(d) => cst'[d] = "open"
                     /\ \A i \in DOMAIN backlog' : backlog'[i] \in Client /\ cst'[backlog'[i]] = "open"
<1>1. Served
  <2>1. ASSUME NEW c \in Client, Connect(c) PROVE Served
    <3>1. UNCHANGED <<proc, mainVars, handleVars, fdVars, lpc, lFd, sockVars, sig, termVars>>
      BY Zenon, <2>1 DEF Connect
    <3>2. cst'[c] = "open" /\ \A d \in Conn \ {c} : cst'[d] = cst[d]
      BY Zenon, <1>t, <2>1 DEF Connect
    <3>3. \A i \in DOMAIN backlog' : backlog'[i] = c \/ (i \in DOMAIN backlog /\ backlog'[i] = backlog[i])
      <4>1. backlog \in Seq(Client \cup {Self}) /\ backlog' = Append(backlog, c)
        BY Zenon, <1>0, <2>1 DEF TypeOK, Connect
      <4> QED
        BY <4>1
    <3>4. \A d \in Conn : cst[d] = "open" => cst'[d] = "open"
      BY Zenon, <3>2
    <3>5. \A i \in DOMAIN backlog' : backlog'[i] \in Client /\ cst'[backlog'[i]] = "open"
      <4> SUFFICES ASSUME NEW i \in DOMAIN backlog' PROVE backlog'[i] \in Client /\ cst'[backlog'[i]] = "open"
        BY Zenon
      <4>1. CASE backlog'[i] = c
        BY Zenon, <3>2, <4>1
      <4>2. CASE i \in DOMAIN backlog /\ backlog'[i] = backlog[i]
        BY Zenon, <1>0, <1>t, <3>4, <4>2 DEF QuietListener
      <4> QED
        BY Zenon, <3>3, <4>1, <4>2
    <3> QED
      BY Zenon, <3>1, <3>4, <3>5
  <2>2. ASSUME NEW c \in Conn, Send(c) PROVE Served
    BY Zenon, <1>0, <2>2 DEF Send, QuietListener
  <2>3. ASSUME NEW c \in Conn, Finish(c) PROVE Served
    <3>1. /\ UNCHANGED <<proc, mainVars, handleVars, fdVars, listenVars, sockVars, sig, termVars>>
          /\ ~ServerOpen(c)
      BY Zenon, <2>3 DEF Finish
    <3>2. \A d \in Conn \ {c} : cst'[d] = cst[d]
      BY Zenon, <1>t, <2>3 DEF Finish
    <3> QED
      BY Zenon, <1>0, <1>t, <3>1, <3>2 DEF QuietListener, ServerOpen
  <2> QED
    BY Zenon, <2>1, <2>2, <2>3
<1>2. ASSUME NEW f, WriteOk(f) PROVE WriteOk(f)'
  <2>1. f \in Fd /\ fdt[f].kind = "cli" /\ cst[fdt[f].who] = "open" /\ fdt[f] \in Obj
    BY Zenon, <1>0, <1>2 DEF WriteOk, TypeOK
  <2>2. fdt[f].who \in Conn /\ ServerOpen(fdt[f].who)
    BY Zenon, <2>1, Objects DEF ServerOpen
  <2> QED
    BY Zenon, <1>1, <2>1, <2>2 DEF WriteOk
<1>3. QuietTable' /\ QuietListener'
  BY Zenon, <1>0, <1>1, <1>2 DEF QuietTable, QuietListener
<1>4. QuietControl'
  BY Zenon, <1>0, <1>1 DEF QuietControl
<1>5. QuietMain'
  BY Zenon, <1>0, <1>1, <1>2, QuietMainKept
<1> QED
  BY <1>3, <1>4, <1>5 DEF QuietInv

(* Every step.                                                                  *)
LEMMA NextQuietInv ==
  ASSUME ProcInv, QuietInv, [Next]_vars, Faults = {}, ~TermSent, MaxFd >= 3
  PROVE  QuietInv'
<1>0. QuietControl /\ QuietTable /\ QuietListener /\ QuietMain
  BY DEF QuietInv
<1>1. CASE SocketRemoved
  <2>1. /\ mon' = "done"
        /\ UNCHANGED <<proc, mainVars, handleVars, fdVars, listenVars, sig, termVars, cliVars>>
    BY Zenon, <1>0, <1>1 DEF SocketRemoved, QuietControl
  <2> USE DEF mainVars, handleVars, fdVars, listenVars, termVars, cliVars
  <2>2. QuietTable' /\ QuietListener'
    BY Zenon, <1>0, <2>1, WriteOkKept DEF QuietTable, QuietListener
  <2>3. QuietControl'
    BY Zenon, <1>0, <2>1 DEF QuietControl
  <2>m. QuietMain'
    BY Zenon, <1>0, <2>1, WriteOkKept, QuietMainKept
  <2> QED
    BY <2>m, <2>2, <2>3 DEF QuietInv
<1>2. CASE Rest \/ UNCHANGED vars
  <2>1. UNCHANGED vars
    BY <1>2 DEF Rest
  <2> USE DEF vars, mainVars, handleVars, fdVars, listenVars, sockVars, termVars, cliVars
  <2>2. QuietTable' /\ QuietListener'
    BY Zenon, <1>0, <2>1, WriteOkKept DEF QuietTable, QuietListener
  <2>3. QuietControl'
    BY Zenon, <1>0, <2>1 DEF QuietControl
  <2>m. QuietMain'
    BY Zenon, <1>0, <2>1, WriteOkKept, QuietMainKept
  <2> QED
    BY Zenon, <2>m, <2>2, <2>3 DEF QuietInv
<1> QED
  BY Zenon, <1>1, <1>2, QuietImpossible, QuietLoop, QuietRead, QuietHandle, QuietStatus, QuietListen,
     QuietClients DEF Next, Main

(* Without faults of the environment, whatever commands the clients send and    *)
(* however many of them there are, the process goes down only because one that  *)
(* may do so sent Terminate. The process is assumed to be able to open one      *)
(* descriptor, the enclave's, beside the two it starts with: Run fails and ends *)
(* it otherwise.                                                                *)
THEOREM ClientsAreSurvived == MaxFd >= 3 => (Spec => []SurvivesClients)
<1> SUFFICES ASSUME MaxFd >= 3 PROVE Spec => []SurvivesClients
  OBVIOUS
<1> DEFINE Quiet == IdleInv /\ (Faults = {} /\ ~TermSent => QuietInv)
<1>1. Init => Quiet
  <2> SUFFICES ASSUME Init PROVE Quiet
    OBVIOUS
  <2>1. IdleInv
    BY Zenon DEF Init, IdleInv
  <2>2. QuietControl
    BY Zenon DEF Init, QuietControl
  <2>3. /\ 1 \in Fd /\ 2 \in Fd /\ Launcher \in Conn
        /\ \A f \in Fd : f > 2 => f # 1 /\ f # 2
    BY ProcAssumption DEF Fd, Conn
  <2>4. /\ fdt[1] = Stream(Launcher) /\ fdt[2] = SigObj /\ \A f \in Fd \ {1, 2} : fdt[f] = Free
        /\ cst[Launcher] = "open"
    BY <2>3 DEF Init
  <2>5. WriteOk(1) /\ fdt[1].who = Launcher
    BY Zenon, <2>3, <2>4, Kinds DEF WriteOk
  <2>6. QuietTable
    <3>1. SigObj.kind = "sig"
      BY DEF SigObj
    <3> QED
      BY Zenon, <2>3, <2>4, <2>5, <3>1, Kinds, Objects DEF QuietTable, Init
  <2>7. QuietListener /\ QuietMain
    BY <2>5 DEF Init, QuietListener, QuietMain, AtConn
  <2> QED
    BY Zenon, <2>1, <2>2, <2>6, <2>7 DEF QuietInv
<1>2. ProcInv /\ Quiet /\ [Next]_vars => Quiet'
  <2> SUFFICES ASSUME ProcInv, Quiet, [Next]_vars PROVE Quiet'
    OBVIOUS
  <2>1. IdleInv' /\ (TermSent => TermSent')
    BY Zenon, NextIdleInv DEF ProcInv
  <2> QED
    BY Zenon, <2>1, NextQuietInv
<1>3. Quiet => SurvivesClients
  BY Zenon DEF QuietInv, QuietControl, TermSent, SurvivesClients
<1> QED
  BY <1>1, <1>2, <1>3, AlwaysProcInv, PTL DEF Spec

--------------------------------------------------------------------------------
(* Refinement *)

(* The process ends: every descriptor is closed, nobody is told anything.       *)
Exits == proc = "up" /\ proc' # "up" /\ ReleaseAll /\ UNCHANGED <<enclave, got>>

(* The abstract counterpart of each kind of step.                               *)
LEMMA CalmImplements ==
  ASSUME Calm, proc = "up", proc' = proc
  PROVE  Lifecycle!Stop \/ UNCHANGED <<Life, Told, Gone>>
<1>1. Gone' = Gone /\ Told' = Told /\ ~Gone
  BY Zenon DEF Calm, Gone
<1>2. Released => Released'
  BY Zenon DEF Calm, Released
<1>3. Life' = Life \/ (Life = "running" /\ Life' = "stopped")
  BY Zenon, <1>2 DEF Life, Calm, Released
<1> QED
  BY <1>1, <1>3 DEF Lifecycle!Stop

(* A step that ends the process is the abstract Exit: the kernel closes the     *)
(* enclave descriptor with the others.                                          *)
LEMMA ExitImplements ==
  ASSUME Exits
  PROVE  Lifecycle!Exit
<1>1. ~Gone /\ Gone' = TRUE /\ Told' = Told
  BY DEF Exits, Gone, Told
<1>2. \A f \in Fd : fdt'[f] # EnclaveObj
  BY Zenon, Objects DEF Exits, ReleaseAll
<1>3. Life' = IF Life = "none" THEN "none" ELSE "stopped"
  BY Zenon, <1>2 DEF Exits, Life, Released
<1> QED
  BY <1>1, <1>3 DEF Lifecycle!Exit

(* A step leaves the process in its state, or is its exit.                      *)
LEMMA KeepsOrExits ==
  ASSUME [Next]_vars
  PROVE  proc' = proc \/ Exits
<1> USE DEF AtMain, AtListener, AtThread
<1>1. ASSUME proc = "up", Kill PROVE Exits
  BY <1>1 DEF Exits, Kill, handleVars
<1>2. ASSUME HandleCommStream \/ GetEnclaveDescriptor \/ EpollWait \/ TakeEvent \/ RegisterEnclaveDescriptor
      PROVE  proc' = proc
  BY <1>2, Zenon DEF HandleCommStream, GetEnclaveDescriptor, EpollWait, TakeEvent, RegisterEnclaveDescriptor, mainVars
<1>3. ASSUME Internal \/ ConnectSelf \/ SendStop \/ NoListener \/ JoinListener \/ JoinTerminate
      PROVE  proc' = proc
  BY Zenon, <1>3 DEF Internal, ConnectSelf, SendStop, NoListener, JoinListener, JoinTerminate, mainVars
<1>4. ASSUME DropManager \/ DropSocket \/ Listener \/ HandleSignal \/ EnclaveHangsUp PROVE proc' = proc
  BY Zenon, <1>4 DEF DropManager, DropSocket, Listener, Accept, HandleNewConnection, CloseListener, HandleSignal,
              EnclaveHangsUp, mainVars
<1>5. ASSUME ReadCommand \/ Run \/ StartListener \/ Terminate, ~Kill PROVE proc' = proc
  BY <1>5, Zenon DEF ReadCommand, Run, StartListener, Terminate, mainVars
<1>6. ASSUME Query \/ StopFails \/ WriteStatus \/ SocketRemoved, ~Kill PROVE proc' = proc
  BY <1>6, Zenon DEF Query, StopFails, WriteStatus, SocketRemoved, mainVars
<1>7. ASSUME ReadCommand \/ Run \/ StartListener \/ Terminate \/ Query \/ StopFails \/ WriteStatus \/ SocketRemoved
      PROVE  proc = "up"
  BY <1>7, Zenon DEF ReadCommand, Run, StartListener, Terminate, Query, StopFails, WriteStatus, SocketRemoved
<1>8. ASSUME ReturnAndExit PROVE Exits
  BY <1>8 DEF ReturnAndExit, Exits, handleVars
<1>9. ASSUME NEW c \in Conn, TerminateThread(c) PROVE proc' = proc \/ Exits
  <2>1. proc = "up"
    BY ZenonT(30), <1>9 DEF TerminateThread, GetTerminationResources, ReleaseEnclaveDescriptor, ClearHandle,
                ReportTermination, SendTerminateComplete, EndThread
  <2>2. CASE ~Kill
    BY ZenonT(30), <1>9, <2>2 DEF TerminateThread, GetTerminationResources, ReleaseEnclaveDescriptor, ClearHandle,
                      ReportTermination, SendTerminateComplete, EndThread, mainVars
  <2> QED
    BY <1>1, <2>1, <2>2
<1>10. ASSUME NEW c \in Conn, Connect(c) \/ Send(c) \/ Finish(c) \/ Die(c) PROVE proc' = proc
  BY Zenon, <1>10 DEF Connect, Send, Finish, Die, mainVars
<1>11. ASSUME SocketDeleted \/ Rest \/ UNCHANGED vars PROVE proc' = proc
  BY Zenon, <1>11 DEF SocketDeleted, Rest, vars, mainVars
<1> QED
  BY Zenon, <1>1, <1>2, <1>3, <1>4, <1>5, <1>6, <1>7, <1>8, <1>9, <1>10, <1>11 DEF Next, Main, Conn

(* Once the process has ended only its clients and its file move.               *)
LEMMA DeadIsStill ==
  ASSUME [Next]_vars, proc # "up"
  PROVE  UNCHANGED <<proc, enclave, fdt, got>>
<1> USE DEF AtMain, AtListener, AtThread
<1>1. ~Main
  BY Zenon DEF Main, HandleCommStream, GetEnclaveDescriptor, EpollWait, TakeEvent, ReadCommand, Run,
         StartListener, RegisterEnclaveDescriptor, Terminate, Query, Internal, ConnectSelf, SendStop,
         NoListener, StopFails, JoinListener, JoinTerminate, WriteStatus, DropManager, DropSocket,
         ReturnAndExit
<1>2. ~(Listener \/ SocketRemoved \/ HandleSignal \/ EnclaveHangsUp)
  BY Zenon DEF Listener, Accept, HandleNewConnection, CloseListener, SocketRemoved, HandleSignal, EnclaveHangsUp
<1>3. \A c \in Conn : ~TerminateThread(c)
  BY ZenonT(30) DEF TerminateThread, GetTerminationResources, ReleaseEnclaveDescriptor, ClearHandle,
         ReportTermination, SendTerminateComplete, EndThread
<1>4. ASSUME NEW c \in Conn, Connect(c) \/ Send(c) \/ Finish(c) \/ Die(c)
      PROVE  UNCHANGED <<proc, enclave, fdt, got>>
  BY Zenon, <1>4 DEF Connect, Send, Finish, Die, mainVars, handleVars, fdVars
<1>5. ASSUME SocketDeleted \/ Rest \/ UNCHANGED vars PROVE UNCHANGED <<proc, enclave, fdt, got>>
  BY Zenon, <1>5 DEF SocketDeleted, Rest, vars, mainVars, handleVars, fdVars
<1> QED
  BY Zenon, <1>1, <1>2, <1>3, <1>4, <1>5 DEF Next, Conn

(* A Run command that succeeds is the abstract Boot.                            *)
LEMMA BootImplements ==
  ASSUME ProcInv, Run, ~Kill, enclave' # "none"
  PROVE  Lifecycle!Boot
<1>0. TypeOK /\ BootInv
  BY DEF ProcInv
<1>1. proc = "up" /\ mpc = "handle" /\ mCmd = "Run"
  BY Zenon DEF Run, AtMain
<1>2. enclave = "none"
  BY Zenon, <1>0, <1>1 DEF BootInv
<1>3. Told' = Told
  BY <1>0, TellTold, Zenon DEF Run
<1>4. proc' = "up" /\ enclave' = "running" /\ \E f \in Fd : fdt' = [fdt EXCEPT ![f] = EnclaveObj]
  BY <1>1, <1>2, Zenon DEF Run, handleVars
<1>5. \E f \in Fd : fdt'[f] = EnclaveObj
  BY Zenon, <1>0, <1>4 DEF TypeOK
<1>6. Life = "none" /\ Life' = "running"
  BY <1>2, <1>4, <1>5 DEF Life, Released
<1> QED
  BY <1>1, <1>3, <1>4, <1>6 DEF Lifecycle!Boot, Gone

(* The report of a terminate thread is the abstract Confirm.                    *)
LEMMA ConfirmImplements ==
  ASSUME ProcInv, NEW c \in Conn, ReportTermination(c), tpc[c] = "reply", ~Kill
  PROVE  \E d \in Conn : Lifecycle!Confirm(d)
<1>0. TypeOK /\ TermInv
  BY DEF ProcInv
<1> DEFINE d == fdt[tConn[c]].who
<1>1. UNCHANGED <<proc, enclave, fdt>> /\ proc = "up"
  BY ZenonT(30) DEF ReportTermination, AtThread, handleVars, fdVars, mainVars
<1>2. d \in Conn /\ Tell(tConn[c], {"terminated"})
  BY Zenon, <1>0, Objects DEF ReportTermination, WriteOk, TypeOK
<1>3. Told' = Told \cup {d}
  BY Zenon, <1>0, <1>2 DEF Tell, Told, TypeOK
<1>4. Life = "stopped" /\ Life' = Life
  BY Zenon, <1>0, <1>1 DEF TermInv, Life, Released
<1> QED
  BY Zenon, <1>1, <1>2, <1>3, <1>4 DEF Lifecycle!Confirm, Gone

(* Every step of the process is a step of the lifecycle, or none.               *)
LEMMA NextImplements ==
  ASSUME ProcInv, [Next]_vars
  PROVE  [Lifecycle!Next]_<<Life, Told, Gone>>
<1>1. CASE proc # "up"
  <2>1. UNCHANGED <<proc, enclave, fdt, got>>
    BY <1>1, DeadIsStill
  <2> QED
    BY Zenon, <2>1 DEF Life, Told, Gone, Released
<1>2. CASE Exits
  BY <1>2, ExitImplements DEF Lifecycle!Next
<1>3. CASE proc = "up" /\ proc' = proc
  <2>1. CASE Calm
    BY <1>3, <2>1, CalmImplements DEF Lifecycle!Next
  <2>2. CASE ~Calm
    BY <2>2, NextCalm, BootImplements, ConfirmImplements DEF Lifecycle!Next
  <2> QED
    BY <2>1, <2>2
<1> QED
  BY <1>1, <1>2, <1>3, KeepsOrExits

(* The enclave process implements its lifecycle: one boot, one final stop,      *)
(* termination records only after it, and no enclave outlives the process.      *)
THEOREM ProcessImplementsLifecycle == Spec => ImplementsLifecycle
<1>1. Init => Lifecycle!Init
  <2> SUFFICES ASSUME Init PROVE Lifecycle!Init
    OBVIOUS
  <2>1. Told = {}
    BY Zenon DEF Init, Told
  <2> QED
    BY Zenon, <2>1 DEF Init, Lifecycle!Init, Life, Gone
<1>2. ProcInv /\ [Next]_vars => [Lifecycle!Next]_(Lifecycle!lifecycleVars)
  BY NextImplements DEF Lifecycle!lifecycleVars
<1> QED
  BY <1>1, <1>2, AlwaysProcInv, PTL DEF Spec, ImplementsLifecycle, Lifecycle!Spec

================================================================================
