--------------------------- MODULE EnclaveStopProofs ---------------------------
(***************************************************************************)
(* Who has which descriptor while EnclaveProc serves or waits for its      *)
(* listener; so the connection that stop() makes reaches the listener, for *)
(* any set of clients of which one may terminate the enclave, any commands *)
(* they may send, any number of descriptors and any faults.                *)
(***************************************************************************)
EXTENDS EnclaveProcProofs

--------------------------------------------------------------------------------
(* The listener hears stop() *)

(* The process serves, or waits for its listener: no destructor has run.        *)
Serving ==
  /\ proc = "up" /\ mpc \notin {"joinT", "drop", "dropSock", "joinM"}
  /\ mpc = "status" => ~mDone

(* The main thread has a connection in its hands.                               *)
Inner == {"TerminateComplete", "ConnectionListenerStop"}
Holds == mpc = "read" \/ (mpc \in AtConn /\ mCmd \notin Inner)

(* A terminate thread that has a clone of the connection.                       *)
Active == ThreadPc \ {"none", "done"}

(* A client connects once: its stream is in one place, the backlog or the table. *)
StreamInv ==
  /\ \A f, g \in Fd, c \in Conn : fdt[f] = Stream(c) /\ fdt[g] = Stream(c) => f = g
  /\ \A i, j \in DOMAIN backlog : backlog[i] \in Client /\ backlog[i] = backlog[j] => i = j
  /\ \A i \in DOMAIN backlog : backlog[i] \in Client => cst[backlog[i]] # "idle"
  /\ \A i \in DOMAIN backlog, f \in Fd : backlog[i] \in Client => fdt[f] # Stream(backlog[i])
  /\ \A f \in Fd, c \in Client : fdt[f] = Stream(c) => cst[c] # "idle"

(* A terminate thread works for an owner and has the stream of that client, and *)
(* the number it is going to close is the enclave's.                            *)
ThreadInv ==
  /\ \A c \in Conn : tpc[c] # "none" => c \in Owner /\ cst[c] # "idle"
  /\ \A c \in Conn, i \in DOMAIN backlog : tpc[c] # "none" => backlog[i] # c
  /\ \A c \in Conn : tpc[c] \in Active => tConn[c] \in Fd /\ fdt[tConn[c]] = Stream(c)
  /\ \A c \in Conn : tpc[c] = "close" /\ tFd[c] # NoFd => fdt[tFd[c]] = EnclaveObj
  /\ encFd # NoFd /\ (\A c \in Conn : tpc[c] \in {"none", "get", "close"}) => fdt[encFd] = EnclaveObj

(* Nobody else has the stream of such a client, but for the main thread while   *)
(* it handles the Terminate.                                                    *)
TakenInv ==
  \A c \in Conn, f \in Fd : tpc[c] # "none" /\ fdt[f] = Stream(c) =>
    /\ f \notin epoll /\ (lpc = "recv" => f # lFd)
    /\ mpc \in {"read", "handle"} => f # mFd
    /\ mpc = "status" /\ mFd = f => mCmd = "Terminate"

(* The listener reads from a stream of its own, and epoll has open descriptors. *)
ListenInv ==
  /\ lpc = "recv" => lFd \notin epoll /\ \E x \in Client \cup {Self} : fdt[lFd] = Stream(x)
  /\ \A f \in epoll : fdt[f] # Free

(* The main thread has a connection of its own, and does not take the enclave's *)
(* descriptor for one.                                                          *)
HeldInv ==
  /\ mpc = "start" => fdt[1] = Stream(Launcher) /\ lpc = "none"
  /\ mpc \in {"wait", "del"} => \A f \in Fd : fdt[f] = EnclaveObj => f = mEnc
  /\ mpc = "read" => fdt[mFd] \notin {Free, EnclaveObj}
  /\ mpc \in AtConn /\ mCmd \notin Inner => mWho \in Conn /\ mFd \in Fd /\ fdt[mFd] = Stream(mWho)
  /\ Holds => mFd \notin epoll /\ (lpc = "recv" => lFd # mFd)
  /\ mpc = "handle" /\ mCmd = "Terminate" => mWho \in Owner
  /\ mpc \in {"listen", "register", "status"} => mCmd \notin Inner

(* The connection that stop() has made is on its way.                           *)
StopInv ==
  mpc \in {"sendStop", "joinL"} =>
     \/ lpc \in {"close", "done"}
     \/ \E i \in DOMAIN backlog : backlog[i] = Self
     \/ lpc = "recv" /\ fdt[lFd] = Stream(Self)

HoldInv == StreamInv /\ ThreadInv /\ TakenInv /\ ListenInv /\ HeldInv /\ StopInv

(* No client goes back to the time before it connected, and no stream appears.  *)
SameClients == \A c \in Conn : cst'[c] = "idle" => cst[c] = "idle"
FewerStreams == \A f \in Fd, c \in Conn : fdt'[f] = Stream(c) => fdt[f] = Stream(c)

(* The streams stay in their places when none appears.                          *)
LEMMA StreamKept ==
  ASSUME StreamInv, UNCHANGED backlog, FewerStreams, SameClients
  PROVE  StreamInv'
<1>0. Client \subseteq Conn
  BY DEF Conn
<1>1. \A f, g \in Fd, c \in Conn : fdt'[f] = Stream(c) /\ fdt'[g] = Stream(c) => f = g
  BY Zenon DEF StreamInv, FewerStreams
<1>2. \A i, j \in DOMAIN backlog : backlog[i] \in Client /\ backlog[i] = backlog[j] => i = j
  BY Zenon DEF StreamInv
<1>3. \A i \in DOMAIN backlog : backlog[i] \in Client => cst'[backlog[i]] # "idle"
  BY Zenon, <1>0 DEF StreamInv, SameClients
<1>4. \A i \in DOMAIN backlog, f \in Fd : backlog[i] \in Client => fdt'[f] # Stream(backlog[i])
  BY Zenon, <1>0 DEF StreamInv, FewerStreams
<1>5. \A f \in Fd, c \in Client : fdt'[f] = Stream(c) => cst'[c] # "idle"
  BY Zenon, <1>0 DEF StreamInv, FewerStreams, SameClients
<1> QED
  BY Zenon, <1>1, <1>2, <1>3, <1>4, <1>5 DEF StreamInv

(* What the threads have stays theirs when it is not closed.                    *)
LEMMA ThreadKept ==
  ASSUME TypeOK, ThreadInv, UNCHANGED <<tpc, tFd, tConn, encFd, backlog>>, SameClients,
         \A f \in Fd : fdt[f] = EnclaveObj => fdt'[f] = EnclaveObj,
         \A f \in Fd, c \in Conn : tpc[c] \in Active /\ fdt[f] = Stream(c) => fdt'[f] = Stream(c)
  PROVE  ThreadInv'
<1>0. encFd \in Fd \cup {NoFd} /\ \A c \in Conn : tFd[c] \in Fd \cup {NoFd}
  BY Zenon DEF TypeOK
<1> QED
  BY Zenon, <1>0 DEF ThreadInv, SameClients

(* Nobody takes up the stream of a terminated client.                           *)
LEMMA TakenKept ==
  ASSUME TakenInv, FewerStreams, \A c \in Conn : tpc'[c] # "none" => tpc[c] # "none",
         \A f \in epoll' \ epoll, c \in Conn : fdt[f] = Stream(c) => tpc[c] = "none",
         lpc' = "recv" => lpc = "recv" /\ lFd' = lFd,
         mpc' \in {"read", "handle", "status"} => UNCHANGED <<mpc, mFd, mCmd>>
  PROVE  TakenInv'
<1> SUFFICES ASSUME NEW c \in Conn, NEW f \in Fd, tpc'[c] # "none", fdt'[f] = Stream(c)
    PROVE  /\ f \notin epoll' /\ (lpc' = "recv" => f # lFd')
           /\ mpc' \in {"read", "handle"} => f # mFd'
           /\ mpc' = "status" /\ mFd' = f => mCmd' = "Terminate"
  BY Zenon DEF TakenInv
<1>1. tpc[c] # "none" /\ fdt[f] = Stream(c)
  BY Zenon DEF FewerStreams
<1>2. /\ f \notin epoll /\ (lpc = "recv" => f # lFd)
      /\ mpc \in {"read", "handle"} => f # mFd
      /\ mpc = "status" /\ mFd = f => mCmd = "Terminate"
  BY Zenon, <1>1 DEF TakenInv
<1> QED
  BY Zenon, <1>1, <1>2

(* The listener keeps its stream when it is not closed.                         *)
LEMMA ListenKept ==
  ASSUME ListenInv, epoll' \subseteq epoll, \A f \in epoll' : fdt'[f] = fdt[f],
         lpc' = "recv" => lpc = "recv" /\ lFd' = lFd /\ fdt'[lFd] = fdt[lFd]
  PROVE  ListenInv'
  BY Zenon DEF ListenInv

(* The main thread keeps its connection when it is not closed.                  *)
LEMMA HeldKept ==
  ASSUME HeldInv, UNCHANGED <<mpc, mEnc, mFd, mWho, mCmd>>,
         mpc = "start" => fdt'[1] = fdt[1] /\ lpc' = lpc,
         \A f \in Fd : fdt'[f] = EnclaveObj => fdt[f] = EnclaveObj,
         Holds => fdt'[mFd] = fdt[mFd] /\ (mFd \in epoll' => mFd \in epoll),
         Holds /\ lpc' = "recv" => (lpc = "recv" /\ lFd' = lFd) \/ lFd' # mFd
  PROVE  HeldInv'
<1>1. Holds' <=> Holds
  BY Zenon DEF Holds
<1>2. /\ mpc = "start" => fdt'[1] = Stream(Launcher) /\ lpc' = "none"
      /\ mpc \in {"wait", "del"} => \A f \in Fd : fdt'[f] = EnclaveObj => f = mEnc
      /\ mpc = "read" => fdt'[mFd] \notin {Free, EnclaveObj}
  BY Zenon DEF HeldInv, Holds
<1>3. mpc \in AtConn /\ mCmd \notin Inner => mWho \in Conn /\ mFd \in Fd /\ fdt'[mFd] = Stream(mWho)
  BY Zenon DEF HeldInv, Holds
<1>4. Holds => mFd \notin epoll' /\ (lpc' = "recv" => lFd' # mFd)
  BY Zenon DEF HeldInv
<1>5. /\ mpc = "handle" /\ mCmd = "Terminate" => mWho \in Owner
      /\ mpc \in {"listen", "register", "status"} => mCmd \notin Inner
  BY Zenon DEF HeldInv
<1> QED
  BY Zenon, <1>1, <1>2, <1>3, <1>4, <1>5 DEF HeldInv

(* The connection of stop() stays where it is.                                  *)
LEMMA StopKept ==
  ASSUME StopInv, UNCHANGED backlog, mpc' \in {"sendStop", "joinL"} => mpc \in {"sendStop", "joinL"},
         lpc \in {"close", "done"} => lpc' \in {"close", "done"},
         lpc = "recv" /\ fdt[lFd] = Stream(Self) => lpc' = "recv" /\ lFd' = lFd /\ fdt'[lFd] = fdt[lFd]
  PROVE  StopInv'
  BY Zenon DEF StopInv

(* A step that touches neither the descriptors nor who has them.                *)
LEMMA UndisturbedHold ==
  ASSUME TypeOK, HoldInv, SameClients,
         UNCHANGED <<mpc, mEnc, mFd, mWho, mCmd, encFd, fdt, epoll, lpc, lFd, backlog, tpc, tFd, tConn>>
  PROVE  HoldInv'
<1>0. FewerStreams
  BY Zenon DEF FewerStreams
<1>1. StreamInv'
  BY Zenon, <1>0, StreamKept DEF HoldInv
<1>2. ThreadInv'
  BY Zenon, ThreadKept DEF HoldInv
<1>3. TakenInv'
  BY Zenon, <1>0, TakenKept DEF HoldInv
<1>4. ListenInv'
  BY Zenon, ListenKept DEF HoldInv
<1>5. HeldInv'
  BY Zenon, HeldKept DEF HoldInv
<1>6. StopInv'
  BY Zenon, StopKept DEF HoldInv
<1> QED
  BY Zenon, <1>1, <1>2, <1>3, <1>4, <1>5, <1>6 DEF HoldInv

(* A terminate thread closes a descriptor, if any, that is neither the          *)
(* listener's nor the main thread's.                                            *)
LEMMA ThreadStepHold ==
  ASSUME TypeOK, HoldInv, NEW z,
         UNCHANGED <<mpc, mEnc, mFd, mWho, mCmd, lpc, lFd, backlog, cst>>,
         \A f \in Fd \ {z} : fdt'[f] = fdt[f], \A f \in Fd : fdt'[f] \in {fdt[f], Free},
         epoll' \subseteq epoll, fdt' = fdt \/ z \notin epoll',
         \A c \in Conn : tpc'[c] # "none" => tpc[c] # "none",
         lFd \in Fd \ {z} \/ fdt' = fdt \/ lpc # "recv",
         mFd \in Fd \ {z} \/ fdt' = fdt \/ ~Holds,
         1 \in Fd \ {z} \/ fdt' = fdt \/ mpc # "start"
  PROVE  StreamInv' /\ TakenInv' /\ ListenInv' /\ HeldInv' /\ StopInv'
<1>0. FewerStreams /\ SameClients /\ \A f \in Fd : fdt'[f] = EnclaveObj => fdt[f] = EnclaveObj
  BY Zenon, Objects DEF FewerStreams, SameClients
<1>1. lpc = "recv" => fdt'[lFd] = fdt[lFd]
  BY Zenon
<1>2. Holds => fdt'[mFd] = fdt[mFd]
  BY Zenon
<1>3. mpc = "start" => fdt'[1] = fdt[1]
  BY Zenon
<1>4. \A f \in epoll' : fdt'[f] = fdt[f]
  BY Zenon DEF TypeOK
<1>5. StreamInv'
  BY Zenon, <1>0, StreamKept DEF HoldInv
<1>6. TakenInv'
  BY Zenon, <1>0, TakenKept DEF HoldInv
<1>7. ListenInv'
  BY Zenon, <1>1, <1>4, ListenKept DEF HoldInv
<1>8. HeldInv'
  BY Zenon, <1>0, <1>2, <1>3, HeldKept DEF HoldInv
<1>9. StopInv'
  BY Zenon, <1>1, StopKept DEF HoldInv
<1> QED
  BY Zenon, <1>5, <1>6, <1>7, <1>8, <1>9

(* With one owner there is one terminate thread.                                *)
OneOwner == \A c, d \in Owner : c = d

(* A terminate thread closes the enclave's descriptor and its own connection.   *)
LEMMA ThreadHold ==
  ASSUME ProcInv, HoldInv, Serving, Serving', OneOwner, NEW c \in Conn, TerminateThread(c)
  PROVE  HoldInv'
<1>0. /\ TypeOK /\ FdInv /\ BootInv /\ TermInv
      /\ StreamInv /\ ThreadInv /\ TakenInv /\ ListenInv /\ HeldInv /\ StopInv
  BY Zenon DEF ProcInv, HoldInv
<1>1. tpc[c] \in Active /\ tpc[c] \in ThreadPc /\ tpc[c] # "none" /\ c \in Owner
  <2>1. tpc[c] \in {"get", "close", "clear", "reply", "fail", "send", "sent"}
    BY Zenon DEF TerminateThread, GetTerminationResources, ReleaseEnclaveDescriptor, ClearHandle,
                 ReportTermination, SendTerminateComplete, EndThread, AtThread
  <2>2. tpc[c] \in ThreadPc /\ tpc[c] # "none" /\ tpc[c] # "done"
    BY Zenon, <2>1, <1>0 DEF TypeOK
  <2> QED
    BY Zenon, <1>0, <2>2 DEF Active, ThreadInv
<1>2. \A d \in Conn : d # c => tpc[d] = "none"
  BY Zenon, <1>0, <1>1 DEF ThreadInv, OneOwner
<1>3. ~Kill
  BY Zenon DEF Serving, Kill
<1> USE DEF AtThread, Goto, mainVars, handleVars, fdVars, listenVars, termVars, cliVars
<1>4. /\ UNCHANGED <<mpc, mEnc, mFd, mWho, mCmd, lpc, lFd, backlog, cst>>
      /\ \E pc \in ThreadPc \ {"none"} : tpc' = [tpc EXCEPT ![c] = pc]
  <2>1. CASE GetTerminationResources(c)
    BY Zenon, <2>1 DEF GetTerminationResources, ThreadPc
  <2>2. CASE ReleaseEnclaveDescriptor(c)
    BY Zenon, <2>2 DEF ReleaseEnclaveDescriptor, ThreadPc
  <2>3. CASE ClearHandle(c)
    BY Zenon, <2>3 DEF ClearHandle, ThreadPc
  <2>4. CASE ReportTermination(c)
    BY Zenon, <1>3, <2>4 DEF ReportTermination, ThreadPc
  <2>5. CASE SendTerminateComplete(c)
    BY Zenon, <1>3, <2>5 DEF SendTerminateComplete, ThreadPc
  <2>6. CASE EndThread(c)
    BY Zenon, <1>3, <2>6 DEF EndThread, ThreadPc
  <2> QED
    BY Zenon, <2>1, <2>2, <2>3, <2>4, <2>5, <2>6 DEF TerminateThread
<1>5. tpc'[c] # "none" /\ \A d \in Conn : d # c => tpc'[d] = "none"
  <2>1. tpc \in [Conn -> ThreadPc]
    BY Zenon, <1>0 DEF TypeOK
  <2> QED
    BY Zenon, <1>2, <1>4, <2>1
<1>6. \A d \in Conn : tpc'[d] # "none" => tpc[d] # "none" /\ d = c
  BY Zenon, <1>1, <1>5
<1>7. ASSUME UNCHANGED <<fdt, epoll>> PROVE StreamInv' /\ TakenInv' /\ ListenInv' /\ HeldInv' /\ StopInv'
  BY Zenon, <1>0, <1>4, <1>6, <1>7, ThreadStepHold
<1>8. ASSUME tpc'[c] \in Active => tConn'[c] \in Fd /\ fdt'[tConn'[c]] = Stream(c),
             tpc'[c] = "close" /\ tFd'[c] # NoFd => fdt'[tFd'[c]] = EnclaveObj,
             encFd' # NoFd /\ tpc'[c] \in {"none", "get", "close"} => fdt'[encFd'] = EnclaveObj
      PROVE  ThreadInv'
  <2>1. \A d \in Conn : tpc'[d] # "none" => d \in Owner /\ cst'[d] # "idle"
    BY Zenon, <1>0, <1>4, <1>6 DEF ThreadInv
  <2>2. \A d \in Conn, i \in DOMAIN backlog' : tpc'[d] # "none" => backlog'[i] # d
    BY Zenon, <1>0, <1>4, <1>6 DEF ThreadInv
  <2>3. \A d \in Conn : tpc'[d] \in Active => tConn'[d] \in Fd /\ fdt'[tConn'[d]] = Stream(d)
    BY Zenon, <1>6, <1>8 DEF Active
  <2>4. \A d \in Conn : tpc'[d] = "close" /\ tFd'[d] # NoFd => fdt'[tFd'[d]] = EnclaveObj
    BY Zenon, <1>5, <1>8
  <2>5. encFd' # NoFd /\ (\A d \in Conn : tpc'[d] \in {"none", "get", "close"}) => fdt'[encFd'] = EnclaveObj
    BY Zenon, <1>8
  <2> QED
    BY Zenon, <2>1, <2>2, <2>3, <2>4, <2>5 DEF ThreadInv
<1>9. tConn[c] \in Fd /\ fdt[tConn[c]] = Stream(c)
  BY Zenon, <1>0, <1>1 DEF ThreadInv
<1>a. tpc \in [Conn -> ThreadPc] /\ tFd \in [Conn -> Fd \cup {NoFd}] /\ fdt \in [Fd -> Obj]
      /\ encFd \in Fd \cup {NoFd} /\ tFd[c] \in Fd \cup {NoFd} /\ epoll \subseteq Fd
  BY Zenon, <1>0 DEF TypeOK
<1>10. CASE GetTerminationResources(c)
  <2>1. /\ tpc[c] = "get" /\ tpc'[c] = "close" /\ tFd'[c] = encFd /\ UNCHANGED <<encFd, fdt, epoll, tConn>>
    BY Zenon, <1>a, <1>10 DEF GetTerminationResources
  <2>2. encFd # NoFd => fdt[encFd] = EnclaveObj
    BY Zenon, <1>0, <1>2, <2>1 DEF ThreadInv
  <2>3. ThreadInv'
    BY Zenon, <1>8, <1>9, <2>1, <2>2
  <2> QED
    BY Zenon, <1>7, <2>1, <2>3 DEF HoldInv
<1>11. CASE ReleaseEnclaveDescriptor(c)
  <2>1. tpc[c] = "close" /\ tpc'[c] \in {"clear", "fail"} /\ UNCHANGED <<encFd, tConn>>
    BY Zenon, <1>a, <1>11 DEF ReleaseEnclaveDescriptor
  <2>2. CASE UNCHANGED <<fdt, epoll>>
    <3>1. ThreadInv'
      BY Zenon, <1>8, <1>9, <2>1, <2>2
    <3> QED
      BY Zenon, <1>7, <2>2, <3>1 DEF HoldInv
  <2>3. CASE tFd[c] # NoFd /\ CloseFd(tFd[c])
    <3> DEFINE z == tFd[c]
    <3>1. z \in Fd /\ fdt[z] = EnclaveObj /\ epoll' = epoll \ {z}
      BY Zenon, <1>0, <1>a, <2>1, <2>3 DEF ThreadInv, CloseFd
    <3>2. fdt'[z] = Free /\ \A f \in Fd \ {z} : fdt'[f] = fdt[f]
      BY Zenon, <1>a, <2>3, <3>1 DEF CloseFd
    <3> HIDE DEF z
    <3>3. ASSUME NEW f \in Fd, NEW d \in Conn \cup {Self}, fdt[f] = Stream(d) PROVE f # z
      BY Zenon, <3>1, <3>3, Objects
    <3>4. lpc = "recv" => lFd \in Fd \ {z}
      BY Zenon, <1>0, <3>3 DEF ListenInv, FdInv, Conn
    <3>5. Holds => mFd \in Fd \ {z}
      <4>1. mpc = "read" => mFd \in Fd /\ fdt[mFd] # EnclaveObj
        BY Zenon, <1>0 DEF HeldInv, FdInv
      <4>2. mpc \in AtConn /\ mCmd \notin Inner => mFd \in Fd \ {z}
        BY Zenon, <1>0, <3>3 DEF HeldInv
      <4> QED
        BY Zenon, <3>1, <4>1, <4>2 DEF Holds
    <3>6. mpc = "start" => 1 \in Fd \ {z}
      <4>1. 1 \in Fd /\ Launcher \in Conn
        BY ProcAssumption DEF Fd, Conn
      <4> QED
        BY Zenon, <1>0, <3>3, <4>1 DEF HeldInv
    <3>7. StreamInv' /\ TakenInv' /\ ListenInv' /\ HeldInv' /\ StopInv'
      <4>1. (\A f \in Fd : fdt'[f] \in {fdt[f], Free}) /\ epoll' \subseteq epoll /\ z \notin epoll'
        BY Zenon, <3>1, <3>2
      <4>2. lFd \in Fd \ {z} \/ fdt' = fdt \/ lpc # "recv"
        BY Zenon, <3>4
      <4>3. mFd \in Fd \ {z} \/ fdt' = fdt \/ ~Holds
        BY Zenon, <3>5
      <4>4. 1 \in Fd \ {z} \/ fdt' = fdt \/ mpc # "start"
        BY Zenon, <3>6
      <4>5. \A d \in Conn : tpc'[d] # "none" => tpc[d] # "none"
        BY Zenon, <1>6
      <4> QED
        BY Zenon, <1>0, <1>4, <3>2, <4>1, <4>2, <4>3, <4>4, <4>5, ThreadStepHold
    <3>8. tConn[c] # z
      BY Zenon, <1>9, <3>3
    <3>9. ThreadInv'
      BY Zenon, <1>8, <1>9, <2>1, <3>2, <3>8
    <3> QED
      BY Zenon, <3>7, <3>9 DEF HoldInv
  <2> QED
    BY Zenon, <1>11, <2>2, <2>3 DEF ReleaseEnclaveDescriptor
<1>12. CASE ClearHandle(c)
  <2>1. tpc'[c] = "reply" /\ UNCHANGED <<fdt, epoll, tConn>> 
    BY Zenon, <1>a, <1>12 DEF ClearHandle
  <2>2. ThreadInv'
    BY Zenon, <1>8, <1>9, <2>1
  <2> QED
    BY Zenon, <1>7, <2>1, <2>2 DEF HoldInv
<1>13. CASE ReportTermination(c) \/ SendTerminateComplete(c)
  <2>1. tpc'[c] \in {"send", "sent"} /\ UNCHANGED <<fdt, epoll, tConn>> 
    BY Zenon, <1>a, <1>3, <1>13 DEF ReportTermination, SendTerminateComplete
  <2>2. ThreadInv'
    BY Zenon, <1>8, <1>9, <2>1
  <2> QED
    BY Zenon, <1>7, <2>1, <2>2 DEF HoldInv
<1>14. CASE EndThread(c)
  <2> DEFINE z == tConn[c]
  <2>1. tpc'[c] = "done" /\ tpc'[c] \notin Active
    BY Zenon, <1>a, <1>3, <1>14 DEF EndThread, Active
  <2>2. ThreadInv'
    BY Zenon, <1>8, <2>1
  <2>3. CASE UNCHANGED <<fdt, epoll>>
    BY Zenon, <1>7, <2>2, <2>3 DEF HoldInv
  <2>4. CASE CloseFd(z) /\ ~(mpc = "status" /\ mCmd = "Terminate" /\ ~mDone /\ mWho = c)
    <3>1. epoll' = epoll \ {z} /\ z \in Fd /\ fdt[z] = Stream(c)
      BY Zenon, <1>9, <2>4 DEF CloseFd
    <3>2. fdt'[z] = Free /\ \A f \in Fd \ {z} : fdt'[f] = fdt[f]
      BY Zenon, <1>a, <2>4, <3>1 DEF CloseFd
    <3> HIDE DEF z
    <3>4. lpc = "recv" => lFd \in Fd \ {z}
      BY Zenon, <1>0, <1>1, <3>1 DEF TakenInv, FdInv
    <3>5. Holds => mFd \in Fd \ {z}
      <4>1. mpc \in {"read", "handle"} => mFd # z
        BY Zenon, <1>0, <1>1, <3>1 DEF TakenInv
      <4>2. mpc = "status" => mFd # z
        <5> SUFFICES ASSUME mpc = "status", mFd = z PROVE FALSE
          BY Zenon
        <5>1. mCmd = "Terminate" /\ ~mDone
          BY Zenon, <1>0, <1>1, <3>1 DEF TakenInv, Serving
        <5>2. mWho \in Conn /\ Stream(mWho) = Stream(c)
          BY Zenon, <1>0, <3>1 DEF HeldInv, AtConn
        <5>3. mWho = c
          BY Zenon, <5>2, Kinds
        <5> QED
          BY Zenon, <2>4, <5>1, <5>3
      <4>3. mpc \notin {"listen", "register"}
        BY Zenon, <1>0, <1>1 DEF FdInv
      <4>4. Holds => mFd \in Fd /\ mpc \in {"read", "handle", "status"}
        BY Zenon, <1>0, <4>3 DEF Holds, AtConn, HeldInv, FdInv
      <4> QED
        BY Zenon, <4>1, <4>2, <4>4
    <3>6. mpc = "start" => 1 \in Fd \ {z}
      <4>1. 1 \in Fd /\ c \in Client
        BY <1>1, ProcAssumption DEF Fd
      <4>2. mpc = "start" => fdt[1] = Stream(Launcher)
        BY Zenon, <1>0 DEF HeldInv
      <4>3. Stream(c) # Stream(Launcher)
        BY Zenon, <4>1, Objects
      <4> QED
        BY Zenon, <3>1, <4>1, <4>2, <4>3
    <3>7. StreamInv' /\ TakenInv' /\ ListenInv' /\ HeldInv' /\ StopInv'
      <4>1. (\A f \in Fd : fdt'[f] \in {fdt[f], Free}) /\ epoll' \subseteq epoll /\ z \notin epoll'
        BY Zenon, <3>1, <3>2
      <4>2. lFd \in Fd \ {z} \/ fdt' = fdt \/ lpc # "recv"
        BY Zenon, <3>4
      <4>3. mFd \in Fd \ {z} \/ fdt' = fdt \/ ~Holds
        BY Zenon, <3>5
      <4>4. 1 \in Fd \ {z} \/ fdt' = fdt \/ mpc # "start"
        BY Zenon, <3>6
      <4>5. \A d \in Conn : tpc'[d] # "none" => tpc[d] # "none"
        BY Zenon, <1>6
      <4> QED
        BY Zenon, <1>0, <1>4, <3>2, <4>1, <4>2, <4>3, <4>4, <4>5, ThreadStepHold
    <3> QED
      BY Zenon, <2>2, <3>7 DEF HoldInv
  <2> QED
    BY Zenon, <1>3, <1>14, <2>3, <2>4 DEF EndThread
<1> QED
  BY Zenon, <1>10, <1>11, <1>12, <1>13, <1>14 DEF TerminateThread

(* Streams of different peers differ.                                           *)
LEMMA StreamsDiffer ==
  /\ \A c \in Conn \cup {Self}, d \in Conn \cup {Self} : Stream(c) = Stream(d) => c = d
  /\ Stream(Self).kind = "self" /\ \A c \in Conn : Stream(c).kind = "cli"
<1>1. \A c : Stream(c).who = c
  BY DEF Stream
<1>2. Stream(Self).kind = "self" /\ \A c \in Conn : Stream(c).kind = "cli"
  BY ProcAssumption DEF Stream
<1>3. ASSUME NEW c, NEW d, Stream(c) = Stream(d) PROVE c = d
  BY <1>1, <1>3
<1> QED
  BY Zenon, <1>2, <1>3

(* accept() gives the first connection of the backlog a free descriptor.        *)
LEMMA AcceptHold ==
  ASSUME ProcInv, HoldInv, Accept
  PROVE  HoldInv'
<1>0. /\ TypeOK /\ FdInv /\ StreamInv /\ ThreadInv /\ TakenInv /\ ListenInv /\ HeldInv /\ StopInv
  BY Zenon DEF ProcInv, HoldInv
<1>1. /\ lpc = "accept" /\ backlog # <<>>
      /\ UNCHANGED <<mpc, mEnc, mFd, mWho, mCmd, encFd, epoll, tpc, tFd, tConn, cst>>
  BY Zenon DEF Accept, AtListener, mainVars, handleVars, termVars, cliVars
<1>2. mpc # "start" /\ SameClients
  BY Zenon, <1>0, <1>1 DEF HeldInv, SameClients
<1>3. CASE lpc' = "close" /\ UNCHANGED <<fdt, lFd, backlog>>
  <2>0. FewerStreams
    BY Zenon, <1>3 DEF FewerStreams
  <2>1. StreamInv'
    BY Zenon, <1>0, <1>2, <1>3, <2>0, StreamKept
  <2>2. ThreadInv'
    BY Zenon, <1>0, <1>1, <1>2, <1>3, ThreadKept
  <2>3. TakenInv'
    BY Zenon, <1>0, <1>1, <1>3, <2>0, TakenKept
  <2>4. ListenInv'
    BY Zenon, <1>0, <1>1, <1>3, ListenKept
  <2>5. HeldInv'
    BY Zenon, <1>0, <1>1, <1>2, <1>3, HeldKept
  <2>6. StopInv'
    BY Zenon, <1>3 DEF StopInv
  <2> QED
    BY Zenon, <2>1, <2>2, <2>3, <2>4, <2>5, <2>6 DEF HoldInv
<1>4. ASSUME NEW z \in Fd, Lowest(z), fdt' = [fdt EXCEPT ![z] = Stream(Head(backlog))], lFd' = z,
             backlog' = Tail(backlog), lpc' = "recv"
      PROVE  HoldInv'
  <2> DEFINE c == Head(backlog)
             first == 1
             After(i) == i + 1
  <2>1. backlog \in Seq(Client \cup {Self}) /\ fdt \in [Fd -> Obj] /\ epoll \subseteq Fd
    BY Zenon, <1>0 DEF TypeOK
  <2>2. /\ first \in DOMAIN backlog /\ c = backlog[first] /\ c \in Client \cup {Self}
        /\ \A i \in DOMAIN backlog' :
             After(i) \in DOMAIN backlog /\ backlog'[i] = backlog[After(i)] /\ After(i) # first
        /\ \A i, j \in DOMAIN backlog' : After(i) = After(j) => i = j
        /\ \A i \in DOMAIN backlog : i = first \/ \E j \in DOMAIN backlog' : backlog'[j] = backlog[i]
    <3>1. first \in DOMAIN backlog /\ c = backlog[first] /\ c \in Client \cup {Self}
      BY <1>1, <1>4, <2>1
    <3>2. \A i \in DOMAIN backlog' :
            After(i) \in DOMAIN backlog /\ backlog'[i] = backlog[After(i)] /\ After(i) # first
      BY <1>1, <1>4, <2>1
    <3>3. \A i, j \in DOMAIN backlog' : After(i) = After(j) => i = j
      BY <1>1, <1>4, <2>1
    <3>4. ASSUME NEW i \in DOMAIN backlog, i # first
          PROVE  \E j \in DOMAIN backlog' : backlog'[j] = backlog[i]
      <4>1. i - 1 \in DOMAIN backlog' /\ backlog'[i - 1] = backlog[i]
        BY <1>1, <1>4, <2>1, <3>4
      <4> QED
        BY <4>1
    <3> HIDE DEF c, first, After
    <3> QED
      BY Zenon, <3>1, <3>2, <3>3, <3>4
  <2>3. fdt[z] = Free /\ fdt'[z] = Stream(c) /\ \A f \in Fd \ {z} : fdt'[f] = fdt[f]
    BY Zenon, <1>4, <2>1 DEF Lowest
  <2> HIDE DEF c, first, After
  <2>4. Client \subseteq Conn /\ c \in Conn \cup {Self} /\ Self \notin Conn /\ Self \notin Client
    BY Zenon, <2>2, ProcAssumption DEF Conn
  <2>5. c \in Client => cst[c] # "idle" /\ (\A f \in Fd : fdt[f] # Stream(c)) /\ tpc[c] = "none"
    BY Zenon, <1>0, <2>2, <2>4 DEF StreamInv, ThreadInv
  <2>6. ASSUME NEW i \in DOMAIN backlog', backlog'[i] \in Client PROVE backlog'[i] # c
    <3>1. /\ After(i) \in DOMAIN backlog /\ first \in DOMAIN backlog /\ After(i) # first
          /\ backlog'[i] = backlog[After(i)] /\ backlog[After(i)] \in Client
      BY Zenon, <2>2, <2>6
    <3>2. backlog[After(i)] # backlog[first]
      BY Zenon, <1>0, <3>1 DEF StreamInv
    <3> QED
      BY Zenon, <2>2, <3>1, <3>2
  <2>7. ASSUME NEW f \in Fd, NEW d \in Conn, fdt'[f] = Stream(d)
        PROVE  (fdt[f] = Stream(d) /\ f # z) \/ (f = z /\ d = c /\ c \in Client)
    <3>1. f # z => fdt[f] = Stream(d)
      BY Zenon, <2>3, <2>7
    <3>2. f = z => d = c
      BY Zenon, <2>3, <2>4, <2>7, StreamsDiffer
    <3> QED
      BY Zenon, <2>2, <2>4, <3>1, <3>2
  <2>8. \A f \in Fd : fdt[f] # Free => fdt'[f] = fdt[f] /\ f # z
    BY Zenon, <2>3
  <2>9. StreamInv'
    <3>1. \A f, g \in Fd, d \in Conn : fdt'[f] = Stream(d) /\ fdt'[g] = Stream(d) => f = g
      BY Zenon, <1>0, <2>5, <2>7 DEF StreamInv
    <3>2. \A i, j \in DOMAIN backlog' : backlog'[i] \in Client /\ backlog'[i] = backlog'[j] => i = j
      <4> SUFFICES ASSUME NEW i \in DOMAIN backlog', NEW j \in DOMAIN backlog',
                          backlog'[i] \in Client, backlog'[i] = backlog'[j]
          PROVE  i = j
        BY Zenon
      <4>1. /\ After(i) \in DOMAIN backlog /\ After(j) \in DOMAIN backlog
            /\ backlog[After(i)] \in Client /\ backlog[After(i)] = backlog[After(j)]
        BY Zenon, <2>2
      <4>2. After(i) = After(j)
        BY Zenon, <1>0, <4>1 DEF StreamInv
      <4> QED
        BY Zenon, <2>2, <4>2
    <3>3. ASSUME NEW i \in DOMAIN backlog', backlog'[i] \in Client
          PROVE  cst'[backlog'[i]] # "idle" /\ \A f \in Fd : fdt[f] # Stream(backlog'[i])
      <4>1. After(i) \in DOMAIN backlog /\ backlog[After(i)] \in Client /\ backlog'[i] = backlog[After(i)]
        BY Zenon, <2>2, <3>3
      <4>2. cst[backlog[After(i)]] # "idle" /\ \A f \in Fd : fdt[f] # Stream(backlog[After(i)])
        BY Zenon, <1>0, <4>1 DEF StreamInv
      <4> QED
        BY Zenon, <1>1, <4>1, <4>2
    <3>4. \A i \in DOMAIN backlog', f \in Fd : backlog'[i] \in Client => fdt'[f] # Stream(backlog'[i])
      BY Zenon, <2>4, <2>6, <2>7, <3>3
    <3>5. \A f \in Fd, d \in Client : fdt'[f] = Stream(d) => cst'[d] # "idle"
      BY Zenon, <1>0, <1>1, <2>4, <2>5, <2>7 DEF StreamInv
    <3> QED
      BY Zenon, <3>1, <3>2, <3>3, <3>4, <3>5 DEF StreamInv
  <2>10. ThreadInv'
    <3>1. \A d \in Conn : tpc'[d] # "none" => d \in Owner /\ cst'[d] # "idle"
      BY Zenon, <1>0, <1>1 DEF ThreadInv
    <3>2. \A d \in Conn, i \in DOMAIN backlog' : tpc'[d] # "none" => backlog'[i] # d
      <4>1. \A d \in Conn, k \in DOMAIN backlog : tpc[d] # "none" => backlog[k] # d
        BY Zenon, <1>0 DEF ThreadInv
      <4>2. \A i \in DOMAIN backlog' : After(i) \in DOMAIN backlog /\ backlog'[i] = backlog[After(i)]
        BY Zenon, <2>2
      <4>3. ASSUME NEW d \in Conn, NEW i \in DOMAIN backlog', tpc[d] # "none", backlog'[i] = d PROVE FALSE
        <5>1. After(i) \in DOMAIN backlog /\ backlog[After(i)] = d
          BY Zenon, <4>2, <4>3
        <5> QED
          BY Zenon, <4>1, <4>3, <5>1
      <4> QED
        BY Zenon, <1>1, <4>3
    <3>3. \A d \in Conn : tpc'[d] \in Active => tConn'[d] \in Fd /\ fdt'[tConn'[d]] = Stream(d)
      <4> SUFFICES ASSUME NEW d \in Conn, tpc[d] \in Active
          PROVE  tConn[d] \in Fd /\ fdt'[tConn[d]] = Stream(d)
        BY Zenon, <1>1
      <4>1. tConn[d] \in Fd /\ fdt[tConn[d]] = Stream(d)
        BY Zenon, <1>0 DEF ThreadInv
      <4>2. Stream(d) # Free
        BY Zenon, Objects
      <4> QED
        BY Zenon, <2>8, <4>1, <4>2
    <3>4. \A d \in Conn : tpc'[d] = "close" /\ tFd'[d] # NoFd => fdt'[tFd'[d]] = EnclaveObj
      BY Zenon, <1>0, <1>1, <2>8, Objects DEF ThreadInv, TypeOK
    <3>5. encFd' # NoFd /\ (\A d \in Conn : tpc'[d] \in {"none", "get", "close"}) => fdt'[encFd'] = EnclaveObj
      BY Zenon, <1>0, <1>1, <2>8, Objects DEF ThreadInv, TypeOK
    <3> QED
      BY Zenon, <3>1, <3>2, <3>3, <3>4, <3>5 DEF ThreadInv
  <2>11. TakenInv'
    <3> SUFFICES ASSUME NEW d \in Conn, NEW f \in Fd, tpc[d] # "none", fdt'[f] = Stream(d)
        PROVE  /\ f \notin epoll /\ f # z
               /\ mpc \in {"read", "handle"} => f # mFd
               /\ mpc = "status" /\ mFd = f => mCmd = "Terminate"
      BY Zenon, <1>1, <1>4 DEF TakenInv
    <3>1. fdt[f] = Stream(d) /\ f # z
      BY Zenon, <2>5, <2>7
    <3> QED
      BY Zenon, <1>0, <3>1 DEF TakenInv
  <2>12. ListenInv'
    <3>1. z \notin epoll /\ \A f \in epoll : fdt'[f] # Free
      BY Zenon, <1>0, <2>1, <2>3, <2>8 DEF ListenInv
    <3> QED
      BY Zenon, <1>1, <1>4, <2>2, <2>3, <3>1 DEF ListenInv
  <2>13. HeldInv'
    <3>1. Holds => mFd \in Fd /\ fdt[mFd] # Free
      BY Zenon, <1>0, Objects DEF HeldInv, FdInv, Holds
    <3>2. Holds => fdt'[mFd] = fdt[mFd] /\ mFd # z
      BY Zenon, <2>8, <3>1
    <3>3. \A f \in Fd : fdt'[f] = EnclaveObj => fdt[f] = EnclaveObj
      BY Zenon, <2>3, <2>4, Objects
    <3> QED
      BY Zenon, <1>0, <1>1, <1>2, <1>4, <3>2, <3>3, HeldKept
  <2>14. StopInv'
    <3>1. c = Self => lpc' = "recv" /\ fdt'[lFd'] = Stream(Self)
      BY Zenon, <1>4, <2>3
    <3>2. ASSUME NEW i \in DOMAIN backlog, backlog[i] = Self, c # Self
          PROVE  \E j \in DOMAIN backlog' : backlog'[j] = Self
      BY Zenon, <2>2, <3>2
    <3> QED
      BY Zenon, <1>0, <1>1, <3>1, <3>2 DEF StopInv
  <2> QED
    BY Zenon, <2>9, <2>10, <2>11, <2>12, <2>13, <2>14 DEF HoldInv
<1> QED
  BY Zenon, <1>3, <1>4 DEF Accept

(* A stream that sent a command goes to epoll; another one is closed, and stop  *)
(* is obeyed.                                                                   *)
LEMMA ReceiveHold ==
  ASSUME ProcInv, HoldInv, HandleNewConnection
  PROVE  HoldInv'
<1>0. /\ TypeOK /\ FdInv /\ StreamInv /\ ThreadInv /\ TakenInv /\ ListenInv /\ HeldInv /\ StopInv
  BY Zenon DEF ProcInv, HoldInv
<1>1. /\ lpc = "recv" /\ lpc' \in {"accept", "close"}
      /\ UNCHANGED <<mpc, mEnc, mFd, mWho, mCmd, encFd, lFd, backlog, tpc, tFd, tConn, cst>>
  BY Zenon DEF HandleNewConnection, AtListener, mainVars, handleVars, termVars, cliVars
<1>2. mpc # "start" /\ SameClients
  BY Zenon, <1>0, <1>1 DEF HeldInv, SameClients
<1>3. lFd \in Fd /\ lFd \notin epoll /\ fdt \in [Fd -> Obj] /\ epoll \subseteq Fd
  BY Zenon, <1>0, <1>1 DEF FdInv, ListenInv, TypeOK
<1>4. PICK x \in Client \cup {Self} : fdt[lFd] = Stream(x)
  BY Zenon, <1>0, <1>1 DEF ListenInv
<1>5. x \in Conn \cup {Self} /\ fdt[lFd] \notin {Free, EnclaveObj}
  BY Zenon, <1>4, Objects DEF Conn
<1>6. \A d \in Conn : tpc[d] # "none" => fdt[lFd] # Stream(d)
  BY Zenon, <1>0, <1>1, <1>3 DEF TakenInv
<1>7. Holds => lFd # mFd
  BY Zenon, <1>0, <1>1 DEF HeldInv
<1>8. fdt[lFd] = Stream(Self) => lpc' = "close" \/ mpc \notin {"sendStop", "joinL"}
  <2>1. fdt[lFd] = Stream(Self) => fdt[lFd].kind = "self"
    BY Zenon, StreamsDiffer
  <2> QED
    BY Zenon, <2>1 DEF HandleNewConnection, BreaksAccept, StopSent
<1>9. StopInv'
  BY Zenon, <1>0, <1>1, <1>8 DEF StopInv
<1>10. CASE epoll' = epoll \cup {lFd} /\ UNCHANGED fdt
  <2>0. FewerStreams
    BY Zenon, <1>10 DEF FewerStreams
  <2>1. StreamInv'
    BY Zenon, <1>0, <1>1, <1>2, <2>0, StreamKept
  <2>2. ThreadInv'
    BY Zenon, <1>0, <1>1, <1>2, <1>10, ThreadKept
  <2>3. TakenInv'
    <3>1. \A f \in epoll' \ epoll, d \in Conn : fdt[f] = Stream(d) => tpc[d] = "none"
      BY Zenon, <1>6, <1>10
    <3> QED
      BY Zenon, <1>0, <1>1, <2>0, <3>1, TakenKept
  <2>4. ListenInv'
    BY Zenon, <1>0, <1>1, <1>5, <1>10 DEF ListenInv
  <2>5. HeldInv'
    <3>1. Holds => fdt'[mFd] = fdt[mFd] /\ (mFd \in epoll' => mFd \in epoll)
      BY Zenon, <1>7, <1>10
    <3> QED
      BY Zenon, <1>0, <1>1, <1>2, <1>10, <3>1, HeldKept
  <2> QED
    BY Zenon, <1>9, <2>1, <2>2, <2>3, <2>4, <2>5 DEF HoldInv
<1>11. CASE CloseFd(lFd)
  <2>0. /\ fdt'[lFd] = Free /\ (\A f \in Fd \ {lFd} : fdt'[f] = fdt[f])
        /\ epoll' = epoll \ {lFd}
    BY Zenon, <1>3, <1>11 DEF CloseFd
  <2>1. FewerStreams
    BY Zenon, <2>0, Objects DEF FewerStreams
  <2>2. StreamInv'
    BY Zenon, <1>0, <1>1, <1>2, <2>1, StreamKept
  <2>3. ThreadInv'
    <3>1. \A f \in Fd : fdt[f] = EnclaveObj => fdt'[f] = EnclaveObj
      BY Zenon, <1>5, <2>0
    <3>2. \A f \in Fd, d \in Conn : tpc[d] \in Active /\ fdt[f] = Stream(d) => fdt'[f] = Stream(d)
      BY Zenon, <1>6, <2>0 DEF Active
    <3> QED
      BY Zenon, <1>0, <1>1, <1>2, <3>1, <3>2, ThreadKept
  <2>4. TakenInv'
    BY Zenon, <1>0, <1>1, <2>0, <2>1, TakenKept
  <2>5. ListenInv'
    <3>1. \A f \in epoll' : fdt'[f] = fdt[f]
      BY Zenon, <1>3, <2>0
    <3> QED
      BY Zenon, <1>0, <1>1, <2>0, <3>1, ListenKept
  <2>6. HeldInv'
    <3>1. Holds => mFd \in Fd
      BY Zenon, <1>0 DEF HeldInv, FdInv, Holds
    <3>2. Holds => fdt'[mFd] = fdt[mFd] /\ (mFd \in epoll' => mFd \in epoll)
      BY Zenon, <1>7, <2>0, <3>1
    <3>3. \A f \in Fd : fdt'[f] = EnclaveObj => fdt[f] = EnclaveObj
      BY Zenon, <2>0, Objects
    <3> QED
      BY Zenon, <1>0, <1>1, <1>2, <3>2, <3>3, HeldKept
  <2> QED
    BY Zenon, <1>9, <2>2, <2>3, <2>4, <2>5, <2>6 DEF HoldInv
<1> QED
  BY Zenon, <1>10, <1>11 DEF HandleNewConnection

(* One more connection waits to be accepted.                                    *)
LEMMA BacklogGrows ==
  ASSUME TypeOK, NEW x \in Client \cup {Self}, backlog' = Append(backlog, x)
  PROVE  \E last \in DOMAIN backlog' :
           /\ DOMAIN backlog' = DOMAIN backlog \cup {last} /\ last \notin DOMAIN backlog
           /\ backlog'[last] = x /\ \A i \in DOMAIN backlog : backlog'[i] = backlog[i]
<1>1. backlog \in Seq(Client \cup {Self})
  BY Zenon DEF TypeOK
<1> DEFINE last == Len(backlog) + 1
<1>2. /\ last \in DOMAIN backlog' /\ last \notin DOMAIN backlog /\ backlog'[last] = x
      /\ \A i \in DOMAIN backlog : backlog'[i] = backlog[i]
  BY <1>1
<1>3. DOMAIN backlog' = DOMAIN backlog \cup {last}
  BY <1>1
<1> HIDE DEF last
<1> QED
  BY Zenon, <1>2, <1>3

(* A connection that has been nowhere before may wait.                          *)
LEMMA BacklogHold ==
  ASSUME TypeOK, StreamInv, ThreadInv, FewerStreams,
         NEW x \in Client \cup {Self}, backlog' = Append(backlog, x),
         UNCHANGED <<tpc, tFd, tConn, encFd>>,
         \A c \in Conn : cst'[c] = "idle" => cst[c] = "idle" /\ c # x,
         x \in Client => cst[x] = "idle",
         \A f \in Fd : fdt[f] # Free => fdt'[f] = fdt[f]
  PROVE  /\ StreamInv' /\ ThreadInv' /\ \E i \in DOMAIN backlog' : backlog'[i] = x
         /\ \A i \in DOMAIN backlog : i \in DOMAIN backlog' /\ backlog'[i] = backlog[i]
<1>0. Client \subseteq Conn /\ Self \notin Conn
  BY Zenon, ProcAssumption DEF Conn
<1>1. PICK last \in DOMAIN backlog' :
        /\ DOMAIN backlog' = DOMAIN backlog \cup {last} /\ last \notin DOMAIN backlog
        /\ backlog'[last] = x /\ \A i \in DOMAIN backlog : backlog'[i] = backlog[i]
  BY Zenon, BacklogGrows
<1>2. x \in Client => /\ \A i \in DOMAIN backlog : backlog[i] # x
                      /\ \A f \in Fd : fdt[f] # Stream(x)
                      /\ tpc[x] = "none"
  <2> SUFFICES ASSUME x \in Client
      PROVE  (\A i \in DOMAIN backlog : backlog[i] # x) /\ (\A f \in Fd : fdt[f] # Stream(x)) /\ tpc[x] = "none"
    BY Zenon
  <2>1. cst[x] = "idle"
    BY Zenon
  <2>2. (\A i \in DOMAIN backlog : backlog[i] # x) /\ \A f \in Fd : fdt[f] # Stream(x)
    BY Zenon, <2>1 DEF StreamInv
  <2>3. tpc[x] = "none"
    BY Zenon, <1>0, <2>1 DEF ThreadInv
  <2> QED
    BY Zenon, <2>2, <2>3
<1>3. StreamInv'
  <2>1. ASSUME NEW f \in Fd, NEW g \in Fd, NEW c \in Conn, fdt'[f] = Stream(c), fdt'[g] = Stream(c)
        PROVE  f = g
    <3>1. fdt[f] = Stream(c) /\ fdt[g] = Stream(c)
      BY Zenon, <2>1 DEF FewerStreams
    <3> QED
      BY Zenon, <3>1 DEF StreamInv
  <2>2. \A i, j \in DOMAIN backlog' : backlog'[i] \in Client /\ backlog'[i] = backlog'[j] => i = j
    <3> SUFFICES ASSUME NEW i \in DOMAIN backlog', NEW j \in DOMAIN backlog',
                        backlog'[i] \in Client, backlog'[i] = backlog'[j]
        PROVE  i = j
      BY Zenon
    <3>1. CASE i = last \/ j = last
      <4>1. backlog'[i] = x /\ backlog'[j] = x /\ x \in Client
        BY Zenon, <1>1, <3>1
      <4>2. \A k \in DOMAIN backlog' : backlog'[k] = x => k = last
        BY Zenon, <1>1, <1>2, <4>1
      <4> QED
        BY Zenon, <4>1, <4>2
    <3>2. CASE i # last /\ j # last
      <4>1. i \in DOMAIN backlog /\ j \in DOMAIN backlog /\ backlog[i] \in Client /\ backlog[i] = backlog[j]
        BY Zenon, <1>1, <3>2
      <4> QED
        BY Zenon, <4>1 DEF StreamInv
    <3> QED
      BY Zenon, <3>1, <3>2
  <2>3. ASSUME NEW i \in DOMAIN backlog', backlog'[i] \in Client
        PROVE  cst'[backlog'[i]] # "idle" /\ \A f \in Fd : fdt'[f] # Stream(backlog'[i])
    <3>1. CASE i = last
      <4>1. backlog'[i] = x /\ x \in Client /\ x \in Conn
        BY Zenon, <1>0, <1>1, <2>3, <3>1
      <4>2. cst'[x] # "idle" /\ \A f \in Fd : fdt'[f] # Stream(x)
        BY Zenon, <1>2, <4>1 DEF FewerStreams
      <4> QED
        BY Zenon, <4>1, <4>2
    <3>2. CASE i # last
      <4>1. i \in DOMAIN backlog /\ backlog[i] \in Client /\ backlog'[i] = backlog[i]
        BY Zenon, <1>1, <2>3, <3>2
      <4>2. cst[backlog[i]] # "idle" /\ \A f \in Fd : fdt[f] # Stream(backlog[i])
        BY Zenon, <4>1 DEF StreamInv
      <4> QED
        BY Zenon, <1>0, <4>1, <4>2 DEF FewerStreams
    <3> QED
      BY Zenon, <3>1, <3>2
  <2>4. ASSUME NEW f \in Fd, NEW c \in Client, fdt'[f] = Stream(c) PROVE cst'[c] # "idle"
    <3>1. c \in Conn
      BY Zenon, <1>0
    <3>2. fdt[f] = Stream(c)
      BY Zenon, <2>4, <3>1 DEF FewerStreams
    <3>3. cst[c] # "idle"
      BY Zenon, <3>2 DEF StreamInv
    <3> QED
      BY Zenon, <3>1, <3>3
  <2>5. /\ \A f, g \in Fd, c \in Conn : fdt'[f] = Stream(c) /\ fdt'[g] = Stream(c) => f = g
        /\ \A f \in Fd, c \in Client : fdt'[f] = Stream(c) => cst'[c] # "idle"
    BY Zenon, <2>1, <2>4
  <2>6. /\ \A i \in DOMAIN backlog' : backlog'[i] \in Client => cst'[backlog'[i]] # "idle"
        /\ \A i \in DOMAIN backlog', f \in Fd : backlog'[i] \in Client => fdt'[f] # Stream(backlog'[i])
    BY Zenon, <2>3
  <2> QED
    BY Zenon, <2>2, <2>5, <2>6 DEF StreamInv
<1>4. ThreadInv'
  <2>0. encFd \in Fd \cup {NoFd} /\ \A c \in Conn : tFd[c] \in Fd \cup {NoFd}
    BY Zenon DEF TypeOK
  <2>1. \A c \in Conn : tpc'[c] # "none" => c \in Owner /\ cst'[c] # "idle"
    BY Zenon DEF ThreadInv
  <2>2. \A c \in Conn, i \in DOMAIN backlog' : tpc'[c] # "none" => backlog'[i] # c
    <3> SUFFICES ASSUME NEW c \in Conn, NEW i \in DOMAIN backlog', tpc[c] # "none", backlog'[i] = c PROVE FALSE
      BY Zenon
    <3>1. CASE i = last
      <4>1. c = x
        BY Zenon, <1>1, <3>1
      <4>2. x \in Client
        BY Zenon, <1>0, <4>1
      <4> QED
        BY Zenon, <1>2, <4>1, <4>2
    <3>2. CASE i # last
      <4>1. i \in DOMAIN backlog /\ backlog[i] = c
        BY Zenon, <1>1, <3>2
      <4> QED
        BY Zenon, <4>1 DEF ThreadInv
    <3> QED
      BY Zenon, <3>1, <3>2
  <2>3. ASSUME NEW c \in Conn, tpc'[c] \in Active
        PROVE  tConn'[c] \in Fd /\ fdt'[tConn'[c]] = Stream(c)
    <3>1. tConn[c] \in Fd /\ fdt[tConn[c]] = Stream(c)
      BY Zenon, <2>3 DEF ThreadInv
    <3>2. Stream(c) # Free
      BY Zenon, Objects
    <3> QED
      BY Zenon, <3>1, <3>2
  <2>4. \A c \in Conn : tpc'[c] = "close" /\ tFd'[c] # NoFd => fdt'[tFd'[c]] = EnclaveObj
    BY Zenon, <2>0, Objects DEF ThreadInv
  <2>5. encFd' # NoFd /\ (\A c \in Conn : tpc'[c] \in {"none", "get", "close"}) => fdt'[encFd'] = EnclaveObj
    BY Zenon, <2>0, Objects DEF ThreadInv
  <2> QED
    BY Zenon, <2>1, <2>2, <2>3, <2>4, <2>5 DEF ThreadInv
<1> QED
  BY Zenon, <1>1, <1>3, <1>4

(* A client connects.                                                           *)
LEMMA ConnectHold ==
  ASSUME ProcInv, HoldInv, NEW c \in Client, Connect(c)
  PROVE  HoldInv'
<1>0. /\ TypeOK /\ StreamInv /\ ThreadInv /\ TakenInv /\ ListenInv /\ HeldInv /\ StopInv
  BY Zenon DEF ProcInv, HoldInv
<1>1. /\ cst[c] = "idle" /\ backlog' = Append(backlog, c) /\ cst' = [cst EXCEPT ![c] = "open"]
      /\ UNCHANGED <<mpc, mEnc, mFd, mWho, mCmd, encFd, fdt, epoll, lpc, lFd, tpc, tFd, tConn>>
  BY Zenon DEF Connect, mainVars, handleVars, fdVars, termVars
<1>2. \A d \in Conn : cst'[d] = "idle" => cst[d] = "idle" /\ d # c
  <2>1. cst \in [Conn -> {"idle", "open", "dead", "done"}] /\ c \in Conn
    BY Zenon, <1>0 DEF TypeOK, Conn
  <2> QED
    BY Zenon, <1>1, <2>1
<1>3. FewerStreams
  BY Zenon, <1>1 DEF FewerStreams
<1>4. /\ StreamInv' /\ ThreadInv'
      /\ \A i \in DOMAIN backlog : i \in DOMAIN backlog' /\ backlog'[i] = backlog[i]
  <2>1. c \in Client \cup {Self} /\ \A f \in Fd : fdt[f] # Free => fdt'[f] = fdt[f]
    BY Zenon, <1>1
  <2> QED
    BY Zenon, <1>0, <1>1, <1>2, <1>3, <2>1, BacklogHold
<1>5. TakenInv'
  BY Zenon, <1>0, <1>1, <1>3, TakenKept
<1>6. ListenInv'
  BY Zenon, <1>0, <1>1, ListenKept
<1>7. HeldInv'
  BY Zenon, <1>0, <1>1, HeldKept
<1>8. StopInv'
  BY Zenon, <1>0, <1>1, <1>4 DEF StopInv
<1> QED
  BY Zenon, <1>4, <1>5, <1>6, <1>7, <1>8 DEF HoldInv

(* The listener leaves.                                                         *)
LEMMA CloseHold ==
  ASSUME ProcInv, HoldInv, CloseListener
  PROVE  HoldInv'
<1>0. /\ TypeOK /\ StreamInv /\ ThreadInv /\ TakenInv /\ ListenInv /\ HeldInv
  BY Zenon DEF ProcInv, HoldInv
<1>1. /\ lpc = "close" /\ lpc' = "done" /\ backlog' = <<>>
      /\ UNCHANGED <<mpc, mEnc, mFd, mWho, mCmd, encFd, fdt, epoll, lFd, tpc, tFd, tConn, cst>>
  BY Zenon DEF CloseListener, AtListener, mainVars, handleVars, fdVars, termVars, cliVars
<1>2. DOMAIN backlog' = {}
  BY <1>1
<1>3. FewerStreams /\ mpc # "start"
  BY Zenon, <1>0, <1>1 DEF FewerStreams, HeldInv
<1>4. StreamInv'
  BY Zenon, <1>0, <1>1, <1>2 DEF StreamInv
<1>5. ThreadInv'
  BY Zenon, <1>0, <1>1, <1>2 DEF ThreadInv
<1>6. TakenInv'
  BY Zenon, <1>0, <1>1, <1>3, TakenKept
<1>7. ListenInv'
  BY Zenon, <1>0, <1>1, ListenKept
<1>8. HeldInv'
  BY Zenon, <1>0, <1>1, <1>3, HeldKept
<1>9. StopInv'
  BY Zenon, <1>1 DEF StopInv
<1> QED
  BY Zenon, <1>4, <1>5, <1>6, <1>7, <1>8, <1>9 DEF HoldInv

(* The main thread has no connection, or puts it away.                          *)
LEMMA LoopHold ==
  ASSUME TypeOK, HoldInv, mpc' \in {"loop", "wait", "del", "stop"}, epoll' \subseteq epoll,
         UNCHANGED <<encFd, fdt, lpc, lFd, backlog, tpc, tFd, tConn, cst>>,
         mpc' \in {"wait", "del"} => \A f \in Fd : fdt[f] = EnclaveObj => f = mEnc'
  PROVE  HoldInv'
<1>0. StreamInv /\ ThreadInv /\ TakenInv /\ ListenInv /\ HeldInv /\ StopInv
  BY Zenon DEF HoldInv
<1>1. FewerStreams /\ SameClients
  BY Zenon DEF FewerStreams, SameClients
<1>2. StreamInv'
  BY Zenon, <1>0, <1>1, StreamKept
<1>3. ThreadInv'
  BY Zenon, <1>0, <1>1, ThreadKept
<1>4. TakenInv'
  BY Zenon, <1>0, <1>1, TakenKept
<1>5. ListenInv'
  BY Zenon, <1>0, ListenKept
<1>6. HeldInv'
  BY Zenon DEF HeldInv, Holds, AtConn
<1>7. StopInv'
  BY Zenon DEF StopInv
<1> QED
  BY Zenon, <1>2, <1>3, <1>4, <1>5, <1>6, <1>7 DEF HoldInv

(* The main thread goes on with the connection it has.                          *)
LEMMA ServeHold ==
  ASSUME TypeOK, FdInv, HoldInv, Holds, mpc \in {"read", "handle", "listen", "register"}, mpc' \in AtConn,
         UNCHANGED <<mFd, encFd, fdt, lFd, backlog, tpc, tFd, tConn, cst>>,
         lpc' = "recv" => lpc = "recv",
         \A f \in epoll' : f \in epoll \/ fdt[f] = EnclaveObj,
         mCmd' \notin Inner => mWho' \in Conn /\ fdt[mFd] = Stream(mWho'),
         mpc' = "handle" /\ mCmd' = "Terminate" => mWho' \in Owner,
         mpc' # "handle" => mCmd' \notin Inner
  PROVE  HoldInv'
<1>0. StreamInv /\ ThreadInv /\ TakenInv /\ ListenInv /\ HeldInv
  BY Zenon DEF HoldInv
<1>1. FewerStreams /\ SameClients
  BY Zenon DEF FewerStreams, SameClients
<1>2. mFd \in Fd /\ mFd \notin epoll /\ (lpc = "recv" => lFd # mFd) /\ fdt[mFd] # EnclaveObj
  <2>1. mFd \notin epoll /\ (lpc = "recv" => lFd # mFd)
    BY Zenon, <1>0 DEF HeldInv
  <2>2. mpc = "read" => mFd \in Fd /\ fdt[mFd] # EnclaveObj
    BY Zenon, <1>0 DEF HeldInv, FdInv
  <2>3. mpc \in AtConn /\ mCmd \notin Inner => mFd \in Fd /\ fdt[mFd] # EnclaveObj
    BY Zenon, <1>0, Objects DEF HeldInv
  <2> QED
    BY Zenon, <2>1, <2>2, <2>3 DEF Holds
<1>3. StreamInv'
  BY Zenon, <1>0, <1>1, StreamKept
<1>4. ThreadInv'
  BY Zenon, <1>0, <1>1, ThreadKept
<1>5. TakenInv'
  <2> SUFFICES ASSUME NEW c \in Conn, NEW f \in Fd, tpc[c] # "none", fdt[f] = Stream(c)
      PROVE  f \notin epoll' /\ (lpc' = "recv" => f # lFd) /\ f # mFd
    BY Zenon DEF TakenInv
  <2>1. mpc \in {"read", "handle"}
    BY Zenon DEF FdInv
  <2>2. f \notin epoll /\ (lpc = "recv" => f # lFd) /\ f # mFd
    BY Zenon, <1>0, <2>1 DEF TakenInv
  <2>3. fdt[f] # EnclaveObj
    BY Zenon, Objects
  <2> QED
    BY Zenon, <2>2, <2>3
<1>6. ListenInv'
  <2>1. \A x \in Client \cup {Self} : Stream(x) # EnclaveObj
    BY Zenon, Objects DEF Conn
  <2>2. lpc = "recv" => lFd \notin epoll /\ \E x \in Client \cup {Self} : fdt[lFd] = Stream(x)
    BY Zenon, <1>0 DEF ListenInv
  <2>3. lpc' = "recv" => lFd \notin epoll' /\ \E x \in Client \cup {Self} : fdt[lFd] = Stream(x)
    BY Zenon, <2>1, <2>2
  <2>4. \A f \in epoll' : fdt[f] # Free
    BY Zenon, <1>0, Objects DEF ListenInv
  <2> QED
    BY Zenon, <2>3, <2>4 DEF ListenInv
<1>7. HeldInv'
  <2>1. mpc' \notin {"start", "wait", "del", "read"}
    BY Zenon DEF AtConn
  <2>2. mFd \notin epoll' /\ (lpc' = "recv" => lFd # mFd)
    BY Zenon, <1>2
  <2> QED
    BY Zenon, <1>2, <2>1, <2>2 DEF HeldInv
<1>8. StopInv'
  BY Zenon DEF StopInv, AtConn
<1> QED
  BY Zenon, <1>3, <1>4, <1>5, <1>6, <1>7, <1>8 DEF HoldInv

(* Waiting for an event and taking it.                                          *)
LEMMA EventHold ==
  ASSUME ProcInv, HoldInv, Serving',
         HandleCommStream \/ GetEnclaveDescriptor \/ EpollWait \/ TakeEvent \/ ReadCommand
  PROVE  HoldInv'
<1>0. /\ TypeOK /\ FdInv /\ BootInv /\ TermInv
      /\ StreamInv /\ ThreadInv /\ TakenInv /\ ListenInv /\ HeldInv /\ StopInv
  BY Zenon DEF ProcInv, HoldInv
<1> USE DEF AtMain, handleVars, fdVars, listenVars, termVars, cliVars
<1>1. CASE HandleCommStream
  <2>1. /\ mpc = "start" /\ mpc' = "loop" /\ epoll' = epoll \cup {1}
        /\ UNCHANGED <<encFd, fdt, lpc, lFd, backlog, tpc, tFd, tConn, cst>>
    BY Zenon, <1>1 DEF HandleCommStream, Serving
  <2>2. fdt[1] = Stream(Launcher) /\ lpc = "none" /\ Launcher \in Conn
    BY Zenon, <1>0, <2>1 DEF HeldInv, Conn
  <2>3. FewerStreams /\ SameClients
    BY Zenon, <2>1 DEF FewerStreams, SameClients
  <2>4. StreamInv' /\ ThreadInv'
    BY Zenon, <1>0, <2>1, <2>3, StreamKept, ThreadKept
  <2>5. TakenInv'
    <3>1. tpc[Launcher] = "none"
      BY Zenon, <1>0, <2>2, ProcAssumption DEF ThreadInv
    <3>2. \A f \in epoll' \ epoll, c \in Conn : fdt[f] = Stream(c) => tpc[c] = "none"
      BY Zenon, <2>1, <2>2, <3>1, StreamsDiffer
    <3> QED
      BY Zenon, <1>0, <2>1, <2>3, <3>2, TakenKept
  <2>6. ListenInv'
    BY Zenon, <1>0, <2>1, <2>2, Objects DEF ListenInv
  <2>7. HeldInv' /\ StopInv'
    BY Zenon, <2>1 DEF HeldInv, StopInv, Holds, AtConn
  <2> QED
    BY Zenon, <2>4, <2>5, <2>6, <2>7 DEF HoldInv
<1>2. CASE GetEnclaveDescriptor
  <2>1. /\ mpc' = "wait" /\ mEnc' = encFd
        /\ UNCHANGED <<encFd, fdt, epoll, lpc, lFd, backlog, tpc, tFd, tConn, cst>>
    BY Zenon, <1>2 DEF GetEnclaveDescriptor
  <2>2. \A f \in Fd : fdt[f] = EnclaveObj => f = mEnc'
    BY Zenon, <1>0, <2>1 DEF TermInv
  <2> QED
    BY Zenon, <1>0, <2>1, <2>2, LoopHold
<1>3. CASE EpollWait
  <2>1. /\ mpc = "wait" /\ mpc' = "del" /\ mEnc' = mEnc
        /\ UNCHANGED <<encFd, fdt, epoll, lpc, lFd, backlog, tpc, tFd, tConn, cst>>
    BY Zenon, <1>3 DEF EpollWait
  <2>2. \A f \in Fd : fdt[f] = EnclaveObj => f = mEnc'
    BY Zenon, <1>0, <2>1 DEF HeldInv
  <2> QED
    BY Zenon, <1>0, <2>1, <2>2, LoopHold
<1>4. CASE TakeEvent
  <2>1. /\ mpc = "del" /\ mFd \in epoll /\ epoll' = epoll \ {mFd} /\ mFd' = mFd
        /\ mpc' = "loop" \/ (mpc' = "read" /\ mFd # mEnc)
        /\ UNCHANGED <<encFd, fdt, lpc, lFd, backlog, tpc, tFd, tConn, cst>>
    BY Zenon, <1>4 DEF TakeEvent, Serving
  <2>2. CASE mpc' = "loop"
    BY Zenon, <1>0, <2>1, <2>2, LoopHold
  <2>3. CASE mpc' = "read" /\ mFd # mEnc
    <3>1. FewerStreams /\ SameClients /\ mFd \in Fd
      BY Zenon, <1>0, <2>1 DEF FewerStreams, SameClients, TypeOK
    <3>2. StreamInv' /\ ThreadInv'
      BY Zenon, <1>0, <2>1, <3>1, StreamKept, ThreadKept
    <3>3. TakenInv'
      <4> SUFFICES ASSUME NEW c \in Conn, NEW f \in Fd, tpc[c] # "none", fdt[f] = Stream(c)
          PROVE  f \notin epoll /\ (lpc = "recv" => f # lFd) /\ f # mFd
        BY Zenon, <2>1, <2>3 DEF TakenInv
      <4>1. f \notin epoll /\ (lpc = "recv" => f # lFd)
        BY Zenon, <1>0 DEF TakenInv
      <4> QED
        BY Zenon, <2>1, <4>1
    <3>4. ListenInv'
      BY Zenon, <1>0, <2>1, ListenKept
    <3>5. fdt[mFd] \notin {Free, EnclaveObj}
      BY Zenon, <1>0, <2>1, <2>3, <3>1 DEF HeldInv, ListenInv
    <3>6. lpc = "recv" => lFd # mFd
      BY Zenon, <1>0, <2>1 DEF ListenInv
    <3>7. HeldInv' /\ StopInv'
      BY Zenon, <2>1, <2>3, <3>5, <3>6 DEF HeldInv, StopInv, AtConn
    <3> QED
      BY Zenon, <3>2, <3>3, <3>4, <3>7 DEF HoldInv
  <2> QED
    BY Zenon, <2>1, <2>2, <2>3
<1>5. CASE ReadCommand
  <2>1. /\ mpc = "read" /\ mpc' = "handle"
        /\ UNCHANGED <<mFd, encFd, fdt, epoll, lpc, lFd, backlog, tpc, tFd, tConn, cst>>
    BY Zenon, <1>5 DEF ReadCommand, Serving, Kill
  <2>2. \/ mCmd' \in Inner
        \/ /\ fdt[mFd].kind = "cli" /\ mWho' = fdt[mFd].who
           /\ mCmd' = IF Permitted(mWho', cmd[mWho']) THEN cmd[mWho'] ELSE "NotPermitted"
    BY Zenon, <1>5 DEF ReadCommand, Serving, Kill, Inner
  <2>3. mCmd' \notin Inner => mWho' \in Conn /\ fdt[mFd] = Stream(mWho')
    <3>1. mFd \in Fd /\ fdt[mFd] \in Obj
      BY Zenon, <1>0, <2>1 DEF FdInv, TypeOK
    <3> QED
      BY Zenon, <2>2, <3>1, Objects
  <2>4. mCmd' = "Terminate" => mWho' \in Owner
    <3>1. mCmd' = "Terminate" => mWho' \in Conn /\ Permitted(mWho', "Terminate") /\ cmd[mWho'] = "Terminate"
      BY Zenon, <2>2, <2>3 DEF Inner
    <3> QED
      BY Zenon, <1>0, <3>1 DEF Permitted, ReadOnly, BootInv
  <2>5. Holds /\ mpc' \in AtConn
    BY Zenon, <2>1 DEF Holds, AtConn
  <2>6. \A f \in epoll' : f \in epoll \/ fdt[f] = EnclaveObj
    BY Zenon, <2>1
  <2> QED
    BY Zenon, <1>0, <2>1, <2>3, <2>4, <2>5, <2>6, ServeHold
<1> QED
  BY Zenon, <1>1, <1>2, <1>3, <1>4, <1>5

(* The commands that open no descriptor, and the end of Run.                    *)
LEMMA HandleHold ==
  ASSUME ProcInv, HoldInv, Serving',
         StartListener \/ RegisterEnclaveDescriptor \/ Query \/ Internal
  PROVE  HoldInv'
<1>0. TypeOK /\ FdInv /\ BootInv /\ ThreadInv /\ HeldInv
  BY Zenon DEF ProcInv, HoldInv
<1> USE DEF AtMain, Handled, Kill, handleVars, fdVars, listenVars, termVars, cliVars
<1>1. /\ mpc \in {"handle", "listen", "register"}
      /\ UNCHANGED <<mFd, mWho, mCmd, encFd, fdt, lFd, backlog, tpc, tFd, tConn, cst>>
      /\ \/ mpc' = "stop" /\ UNCHANGED <<epoll, lpc>>
         \/ /\ mpc' \in {"register", "status"} /\ mCmd \notin Inner
            /\ lpc' \in {lpc, "accept"} /\ epoll' \in {epoll, epoll \cup {encFd}}
            /\ epoll' = epoll \/ mpc = "register"
  <2>1. CASE StartListener
    <3>1. mCmd \notin Inner
      BY Zenon, <1>0, <2>1 DEF StartListener, HeldInv
    <3> QED
      BY Zenon, <2>1, <3>1 DEF StartListener, Serving
  <2>2. CASE RegisterEnclaveDescriptor
    <3>1. mCmd \notin Inner
      BY Zenon, <1>0, <2>2 DEF RegisterEnclaveDescriptor, HeldInv
    <3> QED
      BY Zenon, <2>2, <3>1 DEF RegisterEnclaveDescriptor
  <2>3. CASE Query
    <3>1. mCmd \notin Inner
      BY Zenon, <2>3 DEF Query, ReadOnly, CliCommand, Inner
    <3> QED
      BY Zenon, <2>3, <3>1 DEF Query, Serving
  <2>4. CASE Internal
    <3>1. mCmd = "NotPermitted" => mCmd \notin Inner
      BY Zenon DEF Inner
    <3> QED
      BY Zenon, <2>4, <3>1 DEF Internal
  <2> QED
    BY Zenon, <2>1, <2>2, <2>3, <2>4
<1>2. CASE mpc' = "stop" /\ UNCHANGED <<epoll, lpc>>
  BY Zenon, <1>0, <1>1, <1>2, LoopHold
<1>3. CASE mpc' # "stop"
  <2>1. mpc' \in AtConn /\ Holds /\ mpc' # "handle"
    BY Zenon, <1>1, <1>3 DEF AtConn, Holds
  <2>2. mCmd' \notin Inner /\ mWho' \in Conn /\ fdt[mFd] = Stream(mWho')
    BY Zenon, <1>0, <1>1, <1>3 DEF HeldInv, AtConn
  <2>3. lpc' = "recv" => lpc = "recv"
    BY Zenon, <1>1, <1>3
  <2>4. \A f \in epoll' : f \in epoll \/ fdt[f] = EnclaveObj
    <3>1. mpc = "register" => fdt[encFd] = EnclaveObj
      <4>1. mpc = "register" => encFd \in Fd /\ \A c \in Conn : tpc[c] = "none"
        BY Zenon, <1>0 DEF FdInv
      <4>2. NoFd \notin Fd
        BY DEF NoFd, Fd
      <4> QED
        BY Zenon, <1>0, <4>1, <4>2 DEF ThreadInv
    <3> QED
      BY Zenon, <1>1, <1>3, <3>1
  <2> QED
    BY Zenon, <1>0, <1>1, <2>1, <2>2, <2>3, <2>4, ServeHold
<1> QED
  BY Zenon, <1>1, <1>2, <1>3

(* Opening a descriptor that is no stream.                                      *)
LEMMA OpenKept ==
  ASSUME TypeOK, NEW z \in Fd, fdt[z] = Free, NEW o, fdt' = [fdt EXCEPT ![z] = o],
         \A c \in Conn : o # Stream(c)
  PROVE  /\ FewerStreams /\ fdt'[z] = o
         /\ \A f \in Fd : fdt[f] # Free => f # z /\ fdt'[f] = fdt[f]
<1>1. fdt'[z] = o /\ \A f \in Fd \ {z} : fdt'[f] = fdt[f]
  BY Zenon DEF TypeOK
<1> QED
  BY Zenon, <1>1 DEF FewerStreams

(* Run opens the enclave's descriptor when no terminate thread has started.     *)
LEMMA RunHold ==
  ASSUME ProcInv, HoldInv, Serving', Run
  PROVE  HoldInv'
<1>0. /\ TypeOK /\ FdInv /\ BootInv
      /\ StreamInv /\ ThreadInv /\ TakenInv /\ ListenInv /\ HeldInv
  BY Zenon DEF ProcInv, HoldInv
<1> USE DEF AtMain, Handled, Kill, handleVars, fdVars, listenVars, termVars, cliVars
<1>1. mpc = "handle" /\ mCmd = "Run"
  BY Zenon DEF Run
<1>2. CASE mpc' = "stop" /\ UNCHANGED <<encFd, fdt, epoll, lpc, lFd, backlog, tpc, tFd, tConn, cst>>
  BY Zenon, <1>0, <1>2, LoopHold
<1>3. ASSUME NEW z \in Fd, Lowest(z), fdt' = [fdt EXCEPT ![z] = EnclaveObj], encFd' = z, mpc' = "listen",
             UNCHANGED <<mFd, mWho, mCmd, epoll, lpc, lFd, backlog, tpc, tFd, tConn, cst>>
      PROVE  HoldInv'
  <2>1. /\ FewerStreams /\ fdt'[z] = EnclaveObj
        /\ \A f \in Fd : fdt[f] # Free => f # z /\ fdt'[f] = fdt[f]
    <3>1. fdt[z] = Free /\ \A c \in Conn : EnclaveObj # Stream(c)
      BY Zenon, <1>3, Objects DEF Lowest
    <3> QED
      BY Zenon, <1>0, <1>3, <3>1, OpenKept
  <2>2. \A c \in Conn : tpc[c] = "none"
    BY Zenon, <1>0, <1>1 DEF BootInv
  <2>3. SameClients
    BY Zenon, <1>3 DEF SameClients
  <2>4. StreamInv'
    BY Zenon, <1>0, <1>3, <2>1, <2>3, StreamKept
  <2>5. ThreadInv'
    BY Zenon, <1>3, <2>1, <2>2 DEF ThreadInv, Active
  <2>6. TakenInv'
    BY Zenon, <1>3, <2>2 DEF TakenInv
  <2>7. ListenInv'
    <3>1. \A f \in epoll : fdt'[f] = fdt[f]
      BY Zenon, <1>0, <2>1 DEF ListenInv, TypeOK
    <3>2. lpc = "recv" => fdt'[lFd] = fdt[lFd]
      <4>1. \A x \in Client \cup {Self} : Stream(x) # Free
        BY Zenon, Objects DEF Conn
      <4> QED
        BY Zenon, <1>0, <2>1, <4>1 DEF ListenInv, FdInv
    <3> QED
      BY Zenon, <1>0, <1>3, <3>1, <3>2, ListenKept
  <2>8. HeldInv' /\ StopInv'
    <3>1. mCmd \notin Inner /\ mpc \in AtConn
      BY Zenon, <1>1 DEF Inner, AtConn
    <3>2. mWho \in Conn /\ mFd \in Fd /\ fdt[mFd] = Stream(mWho) /\ mFd \notin epoll /\ (lpc = "recv" => lFd # mFd)
      BY Zenon, <1>0, <3>1 DEF HeldInv, Holds
    <3>3. fdt'[mFd] = Stream(mWho)
      BY Zenon, <2>1, <3>2, Objects
    <3> QED
      BY Zenon, <1>3, <3>1, <3>2, <3>3 DEF HeldInv, StopInv
  <2> QED
    BY Zenon, <2>4, <2>5, <2>6, <2>7, <2>8 DEF HoldInv
<1> QED
  BY Zenon, <1>2, <1>3 DEF Run, Serving

(* Terminate starts the thread of the client whose connection is at hand.       *)
LEMMA TerminateHold ==
  ASSUME ProcInv, HoldInv, Serving', Terminate
  PROVE  HoldInv'
<1>0. /\ TypeOK /\ FdInv
      /\ StreamInv /\ ThreadInv /\ TakenInv /\ ListenInv /\ HeldInv
  BY Zenon DEF ProcInv, HoldInv
<1> USE DEF AtMain, Handled, Kill, handleVars, fdVars, listenVars, termVars, cliVars
<1>1. mpc = "handle" /\ mCmd = "Terminate" /\ mCmd \notin Inner /\ mpc \in AtConn
  BY Zenon DEF Terminate, Inner, AtConn
<1>2. CASE mpc' = "stop" /\ UNCHANGED <<encFd, fdt, epoll, lpc, lFd, backlog, tpc, tFd, tConn, cst>>
  BY Zenon, <1>0, <1>2, LoopHold
<1>3. ASSUME NEW z \in Fd, Lowest(z), fdt' = [fdt EXCEPT ![z] = Local(mWho)], epoll' = epoll \cup {z},
             tpc' = [tpc EXCEPT ![mWho] = "get"], tConn' = [tConn EXCEPT ![mWho] = mFd], mpc' = "status",
             UNCHANGED <<mFd, mWho, mCmd, encFd, lpc, lFd, backlog, tFd, cst>>
      PROVE  HoldInv'
  <2>1. /\ mWho \in Conn /\ mWho \in Owner /\ mFd \in Fd /\ fdt[mFd] = Stream(mWho)
        /\ mFd \notin epoll /\ (lpc = "recv" => lFd # mFd)
    BY Zenon, <1>0, <1>1 DEF HeldInv, Holds
  <2>2. /\ FewerStreams /\ fdt'[z] = Local(mWho)
        /\ \A f \in Fd : fdt[f] # Free => f # z /\ fdt'[f] = fdt[f]
    <3>1. fdt[z] = Free /\ \A c \in Conn : Local(mWho) # Stream(c)
      BY Zenon, <1>3, <2>1, Objects DEF Lowest
    <3> QED
      BY Zenon, <1>0, <1>3, <3>1, OpenKept
  <2>3. mFd # z /\ fdt'[mFd] = Stream(mWho)
    BY Zenon, <2>1, <2>2, Objects
  <2>4. tpc[mWho] = "none"
    BY Zenon, <1>0, <1>1, <2>1 DEF TakenInv
  <2>5. /\ tpc'[mWho] = "get" /\ \A c \in Conn \ {mWho} : tpc'[c] = tpc[c]
        /\ tConn'[mWho] = mFd /\ \A c \in Conn \ {mWho} : tConn'[c] = tConn[c]
    BY Zenon, <1>0, <1>3, <2>1 DEF TypeOK
  <2>6. SameClients
    BY Zenon, <1>3 DEF SameClients
  <2>7. StreamInv'
    BY Zenon, <1>0, <1>3, <2>2, <2>6, StreamKept
  <2>8. ThreadInv'
    <3>1. mWho \in Client
      BY Zenon, <2>1, ProcAssumption
    <3>2. cst[mWho] # "idle" /\ \A i \in DOMAIN backlog : backlog[i] # mWho
      BY Zenon, <1>0, <2>1, <3>1 DEF StreamInv
    <3>3. \A c \in Conn : tpc'[c] # "none" => c \in Owner /\ cst[c] # "idle"
      BY Zenon, <1>0, <2>1, <2>5, <3>2 DEF ThreadInv
    <3>4. \A c \in Conn, i \in DOMAIN backlog : tpc'[c] # "none" => backlog[i] # c
      BY Zenon, <1>0, <2>5, <3>2 DEF ThreadInv
    <3>5. \A c \in Conn : tpc'[c] \in Active => tConn'[c] \in Fd /\ fdt'[tConn'[c]] = Stream(c)
      <4> SUFFICES ASSUME NEW c \in Conn, tpc'[c] \in Active
          PROVE  tConn'[c] \in Fd /\ fdt'[tConn'[c]] = Stream(c)
        BY Zenon
      <4>1. CASE c = mWho
        BY Zenon, <2>1, <2>3, <2>5, <4>1
      <4>2. CASE c # mWho
        <5>1. tpc[c] \in Active /\ tConn'[c] = tConn[c]
          BY Zenon, <2>5, <4>2
        <5>2. tConn[c] \in Fd /\ fdt[tConn[c]] = Stream(c)
          BY Zenon, <1>0, <5>1 DEF ThreadInv
        <5>3. Stream(c) # Free
          BY Zenon, Objects
        <5> QED
          BY Zenon, <2>2, <5>1, <5>2, <5>3
      <4> QED
        BY Zenon, <4>1, <4>2
    <3>6. \A c \in Conn : tpc'[c] = "close" /\ tFd[c] # NoFd => fdt'[tFd[c]] = EnclaveObj
      <4> SUFFICES ASSUME NEW c \in Conn, tpc'[c] = "close", tFd[c] # NoFd
          PROVE  fdt'[tFd[c]] = EnclaveObj
        BY Zenon
      <4>1. tpc[c] = "close" /\ tFd[c] \in Fd
        BY Zenon, <1>0, <2>5 DEF TypeOK
      <4>2. fdt[tFd[c]] = EnclaveObj
        BY Zenon, <1>0, <4>1 DEF ThreadInv
      <4>3. EnclaveObj # Free
        BY Zenon, Objects
      <4> QED
        BY Zenon, <2>2, <4>1, <4>2, <4>3
    <3>7. encFd # NoFd /\ (\A c \in Conn : tpc'[c] \in {"none", "get", "close"}) => fdt'[encFd] = EnclaveObj
      <4>1. (\A c \in Conn : tpc'[c] \in {"none", "get", "close"})
              => \A c \in Conn : tpc[c] \in {"none", "get", "close"}
        BY Zenon, <2>4, <2>5
      <4>2. encFd # NoFd => encFd \in Fd
        BY Zenon, <1>0 DEF TypeOK
      <4> QED
        BY Zenon, <1>0, <2>2, <4>1, <4>2, Objects DEF ThreadInv
    <3> QED
      BY Zenon, <1>3, <3>3, <3>4, <3>5, <3>6, <3>7 DEF ThreadInv
  <2>9. TakenInv'
    <3> SUFFICES ASSUME NEW c \in Conn, NEW f \in Fd, tpc'[c] # "none", fdt'[f] = Stream(c)
        PROVE  f \notin epoll' /\ (lpc = "recv" => f # lFd)
      BY Zenon, <1>1, <1>3 DEF TakenInv
    <3>1. fdt[f] = Stream(c) /\ f # z
      BY Zenon, <2>2, Objects DEF FewerStreams
    <3>2. CASE c = mWho
      <4>1. f = mFd
        BY Zenon, <1>0, <2>1, <3>1, <3>2 DEF StreamInv
      <4> QED
        BY Zenon, <1>3, <2>1, <2>3, <4>1
    <3>3. CASE c # mWho
      <4>1. f \notin epoll /\ (lpc = "recv" => f # lFd)
        BY Zenon, <1>0, <2>5, <3>1, <3>3 DEF TakenInv
      <4> QED
        BY Zenon, <1>3, <3>1, <4>1
    <3> QED
      BY Zenon, <3>2, <3>3
  <2>10. ListenInv'
    <3>1. \A x \in Client \cup {Self} : Stream(x) # Free
      BY Zenon, Objects DEF Conn
    <3>2. lpc = "recv" => lFd # z /\ lFd \notin epoll /\ \E x \in Client \cup {Self} : fdt'[lFd] = Stream(x)
      BY Zenon, <1>0, <2>2, <3>1 DEF ListenInv, FdInv
    <3>3. \A f \in epoll : fdt'[f] # Free
      BY Zenon, <1>0, <2>2 DEF ListenInv, TypeOK
    <3>4. fdt'[z] # Free
      BY Zenon, <2>1, <2>2, Objects
    <3> QED
      BY Zenon, <1>3, <3>2, <3>3, <3>4 DEF ListenInv
  <2>11. HeldInv' /\ StopInv'
    BY Zenon, <1>1, <1>3, <2>1, <2>3 DEF HeldInv, StopInv
  <2> QED
    BY Zenon, <2>7, <2>8, <2>9, <2>10, <2>11 DEF HoldInv
<1> QED
  BY Zenon, <1>2, <1>3 DEF Terminate, Serving

(* stop() connects to the listener and sends it the command.                    *)
LEMMA StopHold ==
  ASSUME ProcInv, HoldInv, ConnectSelf \/ SendStop
  PROVE  HoldInv'
<1>0. /\ TypeOK /\ FdInv
      /\ StreamInv /\ ThreadInv /\ TakenInv /\ ListenInv /\ HeldInv /\ StopInv
  BY Zenon DEF ProcInv, HoldInv
<1> USE DEF AtMain, handleVars, fdVars, listenVars, termVars, cliVars
<1>1. CASE ConnectSelf
  <2>1. PICK z \in Fd : Lowest(z) /\ fdt' = [fdt EXCEPT ![z] = SelfEnd]
    BY Zenon, <1>1 DEF ConnectSelf
  <2>2. /\ mpc' = "sendStop" /\ backlog' = Append(backlog, Self)
        /\ UNCHANGED <<encFd, epoll, lpc, lFd, tpc, tFd, tConn, cst>>
    BY Zenon, <1>1 DEF ConnectSelf
  <2>3. FewerStreams /\ \A f \in Fd : fdt[f] # Free => fdt'[f] = fdt[f]
    <3>1. fdt[z] = Free /\ \A c \in Conn : SelfEnd # Stream(c)
      BY Zenon, <2>1, Objects DEF Lowest
    <3> QED
      BY Zenon, <1>0, <2>1, <3>1, OpenKept
  <2>4. StreamInv' /\ ThreadInv' /\ \E i \in DOMAIN backlog' : backlog'[i] = Self
    <3>1. Self \in Client \cup {Self} /\ Self \notin Client
      BY Zenon, ProcAssumption DEF Conn
    <3>2. \A c \in Conn : cst'[c] = "idle" => cst[c] = "idle" /\ c # Self
      BY Zenon, <2>2, ProcAssumption
    <3> QED
      BY Zenon, <1>0, <2>2, <2>3, <3>1, <3>2, BacklogHold
  <2>5. TakenInv'
    BY Zenon, <1>0, <2>2, <2>3, TakenKept
  <2>6. ListenInv'
    <3>1. \A f \in epoll : fdt'[f] = fdt[f]
      BY Zenon, <1>0, <2>3 DEF ListenInv, TypeOK
    <3>2. lpc = "recv" => fdt'[lFd] = fdt[lFd]
      <4>1. \A x \in Client \cup {Self} : Stream(x) # Free
        BY Zenon, Objects DEF Conn
      <4> QED
        BY Zenon, <1>0, <2>3, <4>1 DEF ListenInv, FdInv
    <3> QED
      BY Zenon, <1>0, <2>2, <3>1, <3>2, ListenKept
  <2>7. HeldInv' /\ StopInv'
    BY Zenon, <2>2, <2>4 DEF HeldInv, Holds, AtConn, StopInv
  <2> QED
    BY Zenon, <2>4, <2>5, <2>6, <2>7 DEF HoldInv
<1>2. CASE SendStop
  <2>1. /\ mpc = "sendStop" /\ mpc' = "joinL"
        /\ UNCHANGED <<encFd, fdt, epoll, lpc, lFd, backlog, tpc, tFd, tConn, cst>>
    BY Zenon, <1>2 DEF SendStop
  <2>2. FewerStreams /\ SameClients
    BY Zenon, <2>1 DEF FewerStreams, SameClients
  <2>3. StreamInv' /\ ThreadInv'
    BY Zenon, <1>0, <2>1, <2>2, StreamKept, ThreadKept
  <2>4. TakenInv'
    BY Zenon, <1>0, <2>1, <2>2, TakenKept
  <2>5. ListenInv'
    BY Zenon, <1>0, <2>1, ListenKept
  <2>6. HeldInv'
    BY Zenon, <2>1 DEF HeldInv, Holds, AtConn
  <2>7. StopInv'
    BY Zenon, <1>0, <2>1, StopKept
  <2> QED
    BY Zenon, <2>3, <2>4, <2>5, <2>6, <2>7 DEF HoldInv
<1> QED
  BY Zenon, <1>1, <1>2

(* The main thread drops its connection; a terminate thread that still has it   *)
(* keeps it open.                                                               *)
LEMMA StatusHold ==
  ASSUME ProcInv, HoldInv, Serving, Serving', WriteStatus
  PROVE  HoldInv'
<1>0. /\ TypeOK /\ StreamInv /\ ThreadInv /\ TakenInv /\ ListenInv /\ HeldInv
  BY Zenon DEF ProcInv, HoldInv
<1> USE DEF AtMain, handleVars, fdVars, listenVars, termVars, cliVars
<1>1. mpc = "status" /\ ~mDone /\ mCmd \notin Inner /\ mpc \in AtConn
  BY Zenon, <1>0 DEF WriteStatus, Serving, HeldInv, AtConn
<1>2. /\ mpc' = "loop" /\ UNCHANGED <<encFd, lpc, lFd, backlog, tpc, tFd, tConn, cst>>
      /\ (KeepsConn /\ UNCHANGED <<fdt, epoll>>) \/ (~KeepsConn /\ CloseFd(mFd))
  BY Zenon, <1>1 DEF WriteStatus, DropConnection, Serving, Kill
<1>3. CASE UNCHANGED <<fdt, epoll>>
  BY Zenon, <1>0, <1>2, <1>3, LoopHold
<1>4. CASE ~KeepsConn /\ CloseFd(mFd)
  <2>1. /\ mWho \in Conn /\ mFd \in Fd /\ fdt[mFd] = Stream(mWho)
        /\ mFd \notin epoll /\ (lpc = "recv" => lFd # mFd)
    BY Zenon, <1>0, <1>1 DEF HeldInv, Holds
  <2>2. /\ fdt'[mFd] = Free /\ (\A f \in Fd \ {mFd} : fdt'[f] = fdt[f])
        /\ epoll' \subseteq epoll /\ mFd \notin epoll'
    BY Zenon, <1>0, <1>4, <2>1 DEF CloseFd, TypeOK
  <2>3. FewerStreams /\ SameClients
    BY Zenon, <1>2, <2>2, Objects DEF FewerStreams, SameClients
  <2>4. StreamInv'
    BY Zenon, <1>0, <1>2, <2>3, StreamKept
  <2>5. ThreadInv'
    <3>1. tpc[mWho] \notin Active
      <4>1. tpc[mWho] # "none" => mCmd = "Terminate"
        BY Zenon, <1>0, <1>1, <2>1 DEF TakenInv
      <4> QED
        BY Zenon, <1>1, <1>4, <4>1 DEF KeepsConn, Active
    <3>2. \A f \in Fd, c \in Conn : tpc[c] \in Active /\ fdt[f] = Stream(c) => fdt'[f] = Stream(c)
      BY Zenon, <2>1, <2>2, <3>1, StreamsDiffer
    <3>3. \A f \in Fd : fdt[f] = EnclaveObj => fdt'[f] = EnclaveObj
      BY Zenon, <2>1, <2>2, Objects
    <3> QED
      BY Zenon, <1>0, <1>2, <2>3, <3>2, <3>3, ThreadKept
  <2>6. TakenInv'
    BY Zenon, <1>0, <1>2, <2>2, <2>3, TakenKept
  <2>7. ListenInv'
    <3>1. \A f \in epoll' : fdt'[f] = fdt[f]
      BY Zenon, <1>0, <2>2 DEF TypeOK
    <3>2. lpc = "recv" => fdt'[lFd] = fdt[lFd]
      BY Zenon, <2>1, <2>2 DEF ProcInv, FdInv
    <3> QED
      BY Zenon, <1>0, <1>2, <2>2, <3>1, <3>2, ListenKept
  <2>8. HeldInv' /\ StopInv'
    BY Zenon, <1>2 DEF HeldInv, Holds, AtConn, StopInv
  <2> QED
    BY Zenon, <2>4, <2>5, <2>6, <2>7, <2>8 DEF HoldInv
<1> QED
  BY Zenon, <1>2, <1>3, <1>4

(* The main thread stops the listener when it has left its loop.                *)
DoneInv == mpc \in {"stop", "sendStop", "joinL", "joinT"} => mDone

(* Once the process has left its loop it does not serve again.                  *)
LEMMA NextServing ==
  ASSUME DoneInv, [Next]_vars
  PROVE  DoneInv' /\ (Serving' => Serving)
<1> USE DEF DoneInv, Serving, AtMain, Handled
<1>0. CASE UNCHANGED <<mpc, mDone>> /\ proc' \in {proc, "killed"}
  BY Zenon, <1>0
<1>1. CASE HandleCommStream \/ GetEnclaveDescriptor \/ EpollWait \/ TakeEvent
  BY Zenon, <1>1 DEF HandleCommStream, GetEnclaveDescriptor, EpollWait, TakeEvent
<1>2. CASE ReadCommand /\ ~Kill
  BY Zenon, <1>2 DEF ReadCommand
<1>3. CASE (Run \/ StartListener \/ RegisterEnclaveDescriptor) /\ ~Kill
  BY Zenon, <1>3 DEF Run, StartListener, RegisterEnclaveDescriptor
<1>4. CASE (Terminate \/ Query \/ Internal) /\ ~Kill
  BY Zenon, <1>4 DEF Terminate, Query, Internal
<1>5. CASE (ConnectSelf \/ SendStop \/ NoListener \/ StopFails) /\ ~Kill
  <2>1. /\ mpc \in {"stop", "sendStop"} /\ mpc' \in {"sendStop", "joinL", "joinT", "drop"}
        /\ UNCHANGED <<proc, mDone>>
    BY Zenon, <1>5 DEF ConnectSelf, SendStop, NoListener, StopFails
  <2> QED
    BY Zenon, <2>1
<1>6. CASE JoinListener \/ JoinTerminate
  BY Zenon, <1>6 DEF JoinListener, JoinTerminate
<1>7. CASE WriteStatus /\ ~Kill
  BY Zenon, <1>7 DEF WriteStatus
<1>8. CASE DropManager \/ DropSocket \/ ReturnAndExit
  BY Zenon, <1>8 DEF DropManager, DropSocket, ReturnAndExit, mainVars
<1>9. Kill => UNCHANGED <<mpc, mDone>> /\ proc' \in {proc, "killed"}
  BY Zenon DEF Kill, mainVars
<1>10. CASE Listener \/ SocketRemoved \/ HandleSignal \/ EnclaveHangsUp \/ SocketDeleted
  BY Zenon, <1>0, <1>9, <1>10 DEF Listener, Accept, HandleNewConnection, CloseListener, SocketRemoved,
     HandleSignal, EnclaveHangsUp, SocketDeleted, mainVars
<1>11. ASSUME NEW c \in Conn, TerminateThread(c) PROVE UNCHANGED <<mpc, mDone>> /\ proc' \in {proc, "killed"}
  BY Zenon, <1>9, <1>11 DEF TerminateThread, GetTerminationResources, ReleaseEnclaveDescriptor,
     ClearHandle, ReportTermination, SendTerminateComplete, EndThread, mainVars
<1>12. ASSUME NEW c, Connect(c) \/ Send(c) \/ Finish(c) \/ Die(c)
       PROVE  UNCHANGED <<mpc, mDone>> /\ proc' \in {proc, "killed"}
  BY Zenon, <1>12 DEF Connect, Send, Finish, Die, mainVars
<1>13. CASE Rest \/ UNCHANGED vars
  BY Zenon, <1>0, <1>13 DEF Rest, vars, mainVars
<1> QED
  BY Zenon, <1>0, <1>1, <1>2, <1>3, <1>4, <1>5, <1>6, <1>7, <1>8, <1>9, <1>10, <1>11, <1>12, <1>13
     DEF Next, Main

(* Signals, the enclave and the clients that are connected change none of it.   *)
LEMMA WorldHold ==
  ASSUME ProcInv, HoldInv, Serving',
         \/ SocketRemoved \/ HandleSignal \/ EnclaveHangsUp \/ SocketDeleted \/ Rest \/ UNCHANGED vars
         \/ \E c \in Conn : Send(c) \/ Finish(c) \/ Die(c)
  PROVE  HoldInv'
<1>0. TypeOK
  BY Zenon DEF ProcInv
<1> USE DEF mainVars, handleVars, fdVars, listenVars, termVars, cliVars
<1>1. UNCHANGED <<mpc, mEnc, mFd, mWho, mCmd, encFd, fdt, epoll, lpc, lFd, backlog, tpc, tFd, tConn>>
  <2>1. CASE SocketRemoved \/ HandleSignal \/ EnclaveHangsUp \/ SocketDeleted
    BY Zenon, <2>1 DEF SocketRemoved, HandleSignal, EnclaveHangsUp, SocketDeleted, Kill, Serving
  <2>2. CASE Rest \/ UNCHANGED vars
    BY Zenon, <2>2 DEF Rest, vars
  <2>3. CASE \E c \in Conn : Send(c) \/ Finish(c) \/ Die(c)
    BY Zenon, <2>3 DEF Send, Finish, Die
  <2> QED
    BY Zenon, <2>1, <2>2, <2>3
<1>2. SameClients
  <2>1. CASE SocketRemoved \/ HandleSignal \/ EnclaveHangsUp \/ SocketDeleted
    <3>1. UNCHANGED cst
      BY Zenon, <2>1 DEF SocketRemoved, HandleSignal, EnclaveHangsUp, SocketDeleted, Kill
    <3> QED
      BY Zenon, <3>1 DEF SameClients
  <2>2. CASE Rest \/ UNCHANGED vars
    <3>1. UNCHANGED cst
      BY Zenon, <2>2 DEF Rest, vars
    <3> QED
      BY Zenon, <3>1 DEF SameClients
  <2>3. ASSUME NEW c \in Conn, Send(c) \/ Finish(c) \/ Die(c) PROVE SameClients
    <3>1. cst' = cst \/ cst' = [cst EXCEPT ![c] = "done"] \/ cst' = [cst EXCEPT ![c] = "dead"]
      BY Zenon, <2>3 DEF Send, Finish, Die
    <3>2. cst \in [Conn -> {"idle", "open", "dead", "done"}]
      BY Zenon, <1>0 DEF TypeOK
    <3> QED
      BY <3>1, <3>2 DEF SameClients
  <2> QED
    BY Zenon, <2>1, <2>2, <2>3
<1> QED
  BY Zenon, <1>0, <1>1, <1>2, UndisturbedHold

(* With one owner, every step keeps everyone's descriptors their own.           *)
LEMMA NextHold ==
  ASSUME ProcInv, HoldInv, Serving, Serving', OneOwner, [Next]_vars
  PROVE  HoldInv'
<1>1. ~(NoListener \/ StopFails \/ JoinListener \/ JoinTerminate \/ DropManager \/ DropSocket \/ ReturnAndExit)
  BY Zenon DEF NoListener, StopFails, JoinListener, JoinTerminate, DropManager, DropSocket, ReturnAndExit,
     AtMain, Serving, Kill
<1>2. CASE Main
  BY Zenon, <1>1, <1>2, EventHold, HandleHold, RunHold, TerminateHold, StopHold, StatusHold DEF Main
<1>3. CASE Listener
  BY Zenon, <1>3, AcceptHold, ReceiveHold, CloseHold DEF Listener
<1>4. CASE \E c \in Conn : TerminateThread(c)
  BY Zenon, <1>4, ThreadHold
<1>5. CASE \E c \in Client : Connect(c)
  BY Zenon, <1>5, ConnectHold
<1> QED
  BY Zenon, <1>2, <1>3, <1>4, <1>5, WorldHold DEF Next

(* While stop() waits for the listener thread, its ConnectionListenerStop is on *)
(* the way, under every fault and with any number of clients and descriptors,   *)
(* when one client at most may terminate the enclave. A second terminate thread *)
(* may close the stream behind the listener's back (ReleaseEnclaveDescriptor).  *)
THEOREM StopIsHeard == OneOwner => (Spec => []StopReachesListener)
<1> SUFFICES ASSUME OneOwner PROVE Spec => []StopReachesListener
  OBVIOUS
<1> DEFINE Heard == DoneInv /\ (Serving => HoldInv)
<1>1. Init => Heard
  <2> SUFFICES ASSUME Init PROVE DoneInv /\ HoldInv
    BY Zenon
  <2>1. /\ mpc = "start" /\ lpc = "none" /\ encFd = NoFd /\ backlog = <<>> /\ epoll = {2}
        /\ \A c \in Conn : tpc[c] = "none"
    BY DEF Init
  <2>2. 1 \in Fd /\ 2 \in Fd /\ fdt[1] = Stream(Launcher) /\ fdt[2] = SigObj
    BY ProcAssumption DEF Init, Fd
  <2>3. \A f \in Fd : fdt[f] \in {Stream(Launcher), SigObj, Free} /\ (fdt[f] = Stream(Launcher) => f = 1)
    <3>1. Stream(Launcher) # SigObj /\ Stream(Launcher) # Free
      BY Zenon, Objects DEF Conn
    <3> QED
      BY <3>1 DEF Init
  <2>4. \A f \in Fd, c \in Conn : fdt[f] = Stream(c) => f = 1 /\ c = Launcher
    <3>1. Launcher \in Conn
      BY DEF Conn
    <3> QED
      BY Zenon, <2>3, <3>1, Objects, StreamsDiffer
  <2>5. StreamInv
    <3>1. DOMAIN backlog = {}
      BY <2>1
    <3>2. \A f \in Fd, c \in Client : fdt[f] # Stream(c)
      BY Zenon, <2>4, ProcAssumption DEF Conn
    <3> QED
      BY Zenon, <2>4, <3>1, <3>2 DEF StreamInv
  <2>6. ThreadInv /\ TakenInv
    BY Zenon, <2>1 DEF ThreadInv, TakenInv, Active
  <2>7. ListenInv
    BY Zenon, <2>1, <2>2, Objects DEF ListenInv
  <2>8. HeldInv /\ StopInv /\ DoneInv
    BY Zenon, <2>1, <2>2 DEF HeldInv, StopInv, DoneInv, Holds, AtConn
  <2> QED
    BY Zenon, <2>5, <2>6, <2>7, <2>8 DEF HoldInv
<1>2. ProcInv /\ Heard /\ [Next]_vars => Heard'
  <2> SUFFICES ASSUME ProcInv, Heard, [Next]_vars PROVE Heard'
    OBVIOUS
  <2>1. DoneInv' /\ (Serving' => Serving)
    BY Zenon, NextServing
  <2> QED
    BY Zenon, <2>1, NextHold
<1>3. Heard => StopReachesListener
  BY Zenon DEF Serving, HoldInv, StopInv, StopReachesListener, AtMain
<1> QED
  BY <1>1, <1>2, <1>3, AlwaysProcInv, PTL DEF Spec

================================================================================
