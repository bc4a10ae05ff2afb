------------------------------- MODULE VsockProxy -------------------------------
(***************************************************************************)
(* The vsock proxy (vsock_proxy/src): one main thread that checks the      *)
(* allowlist, listens and accepts, a cached DNS answer with its time to    *)
(* live, and a pool of workers, each of which carries the bytes of one     *)
(* connection in both directions with a single blocking loop.              *)
(*                                                                         *)
(* The k-th byte a side sends is the number k, so that what the other side *)
(* has received shows losses, repetitions and reordering.                  *)
(***************************************************************************)
EXTENDS Naturals, Sequences, FiniteSets, FiniteSetsExt

CONSTANTS
  Conn,        \* the connections clients may open
  NumWorkers,  \* values of --num_workers
  IpAddrType,  \* values of the address family flags: "v4", "v6", "mixed"
  Configs,     \* allowlists: sequences of [valid, address, port]
  Answers,     \* DNS answers: sequences of [ip, v4, ttl]; the empty one is a failure
  AliasAnswers,\* DNS answers for allowlisted names other than the remote host
  Host, Port,  \* the remote server, from the command line
  BuffSize,    \* BUFF_SIZE
  Window,      \* bytes a socket buffers for its reader
  MaxSend,     \* MaxSend[c][side]: bytes a side of connection c sends
  Leaving,     \* Leaving[c]: how its ends may leave: "half", "closed", "reset"
  MaxTime      \* bound on the clock

(* BUFF_SIZE is 8192.                                                           *)
ASSUME ProxyAssumption ==
  BuffSize \in Nat \ {0} /\ Leaving \in [Conn -> SUBSET {"half", "closed", "reset"}]

VARIABLES
  numWorkers, ipAddrType,   \* the command line
  pc,          \* the main thread
  matched,     \* the match check_allowlist logged: "none", "name", "ip"
  now,         \* Utc::now()
  cache,       \* dns_resolution_info
  stage,       \* each connection, and the worker that serves it
  link,        \* its sockets and the worker's local variables
  queue,       \* jobs given to the pool and not yet taken
  alive        \* threads of the pool

main == <<numWorkers, ipAddrType, pc, matched, now, cache>>
vars == <<main, stage, link, queue, alive>>

Side == {"client", "server"}
Peer(s) == IF s = "client" THEN "server" ELSE "client"
None == "none"
NoInfo == [ip |-> None, v4 |-> FALSE, ttl |-> 0, at |-> 0]

Serving == {"connect", "select", "read", "write"}
Over == {"done", "failed"}
Busy == {c \in Conn : stage[c] \in Serving}
Up == pc \notin {"refused", "down"}

(* open: each end is "open", "half" (shut down for writing), "closed" or        *)
(* "reset"; sent: bytes it has written; read: bytes of it the worker has read;  *)
(* got: bytes it has received, in order; taken: how many of these its           *)
(* application has read; addr, turn, ready, buf: the worker's address, the      *)
(* source of its current transfer, its FdSet and the unwritten part of its      *)
(* buffer. All of it is gone when the connection is over.                       *)
Blank ==
  [open |-> [s \in Side |-> "open"], sent |-> [s \in Side |-> 0], read |-> [s \in Side |-> 0],
   got |-> [s \in Side |-> <<>>], taken |-> [s \in Side |-> 0],
   addr |-> None, turn |-> "client", ready |-> {}, buf |-> <<>>]

Init ==
  /\ numWorkers \in NumWorkers /\ ipAddrType \in IpAddrType
  /\ pc = "args" /\ matched = None /\ now = 0 /\ cache = NoInfo
  /\ stage = [c \in Conn |-> "new"] /\ link = [c \in Conn |-> Blank]
  /\ queue = <<>> /\ alive = numWorkers

--------------------------------------------------------------------------------
(* Start: arguments, allowlist, listening socket *)

Goto(p) == pc' = p /\ UNCHANGED <<numWorkers, ipAddrType, now, cache, stage, link, queue, alive>>

CheckArgs ==
  /\ pc = "args"
  /\ Goto(IF numWorkers = 0 THEN "refused" ELSE "check")
  /\ UNCHANGED matched

(* dns::resolve: the records of the accepted family; none of them is an error.  *)
Resolve(answer, type) ==
  SelectSeq(answer, LAMBDA r : type = "mixed" \/ (type = "v4") = r.v4)

(* An allowlist port is an i64 cast to u16.                                     *)
SamePort(entry) == entry.port % 65536 = Port

NameMatch(entry) == entry.valid /\ SamePort(entry) /\ entry.address = Host

IpMatch(entry, ip, answer) ==
  /\ entry.valid /\ SamePort(entry) /\ entry.address # Host
  /\ \E r \in Range(Resolve(answer, ipAddrType)) : r.ip = ip

(* The entries are looked at up to the first malformed one or the first that    *)
(* names the host; only the latter ends in Ok.                                  *)
CheckAllowlist ==
  /\ pc = "check"
  /\ \E services \in Configs, answer \in Answers, alias \in AliasAnswers :
       LET remote == Resolve(answer, ipAddrType)
           ends   == {i \in DOMAIN services : ~services[i].valid \/ NameMatch(services[i])}
           last   == IF ends = {} THEN Len(services) ELSE Min(ends)
           byName == remote # <<>> /\ ends # {} /\ NameMatch(services[last])
           byIp   == /\ remote # <<>>
                     /\ \E i \in 1..last : IpMatch(services[i], remote[1].ip, alias)
       IN  /\ matched' = IF byName THEN "name" ELSE IF byIp THEN "ip" ELSE None
           /\ Goto(IF byName THEN "listen" ELSE "refused")

(* sock_listen; binding may fail.                                               *)
Listen ==
  /\ pc = "listen"
  /\ Goto("accept") \/ Goto("refused")
  /\ UNCHANGED matched

--------------------------------------------------------------------------------
(* sock_accept *)

(* A client connects; it may write before it is accepted.                       *)
ClientConnects(c) ==
  /\ pc \in {"accept", "resolve"} /\ stage[c] = "new"
  /\ stage' = [stage EXCEPT ![c] = "backlog"]
  /\ UNCHANGED <<main, link, queue, alive>>

(* DnsResolutionInfo::is_expired *)
IsExpired(info) == now > info.at + info.ttl

(* pool.execute *)
Execute(c, ip) ==
  /\ link' = [link EXCEPT ![c].addr = ip]
  /\ queue' = Append(queue, c)
  /\ stage' = [stage EXCEPT ![c] = "queued"]
  /\ UNCHANGED alive

Accept(c) ==
  /\ pc = "accept" /\ stage[c] = "backlog"
  /\ IF cache = NoInfo \/ IsExpired(cache)
     THEN /\ pc' = "resolve" /\ stage' = [stage EXCEPT ![c] = "accepted"]
          /\ UNCHANGED <<link, queue, alive>>
     ELSE Execute(c, cache.ip) /\ UNCHANGED pc
  /\ UNCHANGED <<numWorkers, ipAddrType, matched, now, cache>>

(* Every connection ends with the process.                                      *)
ProcessEnds ==
  /\ pc' = "down" /\ queue' = <<>>
  /\ stage' = [c \in Conn |-> IF stage[c] = "new" THEN "new" ELSE "failed"]
  /\ link' = [c \in Conn |-> Blank]
  /\ UNCHANGED <<numWorkers, ipAddrType, matched, now, cache, alive>>

(* accept fails, for example at the limit of open descriptors; main returns.    *)
AcceptFails == pc = "accept" /\ (\E c \in Conn : stage[c] = "backlog") /\ ProcessEnds

(* The answer is stored with the time of its arrival; without one sock_accept   *)
(* returns an error, and main with it.                                          *)
ResolveHost(c) ==
  /\ pc = "resolve" /\ stage[c] = "accepted"
  /\ \E answer \in Answers :
       LET records == Resolve(answer, ipAddrType)
           first   == records[1]
       IN  IF records = <<>>
           THEN ProcessEnds
           ELSE /\ cache' = [ip |-> first.ip, v4 |-> first.v4, ttl |-> first.ttl, at |-> now]
                /\ Execute(c, first.ip)
                /\ pc' = "accept"
                /\ UNCHANGED <<numWorkers, ipAddrType, matched, now>>

(* Time passes; it matters while connections are still to be accepted.          *)
Tick ==
  /\ pc \in {"accept", "resolve"} /\ now < MaxTime
  /\ \E c \in Conn : stage[c] \in {"new", "backlog", "accepted"}
  /\ now' = now + 1
  /\ UNCHANGED <<numWorkers, ipAddrType, pc, matched, cache, stage, link, queue, alive>>

--------------------------------------------------------------------------------
(* The pool and its workers *)

To(c, st) == stage' = [stage EXCEPT ![c] = st]

(* An idle thread of the pool takes the oldest job.                             *)
TakeJob(c) ==
  /\ Up /\ queue # <<>> /\ c = Head(queue) /\ Cardinality(Busy) < alive
  /\ queue' = Tail(queue) /\ To(c, "connect")
  /\ UNCHANGED <<main, link, alive>>

Connected(c) ==
  /\ stage[c] = "connect" /\ To(c, "select")
  /\ UNCHANGED <<main, link, queue, alive>>

(* Mutant: the pool does not replace a thread that panicked. *)
PanicLosesThread(c) ==
  /\ stage[c] = "connect" /\ To(c, "failed")
  /\ link' = [link EXCEPT ![c] = Blank]
  /\ alive' = alive - 1
  /\ UNCHANGED <<main, queue>>

(* No connection to the server: the thread panics, its sockets are closed and   *)
(* the pool starts another thread.                                              *)
ConnectPanics(c) ==
  /\ stage[c] = "connect" /\ To(c, "failed")
  /\ link' = [link EXCEPT ![c] = Blank]
  /\ UNCHANGED <<main, queue, alive>>

(* Mutant: the server's socket is left out of the set. *)
ClientReadable(l, s) == s = "client" /\ (l.read[s] < l.sent[s] \/ l.open[s] # "open")

(* Bytes or the end of the stream are waiting.                                  *)
Readable(l, s) == l.read[s] < l.sent[s] \/ l.open[s] # "open"

Select(c) ==
  LET set == {s \in Side : Readable(link[c], s)}
  IN  /\ stage[c] = "select" /\ set # {}
      /\ link' = [link EXCEPT ![c].ready = set,
                              ![c].turn = IF "client" \in set THEN "client" ELSE "server"]
      /\ To(c, "read")
      /\ UNCHANGED <<main, queue, alive>>

(* A transfer has returned. After the client the server has its turn, if it was *)
(* readable, and its result replaces the client's; then the loop ends or goes   *)
(* on by the last result. l is what the transfer left of the connection.        *)
EndTransfer(c, l, result) ==
  \/ /\ l.turn = "client" /\ "server" \in l.ready
     /\ link' = [link EXCEPT ![c] = [l EXCEPT !.turn = "server"]]
     /\ To(c, "read")
  \/ /\ ~(l.turn = "client" /\ "server" \in l.ready)
     /\ link' = [link EXCEPT ![c] = IF result THEN Blank ELSE l]
     /\ To(c, IF result THEN "done" ELSE "select")

(* Mutant: a chunk that does not fill the buffer is taken for the last one. *)
ShortChunk(l, n) == n < BuffSize

(* Mutant: only an error ends the connection. *)
ErrorOnly(l, n) == n = 0 /\ l.open[l.turn] = "reset"

(* A read of nothing is a disconnection, and so is an error.                    *)
EndOfStream(l, n) == n = 0

(* transfer, src.read: what is there, up to the size of the buffer              *)
ReadChunk(c) ==
  LET l == link[c]
      s == l.turn
      n == IF l.open[s] = "reset" THEN 0 ELSE Min({BuffSize, l.sent[s] - l.read[s]})
  IN  /\ stage[c] = "read"
      /\ IF EndOfStream(l, n)
         THEN EndTransfer(c, l, TRUE)
         ELSE /\ link' = [link EXCEPT ![c].buf = [k \in 1..n |-> l.read[s] + k],
                                      ![c].read[s] = @ + n]
              /\ To(c, "write")
      /\ UNCHANGED <<main, queue, alive>>

(* transfer, dst.write_all: byte by byte into the peer's buffer, waiting for    *)
(* room. A peer that closed loses the bytes, with or without an error.          *)
WriteByte(c) ==
  LET l == link[c]
      d == Peer(l.turn)
  IN  /\ stage[c] = "write" /\ l.buf # <<>>
      /\ \/ /\ l.open[d] \in {"open", "half"} /\ Len(l.got[d]) - l.taken[d] < Window
            /\ link' = [link EXCEPT ![c].got[d] = Append(@, Head(l.buf)), ![c].buf = Tail(@)]
            /\ UNCHANGED stage
         \/ /\ l.open[d] = "closed"
            /\ link' = [link EXCEPT ![c].buf = Tail(@)]
            /\ UNCHANGED stage
         \/ /\ l.open[d] \in {"closed", "reset"}
            /\ EndTransfer(c, [l EXCEPT !.buf = <<>>], TRUE)
      /\ UNCHANGED <<main, queue, alive>>

WriteReturns(c) ==
  /\ stage[c] = "write" /\ link[c].buf = <<>>
  /\ EndTransfer(c, link[c], FALSE)
  /\ UNCHANGED <<main, queue, alive>>

Worker(c) ==
  \/ TakeJob(c) \/ Connected(c) \/ ConnectPanics(c) \/ Select(c)
  \/ ReadChunk(c) \/ WriteByte(c) \/ WriteReturns(c)

--------------------------------------------------------------------------------
(* The two ends of a connection *)

(* A client may write and close from the moment it is connected, the server     *)
(* once the worker has connected to it.                                         *)
Present(c, s) ==
  \/ stage[c] \in {"select", "read", "write"}
  \/ s = "client" /\ stage[c] \in {"backlog", "accepted", "queued", "connect"}

Send(c, s) ==
  LET l == link[c]
  IN  /\ Present(c, s) /\ l.open[s] = "open"
      /\ l.sent[s] < MaxSend[c][s] /\ l.sent[s] - l.read[s] < Window
      /\ link' = [link EXCEPT ![c].sent[s] = @ + 1]
      /\ UNCHANGED <<main, stage, queue, alive>>

(* The application at one end reads.                                            *)
TakeByte(c, s) ==
  LET l == link[c]
  IN  /\ l.open[s] \in {"open", "half"} /\ l.taken[s] < Len(l.got[s])
      /\ link' = [link EXCEPT ![c].taken[s] = @ + 1]
      /\ UNCHANGED <<main, stage, queue, alive>>

Leave(c, s) ==
  /\ Present(c, s)
  /\ \E to \in Leaving[c] :
       /\ link[c].open[s] = "open" \/ (link[c].open[s] = "half" /\ to # "half")
       /\ link' = [link EXCEPT ![c].open[s] = to]
  /\ UNCHANGED <<main, stage, queue, alive>>

(* The process has ended, or the main thread waits in accept.                   *)
Rest == (~Up \/ (pc = "accept" /\ \A c \in Conn : stage[c] # "backlog")) /\ UNCHANGED vars

Next ==
  \/ CheckArgs \/ CheckAllowlist \/ Listen \/ AcceptFails \/ Tick \/ Rest
  \/ \E c \in Conn :
       \/ ClientConnects(c) \/ Accept(c) \/ ResolveHost(c) \/ Worker(c)
       \/ \E s \in Side : Send(c, s) \/ TakeByte(c, s) \/ Leave(c, s)

Spec == Init /\ [][Next]_vars

(* The main thread and the threads of the pool are scheduled; both applications *)
(* keep reading what they have received.                                        *)
FairSpec ==
  /\ Spec
  /\ WF_vars(CheckArgs \/ CheckAllowlist \/ Listen \/ \E c \in Conn : Accept(c) \/ ResolveHost(c))
  /\ WF_vars(\E c \in Conn : Worker(c))
  /\ WF_vars(\E c \in Conn, s \in Side : TakeByte(c, s))

--------------------------------------------------------------------------------
(* Properties *)

(* A side that shuts its own direction down while the other side stays has all  *)
(* its bytes delivered, in order, before the worker ends the connection: the    *)
(* flag that transfer returns, and that a second transfer may overwrite, never  *)
(* cuts the closing direction short. (The answer to it may be cut.)             *)
HalfClosedDelivered ==
  [][\A c \in Conn, s \in Side :
       /\ stage[c] # "done" /\ stage'[c] = "done"
       /\ link[c].open[s] = "half" /\ link[c].open[Peer(s)] = "open"
       => link[c].got[Peer(s)] = [k \in 1..link[c].sent[s] |-> k]]_vars

Gone(c) == \E s \in Side : link[c].open[s] # "open"

(* While both ends stay and read what they receive, no byte that one of them    *)
(* has sent stays undelivered: the single loop over both directions stalls      *)
(* neither.                                                                     *)
BothWays ==
  \A c \in Conn, s \in Side :
    []<>~(/\ stage[c] \in {"select", "read", "write"} /\ ~Gone(c)
          /\ Len(link[c].got[Peer(s)]) < link[c].sent[s])

(* Once either end has gone the worker is given back to the pool.               *)
WorkerReturns == \A c \in Conn : []<>~(stage[c] \in Serving /\ Gone(c))

(* No accepted connection waits for ever while the pool has a worker to spare,  *)
(* whatever happened to the workers before.                                     *)
NoIdleWait ==
  \A c \in Conn : []<>~(stage[c] = "queued" /\ Cardinality(Busy) < numWorkers)

(* An allowlist entry that matched by address lets the proxy start.             *)
IpMatchAllows == ~(matched = "ip" /\ pc = "refused")

================================================================================
