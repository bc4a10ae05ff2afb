--------------------------- MODULE CliBroadcastProofs ---------------------------
(***************************************************************************)
(* Proofs about CliBroadcast, for any number of enclave processes and CLI  *)
(* instances, and any of them belonging to other users.                    *)
(***************************************************************************)
EXTENDS CliBroadcast, FiniteSetTheorems, TLAPS

(* What the other end of each connection may be.                                *)
Streams == [Cli -> [Proc -> {"none", "open", "queued", "confirmed", "answered", "unanswered", "eof"}]]

BroadcastTypeOK ==
  /\ denied \subseteq Proc
  /\ proc \in [Proc -> {"none", "bound", "listening", "up", "gone"}] /\ file \in [Proc -> BOOLEAN]
  /\ pc \in [Cli -> {"idle", "connect", "send", "wait", "remove", "read", "exit"}]
  /\ code \in [Cli -> {"none", "ok", "error"}]
  /\ present \in [Cli -> SUBSET Proc] /\ todo \in [Cli -> SUBSET Proc] /\ bad \in [Cli -> SUBSET Proc]
  /\ conns \in [Cli -> SUBSET Proc] /\ replies \in [Cli -> SUBSET Proc] /\ listed \in [Cli -> SUBSET Proc]
  /\ expected \in [Cli -> Nat]
  /\ srv \in Streams

(* Why describe-enclaves may leave a process out; none of it is undone once the *)
(* process has been up.                                                         *)
OutOfReach(p) == ~file[p] \/ proc[p] = "gone" \/ p \in denied

(* Every process that was up is accounted for at each stage of describe-        *)
(* enclaves: still to be tried, connected to, or out of reach ...               *)
DescribeInv(c) ==
  /\ pc[c] # "remove"
  /\ replies[c] \subseteq conns[c]
  /\ \A p \in Proc : srv[c][p] # "none" => p \in conns[c]
  /\ \A p \in present[c] :
       /\ pc[c] = "connect" => p \in todo[c] \cup conns[c] \/ OutOfReach(p)
       /\ pc[c] \in {"send", "wait", "read"} => p \in conns[c] \/ OutOfReach(p)
       /\ code[c] = "ok" => p \in listed[c] \/ OutOfReach(p)

(* ... and of terminate-enclave --all: still to be tried, being sent the        *)
(* command, to be read from, or counted as failed.                              *)
TerminateInv(c) ==
  /\ pc[c] \notin {"send", "wait"}
  /\ \A p, q \in conns[c] : p = q
  /\ \A p \in conns[c] : srv[c][p] = "open" \/ proc[p] = "gone"
  /\ \A p \in present[c] :
       /\ pc[c] = "connect" => p \in todo[c] \cup conns[c] \cup replies[c] \cup bad[c]
       /\ pc[c] \in {"remove", "read"} => p \in replies[c] \/ expected[c] > 0
       /\ code[c] = "ok" => p \in listed[c]

CliInv(c) ==
  /\ pc[c] = "idle" => bad[c] = {}
  /\ code[c] # "none" => pc[c] = "exit"
  /\ \A p \in present[c] : proc[p] \in {"up", "gone"}
  /\ \A p \in bad[c] \cap present[c] :
       proc[p] = "gone" \/ ~file[p] \/ (c \in TerminateAll /\ p \in denied)
  /\ c \in Describe => DescribeInv(c)
  /\ c \in TerminateAll => TerminateInv(c)

BroadcastInv == BroadcastTypeOK /\ \A c \in Cli : CliInv(c)

--------------------------------------------------------------------------------
(* What all processes and instances may do to a process: one that was up stays  *)
(* up or is gone for good, and its socket does not come back.                   *)
Onward ==
  /\ denied' = denied
  /\ \A p \in Proc : proc[p] \in {"up", "gone"} => proc'[p] \in {"up", "gone"} /\ (~file[p] => ~file'[p])
  /\ \A p \in Proc : proc[p] = "gone" => proc'[p] = "gone"

(* What the others may do to an instance: they answer on its connections or     *)
(* close them.                                                                  *)
Still(c) ==
  /\ pc'[c] = pc[c] /\ present'[c] = present[c] /\ todo'[c] = todo[c] /\ bad'[c] = bad[c]
  /\ conns'[c] = conns[c] /\ expected'[c] = expected[c] /\ replies'[c] = replies[c]
  /\ listed'[c] = listed[c] /\ code'[c] = code[c]
  /\ \A p \in Proc : srv'[c][p] # "none" => srv[c][p] # "none"
  /\ c \in TerminateAll => \A p \in Proc : srv[c][p] = "open" => srv'[c][p] = "open" \/ proc'[p] = "gone"

(* An instance that only others act upon keeps its invariant.                   *)
LEMMA StillInv ==
  ASSUME NEW c \in Cli, BroadcastTypeOK, CliInv(c), Onward, Still(c)
  PROVE  CliInv(c)'
<1>1. present[c] \subseteq Proc /\ bad[c] \subseteq Proc /\ conns[c] \subseteq Proc
  BY DEF BroadcastTypeOK
<1>2. \A p \in present[c] : proc[p] \in {"up", "gone"}
  BY DEF CliInv
<1>3. \A p \in present[c] : proc'[p] \in {"up", "gone"} /\ (~file[p] => ~file'[p])
  BY <1>1, <1>2 DEF Onward
<1>4. \A p \in Proc : proc[p] = "gone" => proc'[p] = "gone"
  BY DEF Onward
<1>5. \A p \in present[c] : OutOfReach(p) => OutOfReach(p)'
  BY <1>1, <1>3, <1>4 DEF OutOfReach, Onward
<1>6. c \in Describe => DescribeInv(c)'
  BY <1>5 DEF CliInv, DescribeInv, Still
<1>7. c \in TerminateAll => TerminateInv(c)'
  BY <1>1, <1>4 DEF CliInv, TerminateInv, Still
<1>8. \A p \in bad[c] \cap present[c] :
        proc'[p] = "gone" \/ ~file'[p] \/ (c \in TerminateAll /\ p \in denied')
  BY <1>1, <1>3, <1>4 DEF CliInv, Onward
<1> QED
  BY <1>3, <1>6, <1>7, <1>8 DEF CliInv, Still

(* Closing the streams of a process, which is gone then, hurts no instance.     *)
LEMMA ClosedStill ==
  ASSUME NEW c \in Cli, NEW p \in Proc, BroadcastTypeOK, srv' = Closed(p), UNCHANGED cliVars,
         proc' = [proc EXCEPT ![p] = "gone"]
  PROVE  Still(c)
<1>1. /\ srv'[c] \in [Proc -> {"none", "open", "queued", "confirmed", "answered", "unanswered", "eof"}]
      /\ \A q \in Proc \ {p} : srv'[c][q] = srv[c][q]
      /\ srv[c][p] = "none" => srv'[c][p] = "none"
  BY DEF BroadcastTypeOK, Closed, Streams
<1>2. proc'[p] = "gone"
  BY DEF BroadcastTypeOK
<1> QED
  BY <1>1, <1>2 DEF Still, cliVars

(* A process disturbs no instance.                                              *)
LEMMA ProcessStill ==
  ASSUME BroadcastTypeOK, NEW p \in Proc, Process(p)
  PROVE  Onward /\ \A c \in Cli : Still(c)
<1>0. /\ proc \in [Proc -> {"none", "bound", "listening", "up", "gone"}] /\ file \in [Proc -> BOOLEAN]
      /\ srv \in [Cli -> [Proc -> {"none", "open", "queued", "confirmed", "answered", "unanswered", "eof"}]]
  BY DEF BroadcastTypeOK, Streams
<1>1. CASE Bind(p) \/ Listen(p) \/ DeleteSocket(p)
  <2>1. UNCHANGED <<denied, srv, cliVars>>
    BY <1>1 DEF Bind, Listen, DeleteSocket
  <2>2. \A c \in Cli : Still(c)
    BY <2>1 DEF Still, cliVars
  <2>3. Onward
    BY <1>0, <1>1 DEF Bind, Listen, DeleteSocket, Move, Onward
  <2> QED
    BY <2>2, <2>3
<1>2. CASE StartMonitoring(p) \/ SocketRemoved(p) \/ EndProcess(p)
  <2>1. denied' = denied /\ UNCHANGED cliVars
    BY <1>2 DEF StartMonitoring, SocketRemoved, EndProcess
  <2>2. Onward
    BY <1>0, <1>2 DEF StartMonitoring, SocketRemoved, EndProcess, Move, Onward
  <2>3. \/ UNCHANGED srv
        \/ srv' = Closed(p) /\ proc' = [proc EXCEPT ![p] = "gone"]
    BY <1>2 DEF StartMonitoring, SocketRemoved, EndProcess, Move
  <2>4. CASE UNCHANGED srv
    BY <2>1, <2>2, <2>4 DEF Still, cliVars
  <2> QED
    BY <2>1, <2>2, <2>3, <2>4, ClosedStill
<1>3. ASSUME NEW d \in Cli, Confirm(p, d) \/ Answer(p, d) PROVE Onward /\ \A c \in Cli : Still(c)
  <2>1. UNCHANGED <<denied, proc, file, cliVars>>
    BY <1>3 DEF Confirm, Answer
  <2>2. srv[d][p] \in {"queued", "confirmed"}
    BY <1>3 DEF Confirm, Answer
  <2>3. /\ \A c \in Cli, q \in Proc : <<c, q>> # <<d, p>> => srv'[c][q] = srv[c][q]
    BY <1>0, <1>3 DEF Confirm, Answer
  <2>4. Onward
    BY <2>1 DEF Onward
  <2>5. \A c \in Cli : Still(c)
    BY <2>1, <2>2, <2>3 DEF Still, cliVars
  <2> QED
    BY <2>4, <2>5
<1> QED
  BY <1>1, <1>2, <1>3 DEF Process

--------------------------------------------------------------------------------
(* Setting one stream leaves streams.                                           *)
LEMMA SetStream ==
  ASSUME BroadcastTypeOK, NEW c \in Cli, NEW p \in Proc,
         NEW s \in {"none", "open", "queued", "confirmed", "answered", "unanswered", "eof"},
         srv' = [srv EXCEPT ![c][p] = s]
  PROVE  srv' \in Streams
  BY DEF BroadcastTypeOK, Streams

(* The types are kept by every step.                                            *)
LEMMA NextBroadcastTypeOK == BroadcastTypeOK /\ [Next]_vars => BroadcastTypeOK'
<1> SUFFICES ASSUME BroadcastTypeOK, [Next]_vars PROVE BroadcastTypeOK'
  OBVIOUS
<1>1. CASE UNCHANGED vars
  BY <1>1 DEF BroadcastTypeOK, vars, cliVars
<1>2. ASSUME NEW p \in Proc, Process(p) PROVE BroadcastTypeOK'
  <2>1. UNCHANGED <<denied, cliVars>>
    BY <1>2 DEF Process, Bind, Listen, StartMonitoring, DeleteSocket, SocketRemoved, EndProcess, Confirm, Answer
  <2>2. /\ proc' \in [Proc -> {"none", "bound", "listening", "up", "gone"}]
        /\ file' \in [Proc -> BOOLEAN]
    BY Zenon, <1>2 DEF Process, Bind, Listen, StartMonitoring, DeleteSocket, SocketRemoved, EndProcess, Confirm,
                Answer, Move, BroadcastTypeOK
  <2>3. Closed(p) \in Streams
    BY DEF BroadcastTypeOK, Closed, Streams
  <2>4. srv' \in Streams
    <3>1. ASSUME NEW c \in Cli, Confirm(p, c) \/ Answer(p, c) PROVE srv' \in Streams
      <4>1. \E s \in {"confirmed", "eof", "answered", "unanswered"} : srv' = [srv EXCEPT ![c][p] = s]
        BY <3>1, Zenon DEF Confirm, Answer
      <4> QED
        BY Zenon, <4>1, SetStream
    <3> QED
      BY <1>2, <2>3, <3>1 DEF Process, Bind, Listen, StartMonitoring, DeleteSocket, SocketRemoved, EndProcess,
                              BroadcastTypeOK
  <2> QED
    BY <2>1, <2>2, <2>4 DEF BroadcastTypeOK, cliVars
<1>3. ASSUME NEW c \in Cli, ReadDir(c) \/ Instance(c) PROVE BroadcastTypeOK'
  <2>1. CASE ReadDir(c)
    BY <2>1 DEF BroadcastTypeOK, ReadDir, Goto
  <2>2. CASE StartSending(c) \/ StartReading(c)
    <3>1. pc' \in [Cli -> {"idle", "connect", "send", "wait", "remove", "read", "exit"}]
      BY <2>2 DEF BroadcastTypeOK, StartSending, StartReading, Goto
    <3>2. todo' \in [Cli -> SUBSET Proc]
      BY <2>2 DEF BroadcastTypeOK, StartSending, StartReading
    <3> QED
      BY <2>2, <3>1, <3>2 DEF BroadcastTypeOK, StartSending, StartReading
  <2>3. CASE TimeOut(c)
    BY <2>3 DEF BroadcastTypeOK, TimeOut
  <2>4. CASE StartRemoving(c)
    <3>1. Cardinality(bad[c]) \in Nat
      BY BroadcastAssumption, FS_Subset, FS_CardinalityType DEF BroadcastTypeOK
    <3> QED
      BY <2>4, <3>1 DEF BroadcastTypeOK, StartRemoving, Goto
  <2>5. CASE Exit(c)
    <3>1. code' \in [Cli -> {"none", "ok", "error"}]
      BY <2>5 DEF BroadcastTypeOK, Exit
    <3>2. srv' \in Streams
      BY <2>5 DEF BroadcastTypeOK, Exit, Streams
    <3> QED
      BY <2>5, <3>1, <3>2 DEF BroadcastTypeOK, Exit, Goto
  <2>6. ASSUME NEW p \in Proc, Connect(c, p) PROVE BroadcastTypeOK'
    <3>1. srv' \in Streams
      <4>1. srv' = srv \/ \E s \in {"open"} : srv' = [srv EXCEPT ![c][p] = s]
        BY <2>6, Zenon DEF Connect
      <4> QED
        BY Zenon, <4>1, SetStream DEF BroadcastTypeOK
    <3>2. todo' \in [Cli -> SUBSET Proc] /\ conns' \in [Cli -> SUBSET Proc] /\ bad' \in [Cli -> SUBSET Proc]
      BY <2>6 DEF BroadcastTypeOK, Connect
    <3> QED
      BY <2>6, <3>1, <3>2 DEF BroadcastTypeOK, Connect
  <2>7. ASSUME NEW p \in Proc, RemoveStale(c, p) PROVE BroadcastTypeOK'
    BY <2>7 DEF BroadcastTypeOK, RemoveStale
  <2>8. ASSUME NEW p \in Proc, SendDescribe(c, p) PROVE BroadcastTypeOK'
    <3>1. srv' \in Streams
      <4>1. srv' = srv \/ \E s \in {"queued", "none"} : srv' = [srv EXCEPT ![c][p] = s]
        BY <2>8, Zenon DEF SendDescribe
      <4> QED
        BY <4>1, SetStream DEF BroadcastTypeOK
    <3>2. pc' \in [Cli -> {"idle", "connect", "send", "wait", "remove", "read", "exit"}]
      BY <2>8 DEF BroadcastTypeOK, SendDescribe, Goto
    <3>3. expected' \in [Cli -> Nat] /\ todo' \in [Cli -> SUBSET Proc]
      BY <2>8 DEF BroadcastTypeOK, SendDescribe
    <3> QED
      BY <2>8, <3>1, <3>2, <3>3 DEF BroadcastTypeOK, SendDescribe
  <2>9. ASSUME NEW p \in Proc, TakeReply(c, p) PROVE BroadcastTypeOK'
    <3>1. srv' \in Streams
      <4>1. srv' = srv \/ \E s \in {"none"} : srv' = [srv EXCEPT ![c][p] = s]
        BY <2>9, Zenon DEF TakeReply
      <4> QED
        BY <4>1, SetStream DEF BroadcastTypeOK
    <3>2. expected' \in [Cli -> Nat]
      BY <2>9 DEF BroadcastTypeOK, TakeReply
    <3>3. replies' \in [Cli -> SUBSET Proc]
      BY <2>9 DEF BroadcastTypeOK, TakeReply
    <3> QED
      BY <2>9, <3>1, <3>2, <3>3 DEF BroadcastTypeOK, TakeReply
  <2>10. ASSUME NEW p \in Proc, SendTerminate(c, p) PROVE BroadcastTypeOK'
    <3>1. srv' \in Streams
      <4>1. srv' = srv \/ \E s \in {"queued", "none"} : srv' = [srv EXCEPT ![c][p] = s]
        BY <2>10, Zenon DEF SendTerminate
      <4> QED
        BY <4>1, SetStream DEF BroadcastTypeOK
    <3>2. conns' \in [Cli -> SUBSET Proc]
      BY <2>10 DEF BroadcastTypeOK, SendTerminate
    <3>3. replies' \in [Cli -> SUBSET Proc] /\ bad' \in [Cli -> SUBSET Proc] /\ expected' = expected
      BY <2>10 DEF BroadcastTypeOK, SendTerminate
    <3> QED
      BY <2>10, <3>1, <3>2, <3>3 DEF BroadcastTypeOK, SendTerminate
  <2>11. ASSUME NEW p \in Proc, HandleOutput(c, p) PROVE BroadcastTypeOK'
    BY <2>11 DEF BroadcastTypeOK, HandleOutput
  <2> QED
    BY <1>3, <2>1, <2>2, <2>3, <2>4, <2>5, <2>6, <2>7, <2>8, <2>9, <2>10, <2>11 DEF Instance
<1> QED
  BY <1>1, <1>2, <1>3 DEF Next, Rest

(* An instance does nothing to the others but remove sockets.                   *)
LEMMA InstanceStill ==
  ASSUME BroadcastTypeOK, NEW c \in Cli, ReadDir(c) \/ Instance(c)
  PROVE  Onward /\ \A d \in Cli \ {c} : Still(d)
<1>1. UNCHANGED <<denied, proc>>
  BY Zenon DEF ReadDir, Instance, StartSending, TimeOut, StartRemoving, StartReading, Exit, Connect, RemoveStale,
         SendDescribe, TakeReply, SendTerminate, HandleOutput
<1>2. \A p \in Proc : ~file[p] => ~file'[p]
  BY Zenon DEF ReadDir, Instance, StartSending, TimeOut, StartRemoving, StartReading, Exit, Connect, RemoveStale,
         SendDescribe, TakeReply, SendTerminate, HandleOutput, BroadcastTypeOK
<1>3. ASSUME NEW d \in Cli \ {c} PROVE Still(d)
  <2>1. CASE ReadDir(c) \/ StartSending(c) \/ TimeOut(c)
    BY <2>1 DEF ReadDir, StartSending, TimeOut, Goto, BroadcastTypeOK, Still
  <2>2. CASE StartRemoving(c) \/ StartReading(c) \/ Exit(c)
    BY <2>2 DEF StartRemoving, StartReading, Exit, Goto, BroadcastTypeOK, Streams, Still
  <2>3. ASSUME NEW p \in Proc, Connect(c, p) \/ RemoveStale(c, p) \/ HandleOutput(c, p) PROVE Still(d)
    BY <2>3 DEF Connect, RemoveStale, HandleOutput, BroadcastTypeOK, Streams, Still
  <2>4. ASSUME NEW p \in Proc, SendDescribe(c, p) \/ TakeReply(c, p) PROVE Still(d)
    BY <2>4 DEF SendDescribe, TakeReply, Goto, BroadcastTypeOK, Streams, Still
  <2>5. ASSUME NEW p \in Proc, SendTerminate(c, p) PROVE Still(d)
    BY <2>5 DEF SendTerminate, BroadcastTypeOK, Streams, Still
  <2> QED
    BY Zenon, <2>1, <2>2, <2>3, <2>4, <2>5 DEF Instance
<1> QED
  BY <1>1, <1>2, <1>3 DEF Onward

--------------------------------------------------------------------------------
(* An instance that reads the directory finds every process that is up.         *)
LEMMA ReadDirInv ==
  ASSUME BroadcastTypeOK, NEW c \in Cli, CliInv(c), ReadDir(c)
  PROVE  CliInv(c)'
<1>1. /\ pc[c] = "idle" /\ pc'[c] = "connect" /\ code'[c] = "none" /\ bad'[c] = {}
      /\ UNCHANGED <<denied, proc, file, srv, bad, conns, expected, replies, listed, code>>
  BY DEF ReadDir, Goto, CliInv, BroadcastTypeOK
<1>2. todo'[c] = {p \in Proc : file[p]} /\ present'[c] = {p \in Proc : proc[p] = "up" /\ file[p]}
  BY DEF ReadDir, BroadcastTypeOK
<1>3. c \in Describe => DescribeInv(c)'
  BY <1>1, <1>2 DEF CliInv, DescribeInv
<1>4. c \in TerminateAll => TerminateInv(c)'
  BY <1>1, <1>2 DEF CliInv, TerminateInv
<1> QED
  BY <1>1, <1>2, <1>3, <1>4 DEF CliInv

(* A connection that fails is one to a process out of reach.                    *)
LEMMA ConnectInv ==
  ASSUME BroadcastTypeOK, NEW c \in Cli, NEW p \in Proc, CliInv(c), Connect(c, p)
  PROVE  CliInv(c)'
<1>0. /\ todo \in [Cli -> SUBSET Proc] /\ conns \in [Cli -> SUBSET Proc] /\ bad \in [Cli -> SUBSET Proc]
      /\ present[c] \subseteq Proc /\ code[c] \in {"none", "ok", "error"}
  BY DEF BroadcastTypeOK
<1>1. /\ pc[c] = "connect" /\ p \in Proc /\ todo'[c] = todo[c] \ {p}
      /\ UNCHANGED <<denied, proc, file, pc, present, expected, replies, listed, code>>
      /\ IF c \in Describe THEN bad[c] = {} ELSE conns[c] = {}
  BY <1>0 DEF Connect
<1>2. code[c] = "none"
  BY Zenon, <1>0, <1>1 DEF CliInv
<1>3. conns'[c] = IF Connects(p) THEN conns[c] \cup {p} ELSE conns[c]
  BY <1>0 DEF Connect
<1>4. bad'[c] = IF Stale(c, p) THEN bad[c] \cup {p} ELSE bad[c]
  BY <1>0 DEF Connect
<1>5. /\ \A q \in Proc \ {p} : srv'[c][q] = srv[c][q]
      /\ srv'[c][p] = IF Connects(p) THEN "open" ELSE srv[c][p]
  BY DEF Connect, BroadcastTypeOK, Streams
<1>6. p \in present[c] /\ ~Connects(p) => OutOfReach(p)
  BY DEF CliInv, Connects, OutOfReach
<1>7. \A q \in Proc : OutOfReach(q)' <=> OutOfReach(q)
  BY <1>1 DEF OutOfReach
<1>8. c \in Describe => DescribeInv(c)'
  BY Zenon, <1>0, <1>1, <1>2, <1>3, <1>5, <1>6, <1>7 DEF CliInv, DescribeInv
<1>9. c \in TerminateAll => TerminateInv(c)'
  <2> SUFFICES ASSUME c \in TerminateAll PROVE TerminateInv(c)'
    OBVIOUS
  <2>1. c \notin Describe
    BY BroadcastAssumption
  <2>2. ~Connects(p) => p \in bad'[c]
    BY <1>4, <2>1 DEF Stale
  <2> QED
    BY <1>0, <1>1, <1>2, <1>3, <1>4, <1>5, <2>1, <2>2 DEF CliInv, TerminateInv
<1>10. p \in present[c] /\ Stale(c, p) =>
         proc[p] = "gone" \/ ~file[p] \/ (c \in TerminateAll /\ p \in denied)
  BY DEF CliInv, Stale, Connects, Cli
<1> QED
  BY Zenon, <1>1, <1>2, <1>4, <1>8, <1>9, <1>10 DEF CliInv

(* The stages that follow only carry over what is accounted for.                *)
LEMMA StagesInv ==
  ASSUME BroadcastTypeOK, NEW c \in Cli, CliInv(c),
         StartSending(c) \/ TimeOut(c) \/ StartReading(c)
  PROVE  CliInv(c)'
<1>1. /\ UNCHANGED <<denied, proc, file, srv, present, bad, conns, replies, listed, code>>
      /\ pc[c] \in {"connect", "wait", "remove"}
  BY DEF StartSending, TimeOut, StartReading, Goto
<1>2. code[c] = "none"
  BY <1>1 DEF CliInv, BroadcastTypeOK
<1>3. \A q \in Proc : OutOfReach(q)' <=> OutOfReach(q)
  BY <1>1 DEF OutOfReach
<1>4. c \in Describe => /\ pc'[c] \in {"send", "wait", "read"}
                        /\ pc[c] = "connect" => todo[c] = {}
  BY Zenon DEF StartSending, TimeOut, StartReading, Goto, BroadcastTypeOK, CliInv, DescribeInv
<1>5. c \in TerminateAll => pc[c] = "remove" /\ pc'[c] = "read" /\ expected'[c] = expected[c]
  BY Zenon, BroadcastAssumption DEF StartSending, TimeOut, StartReading, Goto, BroadcastTypeOK, CliInv, TerminateInv
<1>6. c \in Describe => DescribeInv(c)'
  BY Zenon, <1>1, <1>2, <1>3, <1>4 DEF CliInv, DescribeInv, BroadcastTypeOK
<1>7. c \in TerminateAll => TerminateInv(c)'
  BY <1>1, <1>2, <1>5 DEF CliInv, TerminateInv
<1>8. pc'[c] # "idle"
  BY <1>4, <1>5 DEF Cli
<1> QED
  BY <1>1, <1>2, <1>6, <1>7, <1>8 DEF CliInv

(* Removing a socket only puts more out of reach.                               *)
LEMMA RemoveStaleInv ==
  ASSUME BroadcastTypeOK, NEW c \in Cli, NEW p \in Proc, CliInv(c), RemoveStale(c, p)
  PROVE  CliInv(c)'
<1>1. /\ UNCHANGED <<denied, proc, srv, pc, present, todo, conns, expected, replies, listed, code>>
      /\ pc[c] = IF c \in Describe THEN "connect" ELSE "remove"
  BY DEF RemoveStale
<1>2. bad'[c] \subseteq bad[c] /\ \A q \in Proc : ~file[q] => ~file'[q]
  BY DEF RemoveStale, BroadcastTypeOK
<1>3. code[c] = "none"
  BY <1>1 DEF CliInv, BroadcastTypeOK
<1>4. \A q \in Proc : OutOfReach(q) => OutOfReach(q)'
  BY <1>1, <1>2 DEF OutOfReach
<1>5. present[c] \subseteq Proc
  BY DEF BroadcastTypeOK
<1>6. c \in Describe => DescribeInv(c)'
  BY Zenon, <1>1, <1>3, <1>4, <1>5 DEF CliInv, DescribeInv
<1>7. c \in TerminateAll => TerminateInv(c)'
  <2> SUFFICES ASSUME c \in TerminateAll PROVE TerminateInv(c)'
    OBVIOUS
  <2>1. TerminateInv(c)
    BY Zenon DEF CliInv
  <2> QED
    BY Zenon, <1>1, <1>3, <2>1, BroadcastAssumption DEF TerminateInv
<1> QED
  BY Zenon, <1>1, <1>2, <1>3, <1>5, <1>6, <1>7 DEF CliInv

(* Sending and waiting: what is dropped stays among the connections.            *)
LEMMA DescribeStepInv ==
  ASSUME BroadcastTypeOK, NEW c \in Cli, NEW p \in Proc, CliInv(c), SendDescribe(c, p) \/ TakeReply(c, p)
  PROVE  CliInv(c)'
<1>1. /\ UNCHANGED <<denied, proc, file, present, bad, conns, listed, code>>
      /\ pc[c] \in {"send", "wait"} /\ pc'[c] \in {"send", "wait"}
  BY DEF SendDescribe, TakeReply, Goto, BroadcastTypeOK
<1>2. c \in Describe /\ c \notin TerminateAll
  BY Zenon, <1>1, BroadcastAssumption DEF CliInv, TerminateInv, Cli
<1>3. code[c] = "none"
  BY <1>1 DEF CliInv, BroadcastTypeOK
<1>4. \A q \in Proc : OutOfReach(q)' <=> OutOfReach(q)
  BY Zenon, <1>1 DEF OutOfReach
<1>5. srv[c][p] = "none" \/ p \in conns[c]
  BY Zenon, <1>2 DEF CliInv, DescribeInv
<1>6. \A q \in Proc : srv'[c][q] # "none" => q \in conns[c]
  <2>1. \A q \in Proc \ {p} : srv'[c][q] = srv[c][q]
    BY DEF SendDescribe, TakeReply, BroadcastTypeOK, Streams
  <2>2. srv[c][p] = "none" => srv'[c][p] = "none"
    BY DEF SendDescribe, TakeReply, Readable, BroadcastTypeOK, Streams
  <2> QED
    BY Zenon, <1>2, <1>5, <2>1, <2>2 DEF CliInv, DescribeInv
<1>7. replies'[c] \subseteq conns[c]
  <2>1. CASE SendDescribe(c, p)
    BY <1>2, <2>1 DEF SendDescribe, CliInv, DescribeInv
  <2>2. CASE TakeReply(c, p)
    <3>1. srv[c][p] # "none"
      BY <2>2 DEF TakeReply, Readable
    <3>2. replies'[c] \subseteq replies[c] \cup {p}
      BY <2>2 DEF TakeReply, BroadcastTypeOK
    <3> QED
      BY <1>2, <1>5, <3>1, <3>2 DEF CliInv, DescribeInv
  <2> QED
    BY <2>1, <2>2
<1>8. DescribeInv(c)'
  BY Zenon, <1>1, <1>2, <1>3, <1>4, <1>6, <1>7 DEF CliInv, DescribeInv, BroadcastTypeOK
<1> QED
  BY Zenon, <1>1, <1>2, <1>3, <1>8 DEF CliInv

(* A connection on which sending fails belongs to a process that is gone, and   *)
(* is counted when the directory is through.                                    *)
LEMMA TerminateStepInv ==
  ASSUME BroadcastTypeOK, NEW c \in Cli, CliInv(c),
         StartRemoving(c) \/ \E p \in Proc : SendTerminate(c, p)
  PROVE  CliInv(c)'
<1>1. /\ UNCHANGED <<denied, proc, file, present, todo, listed, code>>
      /\ c \in TerminateAll /\ pc[c] = "connect"
  BY DEF StartRemoving, SendTerminate, Goto
<1>2. c \notin Describe /\ code[c] = "none"
  BY <1>1, BroadcastAssumption DEF CliInv, BroadcastTypeOK
<1>3. TerminateInv(c)
  BY Zenon, <1>1 DEF CliInv
<1>4. ASSUME NEW p \in Proc, SendTerminate(c, p) PROVE CliInv(c)'
  <2>1. p \in conns[c] /\ conns'[c] = {} /\ pc' = pc
    BY <1>4 DEF SendTerminate, BroadcastTypeOK
  <2>2. \/ bad'[c] = bad[c] /\ replies'[c] = replies[c] \cup {p}
        \/ bad'[c] = bad[c] \cup {p} /\ replies'[c] = replies[c] /\ srv[c][p] # "open"
    BY <1>4 DEF SendTerminate, BroadcastTypeOK
  <2>3. srv[c][p] # "open" => proc[p] = "gone"
    BY <1>3, <2>1 DEF TerminateInv
  <2>4. TerminateInv(c)'
    BY Zenon, <1>1, <1>2, <1>3, <2>1, <2>2 DEF TerminateInv
  <2> QED
    BY Zenon, <1>1, <1>2, <2>1, <2>2, <2>3, <2>4 DEF CliInv
<1>5. CASE StartRemoving(c)
  <2>1. /\ todo[c] = {} /\ conns[c] = {} /\ pc'[c] = "remove" /\ expected'[c] = Cardinality(bad[c])
        /\ UNCHANGED <<srv, bad, conns, replies>>
    BY <1>5 DEF StartRemoving, Goto, BroadcastTypeOK
  <2>2. bad[c] # {} => expected'[c] > 0
    <3>1. IsFiniteSet(bad[c])
      BY BroadcastAssumption, FS_Subset DEF BroadcastTypeOK
    <3> QED
      BY <2>1, <3>1, FS_CardinalityType, FS_EmptySet
  <2>3. TerminateInv(c)'
    BY Zenon, <1>1, <1>2, <1>3, <2>1, <2>2 DEF TerminateInv
  <2> QED
    BY Zenon, <1>1, <1>2, <2>1, <2>3 DEF CliInv
<1> QED
  BY <1>4, <1>5

(* Reading an answer changes what is listed.                                    *)
LEMMA HandleOutputInv ==
  ASSUME BroadcastTypeOK, NEW c \in Cli, NEW p \in Proc, CliInv(c), HandleOutput(c, p)
  PROVE  CliInv(c)'
<1>1. /\ UNCHANGED <<denied, proc, file, srv, pc, present, bad, conns, expected, replies, code>>
      /\ pc[c] = "read"
  BY Zenon DEF HandleOutput
<1>2. code[c] = "none"
  BY <1>1 DEF CliInv, BroadcastTypeOK
<1>3. \A q \in Proc : OutOfReach(q)' <=> OutOfReach(q)
  BY Zenon, <1>1 DEF OutOfReach
<1>4. c \in Describe => DescribeInv(c)'
  BY Zenon, <1>1, <1>2, <1>3 DEF CliInv, DescribeInv, BroadcastTypeOK
<1>5. c \in TerminateAll => TerminateInv(c)'
  BY Zenon, <1>1, <1>2 DEF CliInv, TerminateInv
<1> QED
  BY Zenon, <1>1, <1>2, <1>4, <1>5 DEF CliInv

(* failed_conns is 0 only when every connection was read and, for describe-     *)
(* enclaves, every connection was confirmed.                                    *)
LEMMA NoFailedConns ==
  ASSUME BroadcastTypeOK, NEW c \in Cli, CliInv(c), ~(FailedConns(c) > 0)
  PROVE  /\ replies[c] \subseteq listed[c]
         /\ c \in Describe => conns[c] = replies[c]
         /\ c \in TerminateAll => expected[c] = 0
<1>1. IsFiniteSet(conns[c]) /\ IsFiniteSet(replies[c]) /\ IsFiniteSet(replies[c] \ listed[c])
  BY BroadcastAssumption, FS_Subset DEF BroadcastTypeOK
<1>2. /\ Cardinality(conns[c]) \in Nat /\ Cardinality(replies[c]) \in Nat
      /\ Cardinality(replies[c] \ listed[c]) \in Nat /\ expected[c] \in Nat
  BY <1>1, FS_CardinalityType DEF BroadcastTypeOK
<1>3. c \in Describe => replies[c] \subseteq conns[c] /\ Cardinality(replies[c]) <= Cardinality(conns[c])
  BY Zenon, <1>1, FS_Subset DEF CliInv, DescribeInv
<1>4. /\ Cardinality(replies[c] \ listed[c]) = 0
      /\ c \in Describe => Cardinality(conns[c]) = Cardinality(replies[c])
      /\ c \in TerminateAll => expected[c] = 0
  BY <1>2, <1>3, BroadcastAssumption DEF FailedConns, Cli
<1>5. replies[c] \ listed[c] = {}
  BY <1>1, <1>4, FS_EmptySet
<1>6. c \in Describe => conns[c] = replies[c]
  BY <1>1, <1>3, <1>4, FS_Subset
<1> QED
  BY Zenon, <1>4, <1>5, <1>6

(* So an exit with success leaves nobody out.                                   *)
LEMMA ExitInv ==
  ASSUME BroadcastTypeOK, NEW c \in Cli, CliInv(c), Exit(c)
  PROVE  CliInv(c)'
<1>1. /\ UNCHANGED <<denied, proc, file, present, todo, bad, listed>>
      /\ pc[c] = "read" /\ pc'[c] = "exit" /\ conns'[c] = {} /\ replies'[c] = {}
  BY DEF Exit, Goto, BroadcastTypeOK
<1>2. \A p \in Proc : srv'[c][p] = "none"
  BY DEF Exit, BroadcastTypeOK, Streams
<1>3. code'[c] = "ok" => ~(FailedConns(c) > 0)
  BY DEF Exit, BroadcastTypeOK
<1>4. \A q \in Proc : OutOfReach(q)' <=> OutOfReach(q)
  BY <1>1 DEF OutOfReach
<1>5. c \in Describe => DescribeInv(c)'
  BY Zenon, <1>1, <1>2, <1>3, <1>4, NoFailedConns DEF CliInv, DescribeInv, BroadcastTypeOK
<1>6. c \in TerminateAll => TerminateInv(c)'
  <2> SUFFICES ASSUME c \in TerminateAll PROVE TerminateInv(c)'
    OBVIOUS
  <2>1. TerminateInv(c)
    BY Zenon DEF CliInv
  <2>2. code'[c] = "ok" => replies[c] \subseteq listed[c] /\ expected[c] = 0
    BY Zenon, <1>3, NoFailedConns
  <2> QED
    BY <1>1, <2>1, <2>2 DEF TerminateInv
<1> QED
  BY Zenon, <1>1, <1>5, <1>6 DEF CliInv

(* The invariant is inductive.                                                  *)
LEMMA NextBroadcastInv == BroadcastInv /\ [Next]_vars => BroadcastInv'
<1> SUFFICES ASSUME BroadcastInv, [Next]_vars PROVE \A c \in Cli : CliInv(c)'
  BY NextBroadcastTypeOK DEF BroadcastInv
<1>0. BroadcastTypeOK /\ \A c \in Cli : CliInv(c)
  BY DEF BroadcastInv
<1>1. CASE UNCHANGED vars
  <2>1. Onward /\ \A c \in Cli : Still(c)
    BY Zenon, <1>1 DEF Onward, Still, vars, cliVars
  <2> QED
    BY <1>0, <2>1, StillInv
<1>2. ASSUME NEW p \in Proc, Process(p) PROVE \A c \in Cli : CliInv(c)'
  BY <1>0, <1>2, ProcessStill, StillInv
<1>3. ASSUME NEW c \in Cli, ReadDir(c) \/ Instance(c) PROVE \A d \in Cli : CliInv(d)'
  <2>1. \A d \in Cli \ {c} : CliInv(d)'
    BY <1>0, <1>3, InstanceStill, StillInv
  <2>2. CliInv(c)'
    BY <1>0, <1>3, ReadDirInv, ConnectInv, StagesInv, RemoveStaleInv, DescribeStepInv, TerminateStepInv,
       HandleOutputInv, ExitInv DEF Instance
  <2> QED
    BY <2>1, <2>2
<1> QED
  BY <1>1, <1>2, <1>3 DEF Next, Rest

(* It holds before any process or instance starts.                              *)
LEMMA InitBroadcastInv == Init => BroadcastInv
<1> SUFFICES ASSUME Init PROVE BroadcastInv
  OBVIOUS
<1>1. BroadcastTypeOK
  BY BroadcastAssumption DEF Init, BroadcastTypeOK, Streams
<1> QED
  BY <1>1 DEF Init, BroadcastInv, CliInv, DescribeInv, TerminateInv

(* describe-enclaves and terminate-enclave --all exit successfully only when    *)
(* every process that was up is listed or, for the former, is out of reach:     *)
(* the counts behind failed_conns miss nobody.                                  *)
THEOREM NobodyLeftOut == Spec => []SuccessIsComplete
<1>1. BroadcastInv => SuccessIsComplete
  <2> SUFFICES ASSUME BroadcastInv, NEW c \in Cli, NEW p \in present[c] \ listed[c], code[c] = "ok"
               PROVE  c \in Describe /\ (~file[p] \/ proc[p] = "gone" \/ p \in denied)
    BY DEF SuccessIsComplete
  <2> QED
    BY Zenon DEF BroadcastInv, CliInv, DescribeInv, TerminateInv, OutOfReach, Cli
<1> QED
  BY <1>1, InitBroadcastInv, NextBroadcastInv, PTL DEF Spec

(* No CLI instance takes the socket of a process that was up, and still is, for *)
(* a stale one, except terminate-enclave --all one it may not connect to.       *)
THEOREM SocketsAreKept == Spec => []LiveSocketsKept
<1>1. BroadcastInv => LiveSocketsKept
  BY DEF BroadcastInv, CliInv, LiveSocketsKept
<1> QED
  BY <1>1, InitBroadcastInv, NextBroadcastInv, PTL DEF Spec

================================================================================
