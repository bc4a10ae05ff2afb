----------------------------- MODULE NeDeviceProofs -----------------------------
(***************************************************************************)
(* Proofs about the layers of the driver between its ioctls and the device.*)
(* NePciRequest: any number of threads and of requests. NeMemory: any      *)
(* pages of any sizes anywhere in memory, any regions asked for and any    *)
(* number of calls; induction over the numbers takes the least             *)
(* counterexample, which a well-founded order has.                         *)
(***************************************************************************)
EXTENDS NePciRequest, NeMemory, FiniteSetTheorems, WellFoundedInduction, TLAPS

--------------------------------------------------------------------------------
(* Requests to the device *)

Where == {"idle", "lock", "clear", "submit", "wait", "copy", "done", "unlock"}

(* The places in which a thread has pci_dev_mutex.                             *)
Inside == Where \ {"idle", "lock"}

RequestTypeOK ==
  /\ pc \in [Caller -> Where] /\ mutex \in Caller \cup {"free"}
  /\ avail \in BOOLEAN /\ irq \in BOOLEAN
  /\ count \in Nat /\ late \in Nat /\ recv \in Nat
  /\ mine \in [Caller -> Nat] /\ got \in [Caller -> Nat]
  /\ device \in Seq(Nat)

(* A thread is inside exactly while it holds the mutex.                        *)
Exclusive == \A c \in Caller : pc[c] \in Inside <=> mutex = c

(* The device has answered the requests up to recv, and has the later ones in  *)
(* their order.                                                                *)
InOrder ==
  /\ recv + Len(device) = count
  /\ \A i \in 1..Len(device) : device[i] = recv + i

(* A thread has submitted its request and neither timed out nor cleared the    *)
(* flag afterwards.                                                            *)
Waiting == \E c \in Caller : pc[c] \in {"wait", "copy", "done"}

(* Every unanswered request, and every answer that no thread has used up, is   *)
(* of the thread that waits or of one that timed out. A thread that reads a    *)
(* reply was woken by one.                                                     *)
Outstanding ==
  /\ \E a, i, w \in {0, 1} :
       /\ (a = 1) <=> avail
       /\ (i = 1) <=> irq
       /\ (w = 1) <=> Waiting
       /\ Len(device) + a + i <= late + w
  /\ \A c \in Caller : pc[c] \in {"copy", "done"} => avail

(* The last submission is that of the thread inside.                           *)
OwnIsLast == \A c \in Caller : pc[c] \in {"wait", "copy", "done", "unlock"} => mine[c] = count

(* The inductive invariant.                                                    *)
RequestInv ==
  RequestTypeOK /\ Exclusive /\ InOrder /\ Outstanding /\ OwnIsLast /\ ReplyLag

(* Nothing has been submitted at the beginning.                                *)
LEMMA RequestInvInit == RequestInit => RequestInv
<1> SUFFICES ASSUME RequestInit PROVE RequestInv
  OBVIOUS
<1> USE RequestAssumption DEF RequestInit
<1>0. device \in Seq(Nat)
  OBVIOUS
<1>1. RequestTypeOK /\ Exclusive
  <2>1. RequestTypeOK
    BY Zenon, <1>0 DEF RequestTypeOK, Where
  <2>2. Exclusive
    BY DEF Exclusive, Inside, Where
  <2> QED
    BY <2>1, <2>2
<1>2. InOrder
  BY DEF InOrder
<1>3. ~Waiting
  BY DEF Waiting
<1>4. Outstanding
  BY <1>3 DEF Outstanding
<1> QED
  BY <1>1, <1>2, <1>4 DEF RequestInv, OwnIsLast, ReplyLag

(* Only one thread is inside.                                                  *)
LEMMA OneInside ==
  ASSUME Exclusive, NEW c \in Caller, NEW d \in Caller, pc[c] \in Inside, pc[d] \in Inside
  PROVE  c = d
BY DEF Exclusive

(* A step of a thread keeps the invariant.                                     *)
LEMMA ThreadInv ==
  ASSUME RequestInv, NEW c \in Caller, Call(c) \/ Request(c) \/ TimeOut(c)
  PROVE  RequestInv'
<1> USE RequestAssumption DEF RequestInv, RequestTypeOK, Step
<1>a. \A d \in Caller : pc[c] \in Inside /\ pc[d] \in Inside => d = c
  BY DEF Exclusive
<1>1. CASE Call(c)
  <2>1. RequestTypeOK' /\ Exclusive'
    BY <1>1 DEF Call, Exclusive, Inside, Where
  <2>2. Waiting' = Waiting
    BY <1>1 DEF Call, Waiting, Where
  <2> QED
    BY Zenon, <1>1, <2>1, <2>2 DEF Call, InOrder, Outstanding, OwnIsLast, ReplyLag, Where
<1>2. CASE Lock(c)
  <2>1. RequestTypeOK' /\ Exclusive'
    BY <1>2 DEF Lock, Exclusive, Inside, Where
  <2>2. Waiting' = Waiting
    BY <1>2 DEF Lock, Waiting, Where
  <2> QED
    BY <1>2, <2>1, <2>2 DEF Lock, InOrder, Outstanding, OwnIsLast, ReplyLag, Where
<1>3. CASE ClearFlag(c)
  <2>1. RequestTypeOK' /\ Exclusive'
    BY Zenon, <1>3 DEF ClearFlag, Exclusive, Inside, Where
  <2>2. Waiting' = Waiting
    BY <1>3 DEF ClearFlag, Waiting, Where
  <2>3. \A d \in Caller : pc[d] \notin {"copy", "done"}
    BY Zenon, <1>a, <1>3 DEF ClearFlag, Inside, Where
  <2>4. Outstanding'
    BY <1>3, <2>2, <2>3 DEF ClearFlag, Outstanding, Where
  <2> QED
    BY <1>3, <2>1, <2>4 DEF ClearFlag, InOrder, OwnIsLast, ReplyLag, Where
<1>4. CASE SubmitRequest(c)
  <2>1. RequestTypeOK' /\ Exclusive'
    BY <1>4 DEF SubmitRequest, Exclusive, Inside, Where
  <2>2. ~Waiting /\ Waiting' /\ \A d \in Caller : d # c => pc[d] \notin Inside
    BY Zenon, <1>a, <1>4 DEF SubmitRequest, Waiting, Inside, Where
  <2>3. Len(device') = Len(device) + 1 /\ InOrder'
    <3>1. /\ Len(device) \in Nat /\ Len(device') = Len(device) + 1
          /\ \A i \in 1..Len(device) : device'[i] = device[i]
          /\ device'[Len(device) + 1] = count + 1
      BY <1>4 DEF SubmitRequest
    <3>2. recv' = recv /\ count' = count + 1
      BY <1>4 DEF SubmitRequest
    <3>3. ASSUME NEW i \in 1..Len(device') PROVE device'[i] = recv + i
      <4>1. i \in 1..Len(device) \/ i = Len(device) + 1
        BY <3>1
      <4> QED
        BY <3>1, <4>1 DEF InOrder
    <3> QED
      BY <3>1, <3>2, <3>3 DEF InOrder
  <2>4. Outstanding'
    BY <1>4, <2>2, <2>3 DEF SubmitRequest, Outstanding, Where, Inside
  <2>5. OwnIsLast' /\ ReplyLag'
    BY Zenon, <1>4, <2>2 DEF SubmitRequest, OwnIsLast, ReplyLag, Where, Inside
  <2> QED
    BY Zenon, <2>1, <2>3, <2>4, <2>5
<1>5. CASE WaitForReply(c)
  <2>1. RequestTypeOK' /\ Exclusive'
    BY <1>5 DEF WaitForReply, Exclusive, Inside, Where
  <2>2. Waiting /\ Waiting'
    BY <1>5 DEF WaitForReply, Waiting, Where
  <2> QED
    BY Zenon, <1>5, <2>1, <2>2 DEF WaitForReply, InOrder, Outstanding, OwnIsLast, ReplyLag, Where
<1>6. CASE TimeOut(c)
  <2>1. RequestTypeOK' /\ Exclusive'
    BY <1>6 DEF TimeOut, Exclusive, Inside, Where
  <2>2. Waiting /\ \A d \in Caller : d # c => pc[d] \notin Inside
    BY <1>a, <1>6 DEF TimeOut, Waiting, Inside, Where
  <2>3. Len(device) \in Nat
    OBVIOUS
  <2>4. Outstanding'
    BY <1>6, <2>2, <2>3 DEF TimeOut, Outstanding, Where, Inside
  <2>5. OwnIsLast' /\ ReplyLag'
    BY Zenon, <1>6, <2>2 DEF TimeOut, OwnIsLast, ReplyLag, Where, Inside
  <2> QED
    BY Zenon, <1>6, <2>1, <2>4, <2>5 DEF TimeOut, InOrder
<1>7. CASE RetrieveReply(c)
  <2>1. RequestTypeOK' /\ Exclusive'
    BY <1>7 DEF RetrieveReply, Exclusive, Inside, Where
  <2>2. Waiting /\ Waiting' /\ \A d \in Caller : d # c => pc[d] \notin Inside
    BY <1>a, <1>7 DEF RetrieveReply, Waiting, Inside, Where
  <2>3. Len(device) \in Nat /\ Len(device) <= late
    BY <1>7, <2>2 DEF RetrieveReply, Outstanding
  <2>4. recv <= count /\ count <= recv + late
    BY <2>3 DEF InOrder
  <2>5. ReplyLag'
    BY <1>7, <2>2, <2>4 DEF RetrieveReply, OwnIsLast, ReplyLag, Inside, Where
  <2> QED
    BY Zenon, <1>7, <2>1, <2>2, <2>5 DEF RetrieveReply, InOrder, Outstanding, OwnIsLast, Where
<1>8. CASE ClearAgain(c)
  <2>1. RequestTypeOK' /\ Exclusive'
    BY Zenon, <1>8 DEF ClearAgain, Exclusive, Inside, Where
  <2>2. Waiting /\ avail /\ \A d \in Caller : d # c => pc[d] \notin Inside
    BY <1>a, <1>8 DEF ClearAgain, Waiting, Outstanding, Inside, Where
  <2>3. Len(device) \in Nat
    OBVIOUS
  <2>4. \A d \in Caller : pc'[d] \notin {"wait", "copy", "done"}
    BY Zenon, <1>8, <2>2 DEF ClearAgain, Inside, Where
  <2>5. ~Waiting' /\ ~avail'
    BY <1>8, <2>4 DEF ClearAgain, Waiting
  <2>6. device' = device /\ late' = late /\ irq' = irq
    BY <1>8 DEF ClearAgain
  <2>7. Outstanding'
    BY <2>2, <2>3, <2>4, <2>5, <2>6 DEF Outstanding
  <2> QED
    BY <1>8, <2>1, <2>7 DEF ClearAgain, InOrder, OwnIsLast, ReplyLag, Where
<1>9. CASE Unlock(c)
  <2>1. RequestTypeOK' /\ Exclusive'
    BY Zenon, <1>9 DEF Unlock, Exclusive, Inside, Where
  <2>2. Waiting' = Waiting
    BY <1>9 DEF Unlock, Waiting, Where
  <2> QED
    BY Zenon, <1>9, <2>1, <2>2 DEF Unlock, InOrder, Outstanding, OwnIsLast, ReplyLag, Where
<1> QED
  BY Zenon, <1>1, <1>2, <1>3, <1>4, <1>5, <1>6, <1>7, <1>8, <1>9 DEF Request

(* A step of the device, or the interrupt, keeps the invariant.                *)
LEMMA DeviceInv ==
  ASSUME RequestInv, DeviceReplies \/ ReplyHandler
  PROVE  RequestInv'
<1> USE DEF RequestInv, RequestTypeOK
<1>1. CASE DeviceReplies
  <2>1. /\ Len(device) \in Nat /\ Len(device) > 0 /\ Head(device) = device[1]
        /\ device' \in Seq(Nat) /\ Len(device') = Len(device) - 1
        /\ \A i \in 1..Len(device') : device'[i] = device[i + 1]
    BY <1>1 DEF DeviceReplies
  <2>2. recv' = recv + 1
    BY <1>1, <2>1 DEF DeviceReplies, InOrder
  <2>3. InOrder'
    <3>1. ASSUME NEW i \in 1..Len(device') PROVE device'[i] = recv' + i
      <4>1. i + 1 \in 1..Len(device) /\ device'[i] = device[i + 1]
        BY <2>1
      <4>2. device[i + 1] = recv + (i + 1)
        BY <4>1 DEF InOrder
      <4> QED
        BY <2>1, <2>2, <4>1, <4>2
    <3>2. count' = count
      BY <1>1 DEF DeviceReplies
    <3>3. recv' + Len(device') = count'
      <4>1. recv \in Nat /\ recv + Len(device) = count
        BY DEF InOrder
      <4> HIDE DEF RequestInv, RequestTypeOK
      <4> QED
        BY <2>1, <2>2, <3>2, <4>1
    <3> QED
      BY <3>1, <3>3 DEF InOrder
  <2>4. Waiting' = Waiting
    BY <1>1 DEF DeviceReplies, Waiting
  <2>5. Outstanding'
    BY <1>1, <2>1, <2>4 DEF DeviceReplies, Outstanding
  <2> QED
    BY <1>1, <2>1, <2>2, <2>3, <2>5 DEF DeviceReplies, Exclusive, OwnIsLast, ReplyLag
<1>2. CASE ReplyHandler
  <2>1. Waiting' = Waiting /\ Len(device) \in Nat
    BY <1>2 DEF ReplyHandler, Waiting
  <2>2. Outstanding'
    BY <1>2, <2>1 DEF ReplyHandler, Outstanding
  <2> QED
    BY Zenon, <1>2, <2>2 DEF ReplyHandler, InOrder, Exclusive, OwnIsLast, ReplyLag
<1> QED
  BY Zenon, <1>1, <1>2

(* The invariant is inductive.                                                 *)
LEMMA RequestInvNext == RequestInv /\ [RequestNext]_requestVars => RequestInv'
<1> SUFFICES ASSUME RequestInv, [RequestNext]_requestVars PROVE RequestInv'
  OBVIOUS
<1>1. CASE UNCHANGED requestVars
  BY <1>1 DEF requestVars, RequestInv, RequestTypeOK, Exclusive, InOrder, Outstanding, Waiting,
              OwnIsLast, ReplyLag
<1>2. CASE \E c \in Caller : Call(c) \/ Request(c) \/ TimeOut(c)
  BY <1>2, ThreadInv
<1>3. CASE DeviceReplies \/ ReplyHandler
  BY <1>3, DeviceInv
<1> QED
  BY <1>1, <1>2, <1>3 DEF RequestNext, Quiet

(* For any number of threads and requests, a reply of the device answers the   *)
(* thread's own request or one that lies at most as many submissions back as   *)
(* there were timeouts of ne_wait_for_reply.                                   *)
THEOREM RepliesLag == RequestSpec => []ReplyLag
<1>1. RequestInv => ReplyLag
  BY DEF RequestInv
<1> QED
  BY <1>1, RequestInvInit, RequestInvNext, PTL DEF RequestSpec

--------------------------------------------------------------------------------
(* Induction and sums *)

(* A set that has 0 and the successor of what it has holds every number.        *)
LEMMA Induction ==
  ASSUME NEW S, 0 \in S, \A n \in Nat : n \in S => n + 1 \in S
  PROVE  \A n \in Nat : n \in S
<1> DEFINE R == {ss \in Nat \X Nat : ss[1] < ss[2]}
           T == Nat \ S
<1>1. IsWellFoundedOn(R, Nat)
  BY NatLessThanWellFounded, Zenon DEF OpToRel
<1>2. \A x, y \in Nat : x < y => <<x, y>> \in R
  OBVIOUS
<1> HIDE DEF R
<1> SUFFICES ASSUME T # {} PROVE FALSE
  OBVIOUS
<1>3. PICK x \in T : \A y \in T : ~(<<y, x>> \in R)
  BY Zenon, <1>1, WFMin
<1>4. x - 1 \in Nat /\ x - 1 < x /\ (x - 1) + 1 = x
  BY <1>3
<1>5. x - 1 \notin T
  BY Zenon, <1>2, <1>3, <1>4
<1> QED
  BY <1>3, <1>4, <1>5

(* The partial sums of a sequence exist ...                                     *)
LEMMA SumExists ==
  ASSUME NEW s, NEW k \in Nat
  PROVE  \E g : g = [n \in 0..k |-> IF n = 0 THEN 0 ELSE g[n - 1] + s[n]]
<1> DEFINE Def(g, m) == [n \in 0..m |-> IF n = 0 THEN 0 ELSE g[n - 1] + s[n]]
           S == {m \in Nat : \E g : g = Def(g, m)}
<1>1. 0 \in S
  <2> DEFINE g == [n \in 0..0 |-> 0]
  <2>1. g = Def(g, 0)
    OBVIOUS
  <2> HIDE DEF Def, g
  <2> QED
    BY Zenon, <2>1
<1>2. ASSUME NEW m \in Nat, m \in S PROVE m + 1 \in S
  <2>1. PICK g : g = Def(g, m)
    BY <1>2
  <2> DEFINE h == [n \in 0..m + 1 |-> IF n = m + 1 THEN g[m] + s[m + 1] ELSE g[n]]
  <2>2. ASSUME NEW n \in 0..m + 1 PROVE h[n] = IF n = 0 THEN 0 ELSE h[n - 1] + s[n]
    <3>1. CASE n = m + 1
      BY <3>1
    <3>2. CASE n # m + 1
      BY <2>1, <3>2
    <3> QED
      BY <3>1, <3>2
  <2>3. h = Def(h, m + 1) /\ m + 1 \in Nat
    BY <2>2
  <2> HIDE DEF Def, h
  <2> QED
    BY Zenon, <2>3
<1> HIDE DEF S
<1>3. \A m \in Nat : m \in S
  BY Zenon, <1>1, <1>2, Induction
<1> QED
  BY Zenon, <1>3 DEF S

(* ... and are what Sum computes.                                               *)
LEMMA SumOf ==
  ASSUME NEW s \in Seq(Nat)
  PROVE  \E f \in [0..Len(s) -> Nat] :
           Sum(s) = f[Len(s)] /\ f[0] = 0 /\ \A n \in 1..Len(s) : f[n] = f[n - 1] + s[n]
<1> DEFINE f == CHOOSE g : g = [n \in 0..Len(s) |-> IF n = 0 THEN 0 ELSE g[n - 1] + s[n]]
<1>1. Sum(s) = f[Len(s)]
  BY Zenon DEF Sum
<1>2. f = [n \in 0..Len(s) |-> IF n = 0 THEN 0 ELSE f[n - 1] + s[n]]
  <2>1. Len(s) \in Nat
    OBVIOUS
  <2> QED
    BY Zenon, <2>1, SumExists
<1> HIDE DEF f
<1>a. 0 \in 0..Len(s) /\ \A n \in 1..Len(s) : n \in 0..Len(s) /\ n # 0
  OBVIOUS
<1>3. f[0] = 0 /\ \A n \in 1..Len(s) : f[n] = f[n - 1] + s[n]
  BY Zenon, <1>a, <1>2
<1> DEFINE S == {n \in Nat : n <= Len(s) => f[n] \in Nat}
<1>4. \A n \in Nat : n \in S
  <2>1. 0 \in S
    BY <1>3
  <2>2. ASSUME NEW n \in Nat, n \in S PROVE n + 1 \in S
    <3> SUFFICES ASSUME n + 1 <= Len(s) PROVE f[n + 1] \in Nat
      OBVIOUS
    <3>1. f[n] \in Nat /\ n + 1 \in 1..Len(s) /\ (n + 1) - 1 = n
      BY <2>2
    <3>2. f[n + 1] = f[n] + s[n + 1] /\ s[n + 1] \in Nat
      BY <1>3, <3>1
    <3> QED
      BY <3>1, <3>2
  <2> HIDE DEF S
  <2> QED
    BY Zenon, <2>1, <2>2, Induction
<1>5. \A n \in 0..Len(s) : f[n] \in Nat
  BY <1>4
<1>6. f \in [0..Len(s) -> Nat]
  <2>1. DOMAIN f = 0..Len(s) /\ f = [n \in 0..Len(s) |-> f[n]]
    BY Zenon, <1>2
  <2> QED
    BY Zenon, <1>5, <2>1
<1> QED
  BY Zenon, <1>1, <1>3, <1>6

(* What a sequence of numbers holds is a number.                                *)
LEMMA ElementOf ==
  ASSUME NEW s \in Seq(Nat), NEW i \in 1..Len(s)
  PROVE  s[i] \in Nat
  OBVIOUS

(* The sum of numbers is a number.                                              *)
LEMMA SumType ==
  ASSUME NEW s \in Seq(Nat)
  PROVE  Sum(s) \in Nat
<1>1. PICK f \in [0..Len(s) -> Nat] : Sum(s) = f[Len(s)]
  BY Zenon, SumOf
<1>2. Len(s) \in 0..Len(s)
  OBVIOUS
<1> QED
  BY Zenon, <1>1, <1>2

(* One more number.                                                             *)
LEMMA SumAppend ==
  ASSUME NEW s \in Seq(Nat), NEW t \in Seq(Nat), Len(t) = Len(s) + 1, \A i \in 1..Len(s) : t[i] = s[i]
  PROVE  Sum(s) \in Nat /\ Sum(t) = Sum(s) + t[Len(t)]
<1>1. PICK f \in [0..Len(s) -> Nat] :
        Sum(s) = f[Len(s)] /\ f[0] = 0 /\ \A n \in 1..Len(s) : f[n] = f[n - 1] + s[n]
  BY Zenon, SumOf
<1>2. PICK g \in [0..Len(t) -> Nat] :
        Sum(t) = g[Len(t)] /\ g[0] = 0 /\ \A n \in 1..Len(t) : g[n] = g[n - 1] + t[n]
  BY Zenon, SumOf
<1> DEFINE S == {n \in Nat : n <= Len(s) => g[n] = f[n]}
<1>3. \A n \in Nat : n \in S
  <2>1. 0 \in S
    BY <1>1, <1>2
  <2>2. ASSUME NEW n \in Nat, n \in S PROVE n + 1 \in S
    <3> SUFFICES ASSUME n + 1 <= Len(s) PROVE g[n + 1] = f[n + 1]
      OBVIOUS
    <3>1. g[n] = f[n] /\ n + 1 \in 1..Len(s) /\ n + 1 \in 1..Len(t) /\ (n + 1) - 1 = n
      BY <2>2
    <3>2. f[n + 1] = f[n] + s[n + 1] /\ g[n + 1] = g[n] + t[n + 1] /\ t[n + 1] = s[n + 1]
      BY Zenon, <1>1, <1>2, <3>1
    <3> QED
      BY Zenon, <3>1, <3>2
  <2> HIDE DEF S
  <2> QED
    BY Zenon, <2>1, <2>2, Induction
<1>4. Len(s) \in Nat /\ g[Len(s)] = f[Len(s)]
  <2>1. Len(s) \in Nat /\ Len(s) <= Len(s)
    OBVIOUS
  <2> QED
    BY Zenon, <1>3, <2>1
<1>5. Len(t) \in 1..Len(t) /\ Len(t) - 1 = Len(s) /\ Len(s) \in 0..Len(s)
  BY <1>4
<1> QED
  BY Zenon, <1>1, <1>2, <1>4, <1>5

(* No number.                                                                   *)
LEMMA SumEmpty ==
  ASSUME NEW s \in Seq(Nat), Len(s) = 0
  PROVE  Sum(s) = 0
  BY Zenon, SumOf

(* Another last number.                                                         *)
LEMMA SumReplace ==
  ASSUME NEW s \in Seq(Nat), NEW t \in Seq(Nat), Len(t) = Len(s), Len(s) > 0,
         \A i \in 1..Len(s) - 1 : t[i] = s[i]
  PROVE  Sum(t) + s[Len(s)] = Sum(s) + t[Len(s)]
<1> DEFINE u == [i \in 1..Len(s) - 1 |-> s[i]]
<1>1. u \in Seq(Nat) /\ Len(u) = Len(s) - 1 /\ \A i \in 1..Len(u) : u[i] = s[i] /\ u[i] = t[i]
  OBVIOUS
<1>2. s[Len(s)] \in Nat /\ t[Len(s)] \in Nat /\ Len(s) = Len(u) + 1 /\ Len(t) = Len(u) + 1
  BY <1>1
<1> HIDE DEF u
<1>3. Sum(u) \in Nat /\ Sum(s) = Sum(u) + s[Len(s)] /\ Sum(t) = Sum(u) + t[Len(t)]
  BY Zenon, <1>1, <1>2, SumAppend
<1> QED
  BY <1>2, <1>3

--------------------------------------------------------------------------------
(* The walk over the pages of a region *)

(* The turns of the loop exist and are what Walk computes.                      *)
LEMMA WalkOf ==
  ASSUME NEW addr, NEW size \in Nat
  PROVE  \E f : /\ Walk(addr, size) = f[size + 1] /\ f[0] = NothingWalked
               /\ \A n \in 1..size + 1 : f[n] = Turn(f[n - 1], addr, size)
<1> DEFINE Def(g, m) == [n \in 0..m |-> IF n = 0 THEN NothingWalked ELSE Turn(g[n - 1], addr, size)]
           S == {m \in Nat : \E g : g = Def(g, m)}
<1>1. 0 \in S
  <2> DEFINE g == [n \in 0..0 |-> NothingWalked]
  <2>1. g = Def(g, 0)
    OBVIOUS
  <2> HIDE DEF Def, g
  <2> QED
    BY Zenon, <2>1
<1>2. ASSUME NEW m \in Nat, m \in S PROVE m + 1 \in S
  <2>1. PICK g : g = Def(g, m)
    BY <1>2
  <2> DEFINE h == [n \in 0..m + 1 |-> IF n = m + 1 THEN Turn(g[m], addr, size) ELSE g[n]]
  <2>2. ASSUME NEW n \in 0..m + 1
        PROVE  h[n] = IF n = 0 THEN NothingWalked ELSE Turn(h[n - 1], addr, size)
    <3>1. CASE n = m + 1
      BY <3>1
    <3>2. CASE n # m + 1
      BY <2>1, <3>2
    <3> QED
      BY <3>1, <3>2
  <2>3. h = Def(h, m + 1) /\ m + 1 \in Nat
    BY <2>2
  <2> HIDE DEF Def, h
  <2> QED
    BY Zenon, <2>3
<1> HIDE DEF S
<1>3. size + 1 \in S
  <2>1. size + 1 \in Nat
    OBVIOUS
  <2> QED
    BY Zenon, <1>1, <1>2, <2>1, Induction
<1> DEFINE f == CHOOSE g : g = Def(g, size + 1)
<1>4. Walk(addr, size) = f[size + 1]
  BY Zenon DEF Walk
<1>5. f = Def(f, size + 1)
  <2> HIDE DEF Def
  <2> QED
    BY Zenon, <1>3 DEF S
<1> HIDE DEF f
<1>6. f[0] = NothingWalked /\ \A n \in 1..size + 1 : f[n] = Turn(f[n - 1], addr, size)
  BY <1>5
<1> QED
  BY Zenon, <1>4, <1>6

(* What the walk has collected: pages in the order of their addresses, and      *)
(* disjoint ranges that are made of the pages and together are as long.         *)
Ranged == [start : Nat, end : Nat]

WalkState == [pages : Seq(Usable), ranges : Seq(Ranged), len : Nat, stray : SUBSET Page,
              end : {"no", "failed", "done"}]

Within(u, r) == r.start <= u /\ u <= r.end

Covered(u, pages) == \E j \in 1..Len(pages) : Phys[pages[j]] <= u /\ u < Phys[pages[j]] + Size[pages[j]]

MadeOf(ranges, pages) ==
  \A k \in 1..Len(ranges) :
    ranges[k].start <= ranges[k].end /\ \A u \in Nat : Within(u, ranges[k]) => Covered(u, pages)

Apart(ranges) ==
  \A k, l \in 1..Len(ranges) : k # l => \A u \in Nat : ~(Within(u, ranges[k]) /\ Within(u, ranges[l]))

RangesInv(ranges, pages) ==
  /\ MadeOf(ranges, pages) /\ Apart(ranges)
  /\ Sum(Lengths(ranges)) = Sum(Sizes(pages))

PagesInv(s, addr, size) ==
  /\ s.len = Sum(Sizes(s.pages))
  /\ \A j \in 1..Len(s.pages) :
       addr <= s.pages[j] /\ s.pages[j] < addr + size /\ s.pages[j] < addr + s.len
  /\ s.end = "no" => s.len < size \/ (size = 0 /\ Len(s.pages) = 0)
  /\ s.end = "done" => size <= s.len
  /\ \A p \in s.stray : p \in Page /\ (p \notin Usable \/ Size[p] # 1)

WalkInv(s, addr, size) == s \in WalkState /\ RangesInv(s.ranges, s.pages) /\ PagesInv(s, addr, size)

(* What is assumed of the pages.                                                *)
LEMMA PageFacts ==
  /\ Usable \subseteq Page /\ Page \subseteq Nat /\ Addr \subseteq Nat
  /\ \A p \in Page : Size[p] \in Nat /\ Size[p] > 0 /\ Phys[p] \in Nat
  /\ \A p, q \in Page, u \in Nat :
       p # q => ~(Phys[p] <= u /\ u < Phys[p] + Size[p] /\ Phys[q] <= u /\ u < Phys[q] + Size[q])
<1>1. /\ Usable \subseteq Page /\ Page \subseteq Nat /\ Addr \subseteq Nat
      /\ \A p \in Page : Size[p] \in Nat /\ Size[p] > 0 /\ Phys[p] \in Nat
  BY MemoryAssumption
<1>2. ASSUME NEW p \in Page, NEW q \in Page, NEW u \in Nat, p # q,
             Phys[p] <= u, u < Phys[p] + Size[p], Phys[q] <= u, u < Phys[q] + Size[q]
      PROVE  FALSE
  <2>1. u \in Units(p) /\ u \in Units(q)
    BY <1>1, <1>2 DEF Units
  <2>2. Units(p) \cap Units(q) = {}
    BY Zenon, <1>2, MemoryAssumption
  <2> QED
    BY Zenon, <2>1, <2>2
<1> QED
  BY Zenon, <1>1, <1>2

(* A function on the first numbers is a sequence.                               *)
LEMMA FunctionIsSeq ==
  ASSUME NEW n \in Nat, NEW T, NEW f \in [1..n -> T]
  PROVE  f \in Seq(T) /\ Len(f) = n
  OBVIOUS

(* The sizes and lengths are numbers, one for each page and range.              *)
LEMMA SizesType ==
  ASSUME NEW pages \in Seq(Usable)
  PROVE  Sizes(pages) \in Seq(Nat) /\ Len(Sizes(pages)) = Len(pages)
         /\ \A i \in 1..Len(pages) : Sizes(pages)[i] = Size[pages[i]]
<1>1. ASSUME NEW i \in 1..Len(pages) PROVE Size[pages[i]] \in Nat
  <2>1. pages[i] \in Usable
    OBVIOUS
  <2> QED
    BY Zenon, <2>1, PageFacts
<1>2. Len(pages) \in Nat
  OBVIOUS
<1>3. /\ Sizes(pages) \in [1..Len(pages) -> Nat]
      /\ \A i \in 1..Len(pages) : Sizes(pages)[i] = Size[pages[i]]
  BY Zenon, <1>1 DEF Sizes
<1> QED
  BY Zenon, <1>2, <1>3, FunctionIsSeq

(* So are the lengths of ranges.                                                *)
LEMMA LengthsType ==
  ASSUME NEW ranges \in Seq(Ranged), \A k \in 1..Len(ranges) : ranges[k].start <= ranges[k].end
  PROVE  Lengths(ranges) \in Seq(Nat) /\ Len(Lengths(ranges)) = Len(ranges)
         /\ \A i \in 1..Len(ranges) : Lengths(ranges)[i] = Length(ranges[i])
<1>1. ASSUME NEW i \in 1..Len(ranges) PROVE Length(ranges[i]) \in Nat
  <2>1. ranges[i] \in Ranged /\ ranges[i].start <= ranges[i].end
    OBVIOUS
  <2> QED
    BY <2>1 DEF Length, Ranged
<1>2. Len(ranges) \in Nat
  OBVIOUS
<1>3. /\ Lengths(ranges) \in [1..Len(ranges) -> Nat]
      /\ \A i \in 1..Len(ranges) : Lengths(ranges)[i] = Length(ranges[i])
  BY Zenon, <1>1 DEF Lengths
<1> QED
  BY Zenon, <1>2, <1>3, FunctionIsSeq

(* A number taken off both sides.                                               *)
LEMMA SumCancelled ==
  ASSUME NEW a \in Nat, NEW b \in Nat, NEW c \in Nat, NEW d \in Nat, a + c = b + (c + d)
  PROVE  a = b + d
  OBVIOUS

(* A page is added to the list of pages.                                        *)
LEMMA PageAdded ==
  ASSUME NEW pages \in Seq(Usable), NEW p \in Usable
  PROVE  /\ Append(pages, p) \in Seq(Usable) /\ Len(Append(pages, p)) = Len(pages) + 1
         /\ Append(pages, p)[Len(pages) + 1] = p
         /\ \A j \in 1..Len(pages) : Append(pages, p)[j] = pages[j]
         /\ Sum(Sizes(pages)) \in Nat /\ Sum(Sizes(Append(pages, p))) = Sum(Sizes(pages)) + Size[p]
         /\ \A u : Covered(u, Append(pages, p))
                     <=> Covered(u, pages) \/ (Phys[p] <= u /\ u < Phys[p] + Size[p])
<1> DEFINE t == Append(pages, p)
<1>1. /\ t \in Seq(Usable) /\ Len(t) = Len(pages) + 1 /\ t[Len(pages) + 1] = p
      /\ \A j \in 1..Len(pages) : t[j] = pages[j]
  OBVIOUS
<1>2. Len(pages) \in Nat /\ 1..Len(t) = (1..Len(pages)) \cup {Len(pages) + 1}
  BY <1>1
<1> HIDE DEF t
<1>3. Sum(Sizes(pages)) \in Nat /\ Sum(Sizes(t)) = Sum(Sizes(pages)) + Size[p]
  <2>1. Sizes(pages) \in Seq(Nat) /\ Len(Sizes(pages)) = Len(pages)
        /\ \A i \in 1..Len(pages) : Sizes(pages)[i] = Size[pages[i]]
    BY Zenon, SizesType
  <2>2. Sizes(t) \in Seq(Nat) /\ Len(Sizes(t)) = Len(t) /\ \A i \in 1..Len(t) : Sizes(t)[i] = Size[t[i]]
    BY Zenon, <1>1, SizesType
  <2>3. Len(Sizes(t)) = Len(Sizes(pages)) + 1 /\ \A i \in 1..Len(Sizes(pages)) : Sizes(t)[i] = Sizes(pages)[i]
    <3>1. ASSUME NEW i \in 1..Len(Sizes(pages)) PROVE Sizes(t)[i] = Sizes(pages)[i]
      <4>1. i \in 1..Len(pages)
        BY Zenon, <2>1
      <4>2. t[i] = pages[i] /\ i \in 1..Len(t)
        BY Zenon, <1>1, <1>2, <4>1
      <4> QED
        BY Zenon, <2>1, <2>2, <4>1, <4>2
    <3> QED
      BY Zenon, <1>1, <2>1, <2>2, <3>1
  <2>4. Sizes(t)[Len(Sizes(t))] = Size[p]
    <3>1. Len(pages) + 1 \in 1..Len(t)
      BY Zenon, <1>2
    <3> QED
      BY Zenon, <1>1, <2>2, <3>1
  <2> QED
    BY Zenon, <2>1, <2>2, <2>3, <2>4, SumAppend
<1>4. ASSUME NEW u
      PROVE  Covered(u, t) <=> Covered(u, pages) \/ (Phys[p] <= u /\ u < Phys[p] + Size[p])
  BY Zenon, <1>1, <1>2 DEF Covered
<1> QED
  BY Zenon, <1>1, <1>3, <1>4 DEF t

(* A page as a range.                                                           *)
PageAsRange(a, n) == [start |-> a, end |-> a + n - 1]

(* It is as long as the page.                                                   *)
LEMMA PageRange ==
  ASSUME NEW a \in Nat, NEW n \in Nat, n > 0
  PROVE  /\ PageAsRange(a, n) \in Ranged /\ PageAsRange(a, n).start = a /\ PageAsRange(a, n).end = a + n - 1
         /\ PageAsRange(a, n).start <= PageAsRange(a, n).end /\ Length(PageAsRange(a, n)) = n
         /\ \A u \in Nat : Within(u, PageAsRange(a, n)) <=> a <= u /\ u < a + n
<1> DEFINE q == PageAsRange(a, n)
<1>1. q.start = a /\ q.end = a + n - 1 /\ q \in Ranged
  BY DEF PageAsRange, Ranged
<1> HIDE DEF q
<1>2. q.start <= q.end /\ Length(q) = n /\ \A u \in Nat : Within(u, q) <=> a <= u /\ u < a + n
  BY <1>1 DEF Length, Within
<1> QED
  BY Zenon, <1>1, <1>2 DEF q

(* A range with another end.                                                    *)
LEMMA RangeExtended ==
  ASSUME NEW r \in Ranged, NEW e \in Nat
  PROVE  /\ [r EXCEPT !.end = e] \in Ranged
         /\ [r EXCEPT !.end = e].start = r.start /\ [r EXCEPT !.end = e].end = e
  BY DEF Ranged

(* Two ranges that touch, joined.                                               *)
LEMMA RangeJoined ==
  ASSUME NEW r \in Ranged, NEW x \in Ranged, NEW q \in Ranged, r.start <= r.end, x.start <= x.end,
         r.end + 1 = x.start, q.start = r.start, q.end = x.end
  PROVE  /\ q.start <= q.end /\ Length(q) = Length(r) + Length(x)
         /\ \A u \in Nat : Within(u, q) <=> Within(u, r) \/ Within(u, x)
  BY DEF Length, Within, Ranged

(* Merging a page that is not on the list yet: it extends the last range or     *)
(* becomes a range of its own, which meets no other.                            *)
LEMMA MergeInv ==
  ASSUME NEW pages \in Seq(Usable), NEW ranges \in Seq(Ranged), RangesInv(ranges, pages),
         NEW p \in Usable, \A j \in 1..Len(pages) : pages[j] # p
  PROVE  Merge(ranges, p) \in Seq(Ranged) /\ RangesInv(Merge(ranges, p), Append(pages, p))
<1> DEFINE page == [start |-> Phys[p], end |-> Phys[p] + Size[p] - 1]
           m == Len(ranges)
           all == Append(pages, p)
           t == Merge(ranges, p)
<1>0. MadeOf(ranges, pages) /\ Apart(ranges) /\ Sum(Lengths(ranges)) = Sum(Sizes(pages)) /\ m \in Nat
  BY DEF RangesInv
<1>1. p \in Page /\ Size[p] \in Nat /\ Size[p] > 0 /\ Phys[p] \in Nat
  BY Zenon, PageFacts
<1>2. /\ page \in Ranged /\ page.start = Phys[p] /\ page.end = Phys[p] + Size[p] - 1
      /\ page.start <= page.end /\ Length(page) = Size[p]
      /\ \A u \in Nat : Within(u, page) <=> Phys[p] <= u /\ u < Phys[p] + Size[p]
  BY Zenon, <1>1, PageRange DEF PageAsRange
<1>3. Sum(Sizes(pages)) \in Nat /\ Sum(Sizes(all)) = Sum(Sizes(pages)) + Size[p]
  BY Zenon, PageAdded
<1>4. ASSUME NEW u \in Nat PROVE Covered(u, all) <=> Covered(u, pages) \/ Within(u, page)
  BY Zenon, <1>2, PageAdded
<1>5. ASSUME NEW u \in Nat, Covered(u, pages), Within(u, page) PROVE FALSE
  <2>1. PICK j \in 1..Len(pages) : Phys[pages[j]] <= u /\ u < Phys[pages[j]] + Size[pages[j]]
    BY Zenon, <1>5 DEF Covered
  <2>2. pages[j] \in Usable /\ pages[j] # p
    OBVIOUS
  <2> QED
    BY Zenon, <1>1, <1>2, <1>5, <2>1, <2>2, PageFacts
<1>6. \A k \in 1..m : ranges[k] \in Ranged /\ ranges[k].start <= ranges[k].end
  <2>1. \A k \in 1..m : ranges[k] \in Ranged
    OBVIOUS
  <2> QED
    BY Zenon, <1>0, <2>1 DEF MadeOf
<1>7. ASSUME NEW k \in 1..m, NEW u \in Nat, Within(u, ranges[k])
      PROVE  Covered(u, all) /\ ~Within(u, page)
  BY Zenon, <1>0, <1>4, <1>5, <1>7 DEF MadeOf
<1>8. /\ Lengths(ranges) \in Seq(Nat) /\ Len(Lengths(ranges)) = m
      /\ \A i \in 1..m : Lengths(ranges)[i] = Length(ranges[i])
  BY Zenon, <1>6, LengthsType
<1> HIDE DEF page, m, all
<1>9. CASE t = Append(ranges, page)
  <2>1. t \in Seq(Ranged) /\ Len(t) = m + 1 /\ t[m + 1] = page /\ \A k \in 1..m : t[k] = ranges[k]
    BY <1>2, <1>9 DEF m
  <2>2. 1..Len(t) = (1..m) \cup {m + 1} /\ m + 1 \notin 1..m
    BY <1>0, <2>1
  <2> HIDE DEF t
  <2>3. MadeOf(t, all)
    BY Zenon, <1>2, <1>4, <1>6, <1>7, <2>1, <2>2 DEF MadeOf
  <2>4. Apart(t)
    BY Zenon, <1>0, <1>7, <2>1, <2>2 DEF Apart, m
  <2>5. Sum(Lengths(t)) = Sum(Sizes(all))
    <3>1. /\ Lengths(t) \in Seq(Nat) /\ Len(Lengths(t)) = Len(t)
          /\ \A i \in 1..Len(t) : Lengths(t)[i] = Length(t[i])
      BY Zenon, <2>1, <2>3, LengthsType DEF MadeOf
    <3>2. /\ Len(Lengths(t)) = Len(Lengths(ranges)) + 1
          /\ \A i \in 1..Len(Lengths(ranges)) : Lengths(t)[i] = Lengths(ranges)[i]
      BY Zenon, <1>8, <2>1, <2>2, <3>1
    <3>3. Lengths(t)[Len(Lengths(t))] = Size[p]
      BY Zenon, <1>2, <2>1, <2>2, <3>1
    <3>4. Sum(Lengths(t)) = Sum(Lengths(ranges)) + Size[p]
      BY Zenon, <1>8, <3>1, <3>2, <3>3, SumAppend
    <3> QED
      BY Zenon, <1>0, <1>3, <3>4
  <2> QED
    BY Zenon, <2>1, <2>3, <2>4, <2>5 DEF RangesInv, t, all
<1>10. CASE m > 0 /\ ranges[m].end + 1 = page.start /\ t = [ranges EXCEPT ![m].end = page.end]
  <2>0. m \in 1..m
    BY <1>0, <1>10
  <2>a. /\ ranges[m] \in Ranged /\ ranges[m].start \in Nat /\ ranges[m].end \in Nat
        /\ ranges[m].start <= ranges[m].end /\ page.start \in Nat /\ page.end \in Nat
    BY Zenon, <1>2, <1>6, <2>0 DEF Ranged
  <2>1. /\ t \in Seq(Ranged) /\ Len(t) = m /\ t[m].start = ranges[m].start /\ t[m].end = page.end
        /\ \A k \in 1..m : k # m => t[k] = ranges[k]
    <3> DEFINE r == [ranges[m] EXCEPT !.end = page.end]
    <3>1. r \in Ranged /\ r.start = ranges[m].start /\ r.end = page.end
      BY Zenon, <2>a, RangeExtended
    <3>2. t = [ranges EXCEPT ![m] = r]
      BY Zenon, <1>10
    <3> HIDE DEF t, r
    <3>3. t \in Seq(Ranged) /\ Len(t) = m /\ t[m] = r /\ \A k \in 1..m : k # m => t[k] = ranges[k]
      BY <2>0, <3>1, <3>2 DEF m
    <3> QED
      BY Zenon, <3>1, <3>3
  <2> HIDE DEF t
  <2>2. /\ t[m].start <= t[m].end /\ Length(t[m]) = Length(ranges[m]) + Size[p]
        /\ \A u \in Nat : Within(u, t[m]) <=> Within(u, ranges[m]) \/ Within(u, page)
    <3>1. t[m] \in Ranged
      BY <2>0, <2>1
    <3> DEFINE r == ranges[m]
               q == t[m]
    <3>2. /\ r \in Ranged /\ page \in Ranged /\ q \in Ranged /\ r.start <= r.end /\ page.start <= page.end
          /\ r.end + 1 = page.start /\ q.start = r.start /\ q.end = page.end /\ Length(page) = Size[p]
      BY Zenon, <1>2, <1>10, <2>a, <2>1, <3>1
    <3> HIDE DEF r, q
    <3>3. /\ q.start <= q.end /\ Length(q) = Length(r) + Size[p]
          /\ \A u \in Nat : Within(u, q) <=> Within(u, r) \/ Within(u, page)
      BY <3>2, RangeJoined
    <3> QED
      BY Zenon, <3>3 DEF r, q
  <2>3. MadeOf(t, all)
    BY Zenon, <1>4, <1>6, <1>7, <2>0, <2>1, <2>2 DEF MadeOf
  <2>4. Apart(t)
    BY Zenon, <1>0, <1>7, <2>0, <2>1, <2>2 DEF Apart, m
  <2>5. Sum(Lengths(t)) = Sum(Sizes(all))
    <3>1. /\ Lengths(t) \in Seq(Nat) /\ Len(Lengths(t)) = m
          /\ \A i \in 1..m : Lengths(t)[i] = Length(t[i])
      BY Zenon, <2>1, <2>3, LengthsType DEF MadeOf
    <3>2. \A i \in 1..m - 1 : i \in 1..m /\ i # m
      BY <1>0
    <3>3. \A i \in 1..m - 1 : Lengths(t)[i] = Lengths(ranges)[i]
      BY Zenon, <1>8, <2>1, <3>1, <3>2
    <3>4. Sum(Lengths(t)) + Lengths(ranges)[m] = Sum(Lengths(ranges)) + Lengths(t)[m]
      BY Zenon, <1>8, <1>10, <3>1, <3>3, SumReplace
    <3>5. Lengths(t)[m] = Lengths(ranges)[m] + Size[p] /\ Lengths(ranges)[m] \in Nat
      BY <1>8, <2>0, <2>2, <3>1
    <3>6. Sum(Lengths(t)) \in Nat
      BY Zenon, <3>1, SumType
    <3> DEFINE a == Sum(Lengths(t))
               b == Sum(Sizes(pages))
               c == Lengths(ranges)[m]
               d == Size[p]
    <3>7. a \in Nat /\ b \in Nat /\ c \in Nat /\ d \in Nat /\ a + c = b + (c + d)
      BY Zenon, <1>0, <1>1, <1>3, <3>4, <3>5, <3>6
    <3> HIDE DEF a, b, c, d
    <3>8. a = b + d
      BY <3>7, SumCancelled
    <3> QED
      BY Zenon, <1>3, <3>8 DEF a, b, d
  <2> QED
    BY Zenon, <2>1, <2>3, <2>4, <2>5 DEF RangesInv, t, all
<1> QED
  <2>1. ranges # <<>> => m > 0
    BY <1>0 DEF m
  <2> QED
    BY Zenon, <1>9, <1>10, <2>1 DEF Merge, t, page, m

(* The address of the next page.                                                *)
IsStepOfWalk(addr, size, len, more) ==
  /\ addr <= addr + len /\ addr + len < addr + size /\ addr + len < addr + (len + more)
  /\ \A x \in Nat : x < addr + len => x < addr + (len + more)

(* It is within the region and before the end of the page.                      *)
LEMMA StepOfWalk ==
  ASSUME NEW addr \in Nat, NEW size \in Nat, NEW len \in Nat, NEW more \in Nat, more > 0, len < size
  PROVE  IsStepOfWalk(addr, size, len, more)
  BY DEF IsStepOfWalk

(* A turn of the loop.                                                          *)
LEMMA NextPageInv ==
  ASSUME NEW addr \in Nat, NEW size \in Nat, NEW s, WalkInv(s, addr, size), s.end = "no"
  PROVE  WalkInv(NextPage(s, addr, size), addr, size)
<1> DEFINE a == addr + s.len
           t == NextPage(s, addr, size)
<1>0. s \in WalkState /\ RangesInv(s.ranges, s.pages) /\ PagesInv(s, addr, size)
  BY DEF WalkInv
<1>1. /\ s.pages \in Seq(Usable) /\ s.ranges \in Seq(Ranged) /\ s.len \in Nat /\ s.stray \subseteq Page
      /\ a \in Nat /\ Len(s.pages) \in Nat
  BY <1>0 DEF WalkState
<1>2. CASE t = [s EXCEPT !.end = "failed"]
  <2>1. /\ t \in WalkState /\ t.pages = s.pages /\ t.ranges = s.ranges /\ t.len = s.len
        /\ t.stray = s.stray /\ t.end = "failed"
    BY <1>0, <1>2 DEF WalkState
  <2> QED
    BY Zenon, <1>0, <2>1 DEF WalkInv, PagesInv
<1>3. ASSUME NEW p \in Behind(a), ~SanePage(p, a), t = [s EXCEPT !.end = "failed", !.stray = {p}]
      PROVE  WalkInv(t, addr, size)
  <2>1. p \in Page /\ p <= a /\ a < p + Size[p]
    BY Zenon DEF Behind
  <2>2. p \in Nat /\ (p \notin Usable \/ Size[p] # 1)
    BY <1>1, <1>3, <2>1, PageFacts DEF SanePage
  <2>3. /\ t \in WalkState /\ t.pages = s.pages /\ t.ranges = s.ranges /\ t.len = s.len
        /\ t.stray = {p} /\ t.end = "failed"
    <3> HIDE DEF t
    <3>1. t = [pages |-> s.pages, ranges |-> s.ranges, len |-> s.len, stray |-> {p}, end |-> "failed"]
      BY Zenon, <1>0, <1>3 DEF WalkState
    <3>2. {p} \in SUBSET Page
      BY <2>1
    <3> QED
      BY <1>1, <3>1, <3>2 DEF WalkState
  <2> QED
    BY Zenon, <1>0, <2>1, <2>2, <2>3 DEF WalkInv, PagesInv
<1>4. ASSUME NEW p \in Behind(a), SanePage(p, a), Len(s.pages) # size,
             t = [pages |-> Append(s.pages, p), ranges |-> Merge(s.ranges, p),
                  len |-> s.len + Size[p], stray |-> {},
                  end |-> IF s.len + Size[p] < size THEN "no" ELSE "done"]
      PROVE  WalkInv(t, addr, size)
  <2>1. p \in Usable /\ p = a /\ Size[p] \in Nat /\ Size[p] > 0
    BY Zenon, <1>4, PageFacts DEF SanePage
  <2>2. \A j \in 1..Len(s.pages) :
          /\ addr <= s.pages[j] /\ s.pages[j] < addr + size /\ s.pages[j] < a
          /\ s.pages[j] \in Nat
    <3>1. ASSUME NEW j \in 1..Len(s.pages) PROVE s.pages[j] \in Nat
      <4>1. s.pages[j] \in Usable
        BY <1>1
      <4> QED
        BY Zenon, <4>1, PageFacts
    <3> QED
      BY Zenon, <1>0, <3>1 DEF PagesInv
  <2>3. \A j \in 1..Len(s.pages) : s.pages[j] # p
    <3>1. ASSUME NEW x \in Nat, x < a PROVE x # a
      <4> DEFINE l == a
      <4>1. x < l /\ l \in Nat
        BY <1>1, <3>1
      <4> HIDE DEF l
      <4>2. x # l
        BY <4>1
      <4> QED
        BY Zenon, <4>2 DEF l
    <3> HIDE DEF a
    <3> QED
      BY Zenon, <2>1, <2>2, <3>1
  <2>4. Merge(s.ranges, p) \in Seq(Ranged) /\ RangesInv(Merge(s.ranges, p), Append(s.pages, p))
    BY Zenon, <1>0, <1>1, <2>1, <2>3, MergeInv
  <2>5. /\ Append(s.pages, p) \in Seq(Usable) /\ Len(Append(s.pages, p)) = Len(s.pages) + 1
        /\ Append(s.pages, p)[Len(s.pages) + 1] = p
        /\ \A j \in 1..Len(s.pages) : Append(s.pages, p)[j] = s.pages[j]
        /\ Sum(Sizes(Append(s.pages, p))) = Sum(Sizes(s.pages)) + Size[p]
    <3>1. s.pages \in Seq(Usable) /\ p \in Usable
      BY Zenon, <1>1, <2>1
    <3> QED
      BY Zenon, <3>1, PageAdded
  <2>6. /\ t.pages = Append(s.pages, p) /\ t.ranges = Merge(s.ranges, p) /\ t.len = s.len + Size[p]
        /\ t.stray = {} /\ t.end = (IF s.len + Size[p] < size THEN "no" ELSE "done")
        /\ t = [pages |-> t.pages, ranges |-> t.ranges, len |-> t.len, stray |-> t.stray, end |-> t.end]
    BY <1>4
  <2> HIDE DEF t
  <2>7. t \in WalkState
    <3>1. t.len \in Nat /\ t.end \in {"no", "failed", "done"} /\ t.stray \in SUBSET Page
      BY <1>1, <2>1, <2>6
    <3> QED
      BY Zenon, <2>4, <2>5, <2>6, <3>1 DEF WalkState
  <2>8. s.len < size
    BY Zenon, <1>0, <1>4 DEF PagesInv
  <2>9. \A j \in 1..Len(t.pages) :
          addr <= t.pages[j] /\ t.pages[j] < addr + size /\ t.pages[j] < addr + t.len
    <3>1. addr <= a /\ a < addr + size /\ a < addr + t.len /\ \A x \in Nat : x < a => x < addr + t.len
      <4> DEFINE l == s.len
                 x == Size[p]
      <4>1. l \in Nat /\ x \in Nat /\ x > 0 /\ l < size /\ t.len = l + x /\ a = addr + l
        BY Zenon, <1>1, <2>1, <2>6, <2>8
      <4> HIDE DEF l, x, a
      <4>2. IsStepOfWalk(addr, size, l, x)
        BY Zenon, <4>1, StepOfWalk
      <4> QED
        BY Zenon, <4>1, <4>2 DEF IsStepOfWalk
    <3>2. 1..Len(t.pages) = (1..Len(s.pages)) \cup {Len(s.pages) + 1}
      BY <1>1, <2>5, <2>6
    <3> HIDE DEF a
    <3> QED
      BY Zenon, <2>1, <2>2, <2>5, <2>6, <3>1, <3>2
  <2>10. /\ t.len = Sum(Sizes(t.pages)) /\ (t.end = "done" => size <= t.len)
         /\ (t.end = "no" => t.len < size) /\ t.stray = {}
    <3>1. s.len = Sum(Sizes(s.pages))
      BY Zenon, <1>0 DEF PagesInv
    <3>2. t.len = Sum(Sizes(t.pages)) /\ t.stray = {} /\ (t.end = "no" => t.len < size)
      BY Zenon, <2>5, <2>6, <3>1
    <3>3. t.end = "done" => ~(s.len + Size[p] < size)
      BY Zenon, <2>6
    <3> QED
      BY <1>1, <2>1, <2>6, <3>2, <3>3
  <2> QED
    BY Zenon, <2>4, <2>6, <2>7, <2>9, <2>10 DEF WalkInv, PagesInv
<1> QED
  <2>1. CASE Len(s.pages) = size \/ Behind(a) = {}
    BY Zenon, <1>2, <2>1 DEF NextPage
  <2>2. CASE ~(Len(s.pages) = size \/ Behind(a) = {})
    <3> DEFINE p == CHOOSE q \in Page : q \in Behind(a)
    <3>1. p \in Behind(a)
      BY Zenon, <2>2 DEF Behind
    <3>2. t = IF ~SanePage(p, a)
              THEN [s EXCEPT !.end = "failed", !.stray = {p}]
              ELSE [pages |-> Append(s.pages, p), ranges |-> Merge(s.ranges, p),
                    len |-> s.len + Size[p], stray |-> {},
                    end |-> IF s.len + Size[p] < size THEN "no" ELSE "done"]
      BY Zenon, <2>2 DEF NextPage
    <3> HIDE DEF p, a, t
    <3>3. WalkInv(t, addr, size)
      BY Zenon, <1>3, <1>4, <2>2, <3>1, <3>2
    <3> QED
      BY Zenon, <3>3 DEF t
  <2> QED
    BY Zenon, <2>1, <2>2

(* The whole loop.                                                              *)
LEMMA WalkIsInv ==
  ASSUME NEW addr \in Nat, NEW size \in Nat
  PROVE  WalkInv(Walk(addr, size), addr, size)
<1>1. PICK f : /\ Walk(addr, size) = f[size + 1] /\ f[0] = NothingWalked
               /\ \A n \in 1..size + 1 : f[n] = Turn(f[n - 1], addr, size)
  BY Zenon, WalkOf
<1> DEFINE S == {n \in Nat : n <= size + 1 => WalkInv(f[n], addr, size)}
<1>2. 0 \in S
  <2> DEFINE s == NothingWalked
  <2>1. /\ s \in WalkState /\ s.pages = <<>> /\ s.ranges = <<>> /\ s.len = 0 /\ s.stray = {} /\ s.end = "no"
    BY DEF NothingWalked, WalkState
  <2>2. Len(s.pages) = 0 /\ Len(s.ranges) = 0 /\ s.pages \in Seq(Usable) /\ s.ranges \in Seq(Ranged)
        /\ 1..Len(s.pages) = {} /\ 1..Len(s.ranges) = {}
    BY <2>1
  <2> HIDE DEF s
  <2>3. Sum(Sizes(s.pages)) = 0 /\ Sum(Lengths(s.ranges)) = 0
    <3>1. Sizes(s.pages) \in Seq(Nat) /\ Len(Sizes(s.pages)) = 0
      BY Zenon, <2>2, SizesType
    <3>2. Lengths(s.ranges) \in Seq(Nat) /\ Len(Lengths(s.ranges)) = 0
      BY Zenon, <2>2, LengthsType
    <3> QED
      BY Zenon, <3>1, <3>2, SumEmpty
  <2>4. 0 < size \/ size = 0
    OBVIOUS
  <2>5. WalkInv(s, addr, size)
    BY Zenon, <2>1, <2>2, <2>3, <2>4 DEF WalkInv, PagesInv, RangesInv, MadeOf, Apart
  <2> QED
    BY Zenon, <1>1, <2>5 DEF s
<1>3. ASSUME NEW n \in Nat, n \in S PROVE n + 1 \in S
  <2> SUFFICES ASSUME n + 1 <= size + 1 PROVE WalkInv(f[n + 1], addr, size)
    OBVIOUS
  <2>1. n <= size + 1 /\ n + 1 \in 1..size + 1 /\ (n + 1) - 1 = n
    OBVIOUS
  <2>2. WalkInv(f[n], addr, size) /\ f[n + 1] = Turn(f[n], addr, size)
    BY Zenon, <1>1, <1>3, <2>1
  <2> QED
    BY Zenon, <2>2, NextPageInv DEF Turn
<1>4. size + 1 \in S
  <2>1. size + 1 \in Nat
    OBVIOUS
  <2> HIDE DEF S
  <2> QED
    BY Zenon, <1>2, <1>3, <2>1, Induction
<1>5. size + 1 <= size + 1
  OBVIOUS
<1> QED
  BY Zenon, <1>1, <1>4, <1>5

--------------------------------------------------------------------------------
(* Ranges put together *)

(* The step of an induction over the first of two sequences.                    *)
IsFirstStep(k, m, n) == n <= k /\ n + 1 \in 1..k /\ n + 1 \in 1..k + m /\ (n + 1) - 1 = n

(* It stays within the first.                                                   *)
LEMMA StepFirst ==
  ASSUME NEW k \in Nat, NEW m \in Nat, NEW n \in Nat, n + 1 <= k
  PROVE  IsFirstStep(k, m, n)
  BY DEF IsFirstStep

(* The step of an induction over the second of two sequences.                   *)
IsStep(k, m, n) ==
  /\ n <= m /\ n + 1 \in 1..m /\ (n + 1) - 1 = n /\ n \in 0..m
  /\ k + (n + 1) \in 1..k + m /\ (k + (n + 1)) - 1 = k + n

(* It stays within the two.                                                     *)
LEMMA StepJoined ==
  ASSUME NEW k \in Nat, NEW m \in Nat, NEW n \in Nat, n + 1 <= m
  PROVE  IsStep(k, m, n)
  BY DEF IsStep

(* Three numbers.                                                               *)
LEMMA SumOfThree ==
  \A x, y, z \in Nat : (x + y) + z = x + (y + z)
  OBVIOUS

(* The sum of two sequences, one after the other.                               *)
LEMMA SumJoined ==
  ASSUME NEW s \in Seq(Nat), NEW u \in Seq(Nat), NEW t \in Seq(Nat), Len(t) = Len(s) + Len(u),
         \A i \in 1..Len(s) : t[i] = s[i], \A i \in 1..Len(u) : t[Len(s) + i] = u[i]
  PROVE  Sum(t) = Sum(s) + Sum(u)
<1>1. PICK f \in [0..Len(s) -> Nat] :
        Sum(s) = f[Len(s)] /\ f[0] = 0 /\ \A n \in 1..Len(s) : f[n] = f[n - 1] + s[n]
  BY Zenon, SumOf
<1>2. PICK h \in [0..Len(u) -> Nat] :
        Sum(u) = h[Len(u)] /\ h[0] = 0 /\ \A n \in 1..Len(u) : h[n] = h[n - 1] + u[n]
  BY Zenon, SumOf
<1>3. PICK g \in [0..Len(t) -> Nat] :
        Sum(t) = g[Len(t)] /\ g[0] = 0 /\ \A n \in 1..Len(t) : g[n] = g[n - 1] + t[n]
  BY Zenon, SumOf
<1> DEFINE k == Len(s)
           m == Len(u)
           S == {n \in Nat : n <= k => g[n] = f[n]}
           R == {n \in Nat : n <= m => g[k + n] = f[k] + h[n]}
<1>a. k \in Nat /\ m \in Nat /\ Len(t) = k + m /\ k <= k /\ k + 0 = k /\ k \in 0..k
      /\ m <= m
  OBVIOUS
<1> HIDE DEF k, m
<1>4. \A n \in Nat : n \in S
  <2>1. 0 \in S
    BY Zenon, <1>1, <1>3
  <2>2. ASSUME NEW n \in Nat, n \in S PROVE n + 1 \in S
    <3> SUFFICES ASSUME n + 1 <= k PROVE g[n + 1] = f[n + 1]
      OBVIOUS
    <3>1. n <= k /\ n + 1 \in 1..k /\ n + 1 \in 1..Len(t) /\ (n + 1) - 1 = n
      <4>1. k \in Nat /\ m \in Nat
        BY Zenon, <1>a
      <4>2. IsFirstStep(k, m, n)
        BY Zenon, <4>1, StepFirst
      <4> QED
        BY Zenon, <1>a, <4>2 DEF IsFirstStep
    <3>2. f[n + 1] = f[n] + s[n + 1] /\ g[n + 1] = g[n] + t[n + 1] /\ t[n + 1] = s[n + 1] /\ g[n] = f[n]
      BY Zenon, <1>1, <1>3, <2>2, <3>1 DEF k
    <3> QED
      BY Zenon, <3>2
  <2> HIDE DEF S
  <2> QED
    BY Zenon, <2>1, <2>2, Induction
<1>5. f[k] \in Nat /\ g[k] = f[k]
  BY Zenon, <1>a, <1>1, <1>4 DEF k
<1>6. \A n \in Nat : n \in R
  <2>1. 0 \in R
    BY <1>a, <1>2, <1>5
  <2>2. ASSUME NEW n \in Nat, n \in R PROVE n + 1 \in R
    <3> SUFFICES ASSUME n + 1 <= m PROVE g[k + (n + 1)] = f[k] + h[n + 1]
      OBVIOUS
    <3>1. /\ n <= m /\ n + 1 \in 1..m /\ (n + 1) - 1 = n /\ n \in 0..m
          /\ k + (n + 1) \in 1..Len(t) /\ (k + (n + 1)) - 1 = k + n
      <4>1. k \in Nat /\ m \in Nat
        BY Zenon, <1>a
      <4>2. IsStep(k, m, n)
        BY Zenon, <4>1, StepJoined
      <4> QED
        BY Zenon, <1>a, <4>2 DEF IsStep
    <3>2. /\ h[n + 1] = h[n] + u[n + 1] /\ g[k + (n + 1)] = g[k + n] + t[k + (n + 1)]
          /\ t[k + (n + 1)] = u[n + 1] /\ g[k + n] = f[k] + h[n] /\ h[n] \in Nat
      BY Zenon, <1>2, <1>3, <2>2, <3>1 DEF k, m
    <3>3. u[n + 1] \in Nat
      BY Zenon, <3>1, ElementOf DEF m
    <3>4. (f[k] + h[n]) + u[n + 1] = f[k] + (h[n] + u[n + 1])
      BY Zenon, <1>5, <3>2, <3>3, SumOfThree
    <3> QED
      BY Zenon, <3>2, <3>4
  <2> HIDE DEF R
  <2> QED
    BY Zenon, <2>1, <2>2, Induction
<1> QED
  BY Zenon, <1>a, <1>1, <1>2, <1>3, <1>6 DEF k, m

(* A part of the numbers sums up to no more.                                    *)
LEMMA SumPrefix ==
  ASSUME NEW s \in Seq(Nat), NEW t \in Seq(Nat), Len(s) <= Len(t), \A i \in 1..Len(s) : t[i] = s[i]
  PROVE  Sum(s) <= Sum(t)
<1> DEFINE u == [i \in 1..Len(t) - Len(s) |-> t[Len(s) + i]]
<1>1. u \in Seq(Nat) /\ Len(u) = Len(t) - Len(s)
  OBVIOUS
<1>2. Len(t) = Len(s) + Len(u) /\ \A i \in 1..Len(u) : t[Len(s) + i] = u[i]
  BY <1>1
<1> HIDE DEF u
<1>3. Sum(t) = Sum(s) + Sum(u)
  BY Zenon, <1>1, <1>2, SumJoined
<1>4. Sum(s) \in Nat /\ Sum(u) \in Nat
  BY Zenon, <1>1, SumType
<1> QED
  BY <1>3, <1>4

(* Sequences of ranges, one after the other.                                    *)
LEMMA RangesJoined ==
  ASSUME NEW r \in Seq(Ranged), NEW q \in Seq(Ranged)
  PROVE  /\ r \o q \in Seq(Ranged) /\ Len(r \o q) = Len(r) + Len(q)
         /\ \A k \in 1..Len(r) : (r \o q)[k] = r[k]
         /\ \A k \in 1..Len(q) : (r \o q)[Len(r) + k] = q[k]
         /\ \A k \in 1..Len(r \o q) : k \in 1..Len(r) \/ \E l \in 1..Len(q) : k = Len(r) + l
<1>1. /\ r \o q \in Seq(Ranged) /\ Len(r \o q) = Len(r) + Len(q) /\ Len(r) \in Nat /\ Len(q) \in Nat
      /\ \A k \in 1..Len(r) : (r \o q)[k] = r[k]
      /\ \A k \in 1..Len(q) : (r \o q)[Len(r) + k] = q[k]
  OBVIOUS
<1>2. ASSUME NEW k \in 1..Len(r \o q), k \notin 1..Len(r)
      PROVE  k - Len(r) \in 1..Len(q) /\ k = Len(r) + (k - Len(r))
  BY <1>1, <1>2
<1> QED
  BY Zenon, <1>1, <1>2

(* Every range has a first unit and is made of units of a given kind.           *)
MadeIn(ranges, T) ==
  \A k \in 1..Len(ranges) :
    ranges[k].start <= ranges[k].end /\ \A u \in Nat : Within(u, ranges[k]) => u \in T

(* Ranges over disjoint sets of units stay apart, and their lengths add up.     *)
LEMMA ApartJoined ==
  ASSUME NEW r \in Seq(Ranged), NEW q \in Seq(Ranged), NEW T, NEW V, T \cap V = {},
         MadeIn(r, T), MadeIn(q, V), Apart(r), Apart(q)
  PROVE  /\ MadeIn(r \o q, T \cup V) /\ Apart(r \o q)
         /\ Sum(Lengths(r \o q)) = Sum(Lengths(r)) + Sum(Lengths(q))
<1> DEFINE t == r \o q
<1>1. /\ t \in Seq(Ranged) /\ Len(t) = Len(r) + Len(q)
      /\ \A k \in 1..Len(r) : t[k] = r[k]
      /\ \A k \in 1..Len(q) : t[Len(r) + k] = q[k]
      /\ \A k \in 1..Len(t) : k \in 1..Len(r) \/ \E l \in 1..Len(q) : k = Len(r) + l
  BY Zenon, RangesJoined
<1> HIDE DEF t
<1>2. MadeIn(t, T \cup V)
  <2> SUFFICES ASSUME NEW k \in 1..Len(t)
               PROVE  t[k].start <= t[k].end /\ \A u \in Nat : Within(u, t[k]) => u \in T \cup V
    BY Zenon DEF MadeIn
  <2>1. CASE k \in 1..Len(r)
    BY Zenon, <1>1, <2>1 DEF MadeIn
  <2>2. ASSUME NEW l \in 1..Len(q), k = Len(r) + l
        PROVE  t[k].start <= t[k].end /\ \A u \in Nat : Within(u, t[k]) => u \in T \cup V
    BY Zenon, <1>1, <2>2 DEF MadeIn
  <2> QED
    BY Zenon, <1>1, <2>1, <2>2
<1>3. Apart(t)
  <2> SUFFICES ASSUME NEW k \in 1..Len(t), NEW l \in 1..Len(t), k # l, NEW u \in Nat,
                      Within(u, t[k]), Within(u, t[l])
               PROVE  FALSE
    BY Zenon DEF Apart
  <2>1. CASE k \in 1..Len(r) /\ l \in 1..Len(r)
    BY Zenon, <1>1, <2>1 DEF Apart
  <2>2. ASSUME NEW i \in 1..Len(q), NEW j \in 1..Len(q), k = Len(r) + i, l = Len(r) + j PROVE FALSE
    BY Zenon, <1>1, <2>2 DEF Apart
  <2>3. ASSUME NEW i \in 1..Len(q), (k = Len(r) + i /\ l \in 1..Len(r)) \/ (l = Len(r) + i /\ k \in 1..Len(r))
        PROVE  FALSE
    BY Zenon, <1>1, <2>3 DEF MadeIn
  <2> QED
    BY Zenon, <1>1, <2>1, <2>2, <2>3
<1>4. Sum(Lengths(t)) = Sum(Lengths(r)) + Sum(Lengths(q))
  <2>1. Lengths(r) \in Seq(Nat) /\ Len(Lengths(r)) = Len(r) /\ \A i \in 1..Len(r) : Lengths(r)[i] = Length(r[i])
    BY Zenon, LengthsType DEF MadeIn
  <2>2. Lengths(q) \in Seq(Nat) /\ Len(Lengths(q)) = Len(q) /\ \A i \in 1..Len(q) : Lengths(q)[i] = Length(q[i])
    BY Zenon, LengthsType DEF MadeIn
  <2>3. Lengths(t) \in Seq(Nat) /\ Len(Lengths(t)) = Len(t) /\ \A i \in 1..Len(t) : Lengths(t)[i] = Length(t[i])
    BY Zenon, <1>1, <1>2, LengthsType DEF MadeIn
  <2>4. /\ \A i \in 1..Len(r) : i \in 1..Len(t)
        /\ \A i \in 1..Len(q) : Len(r) + i \in 1..Len(t)
    BY <1>1
  <2> DEFINE a == Lengths(r)
             b == Lengths(q)
             c == Lengths(t)
  <2>5. /\ a \in Seq(Nat) /\ b \in Seq(Nat) /\ c \in Seq(Nat) /\ Len(c) = Len(a) + Len(b)
        /\ \A i \in 1..Len(a) : c[i] = a[i]
        /\ \A i \in 1..Len(b) : c[Len(a) + i] = b[i]
    <3>1. ASSUME NEW i \in 1..Len(a) PROVE c[i] = a[i]
      BY Zenon, <1>1, <2>1, <2>3, <2>4
    <3>2. ASSUME NEW i \in 1..Len(b) PROVE c[Len(a) + i] = b[i]
      <4>1. i \in 1..Len(q) /\ b[i] = Length(q[i])
        BY Zenon, <2>2
      <4>2. Len(r) + i \in 1..Len(t) /\ t[Len(r) + i] = q[i]
        BY Zenon, <1>1, <2>4, <4>1
      <4>3. c[Len(r) + i] = b[i]
        BY Zenon, <2>3, <4>1, <4>2
      <4> QED
        BY Zenon, <2>1, <4>3
    <3>3. Len(c) = Len(a) + Len(b)
      BY Zenon, <1>1, <2>1, <2>2, <2>3
    <3> QED
      BY Zenon, <2>1, <2>2, <2>3, <3>1, <3>2, <3>3
  <2> HIDE DEF a, b, c
  <2>6. Sum(c) = Sum(a) + Sum(b)
    BY Zenon, <2>5, SumJoined
  <2> QED
    BY Zenon, <2>6 DEF a, b, c
<1> QED
  BY Zenon, <1>2, <1>3, <1>4 DEF t

(* Ranges that are apart hold as many units as their lengths say.               *)
LEMMA ApartCardinality ==
  ASSUME NEW r \in Seq(Ranged), \A k \in 1..Len(r) : r[k].start <= r[k].end, Apart(r)
  PROVE  Cardinality(UNION {r[i].start..r[i].end : i \in 1..Len(r)}) = Sum(Lengths(r))
<1> DEFINE I(i) == r[i].start..r[i].end
           U(n) == UNION {I(i) : i \in 1..n}
           L == Lengths(r)
<1>1. L \in Seq(Nat) /\ Len(L) = Len(r) /\ \A i \in 1..Len(r) : L[i] = Length(r[i])
  BY Zenon, LengthsType
<1> HIDE DEF L
<1>2. PICK f \in [0..Len(L) -> Nat] :
        Sum(L) = f[Len(L)] /\ f[0] = 0 /\ \A n \in 1..Len(L) : f[n] = f[n - 1] + L[n]
  BY Zenon, <1>1, SumOf
<1>3. ASSUME NEW i \in 1..Len(r)
      PROVE  IsFiniteSet(I(i)) /\ Cardinality(I(i)) = L[i] /\ L[i] \in Nat
             /\ \A u : u \in I(i) <=> u \in Nat /\ Within(u, r[i])
  <2>0. r[i] \in Ranged
    OBVIOUS
  <2>1. r[i].start \in Nat /\ r[i].end \in Nat /\ r[i].start <= r[i].end
    BY Zenon, <2>0 DEF Ranged
  <2>2. r[i].start \in Int /\ r[i].end \in Int /\ ~(r[i].start > r[i].end)
        /\ (\A u : u \in I(i) <=> u \in Nat /\ Within(u, r[i])) /\ Length(r[i]) \in Nat
    <3> DEFINE a == r[i].start
               b == r[i].end
    <3>1. a \in Nat /\ b \in Nat /\ a <= b
      BY Zenon, <2>1
    <3> HIDE DEF a, b
    <3>2. /\ a \in Int /\ b \in Int /\ ~(a > b) /\ b - a + 1 \in Nat
          /\ \A u : u \in a..b <=> u \in Nat /\ a <= u /\ u <= b
      BY <3>1
    <3> QED
      BY Zenon, <3>2 DEF a, b, Within, Length
  <2>3. IsFiniteSet(I(i)) /\ Cardinality(I(i)) = r[i].end - r[i].start + 1
    BY Zenon, <2>2, FS_Interval
  <2> QED
    BY Zenon, <1>1, <2>2, <2>3 DEF Length
<1> HIDE DEF I
<1> DEFINE S == {n \in Nat : n <= Len(L) => IsFiniteSet(U(n)) /\ Cardinality(U(n)) = f[n]}
<1>4. \A n \in Nat : n \in S
  <2>1. 0 \in S
    <3>1. U(0) = {}
      OBVIOUS
    <3> QED
      BY Zenon, <1>2, <3>1, FS_EmptySet
  <2>2. ASSUME NEW n \in Nat, n \in S PROVE n + 1 \in S
    <3> SUFFICES ASSUME n + 1 <= Len(L) PROVE IsFiniteSet(U(n + 1)) /\ Cardinality(U(n + 1)) = f[n + 1]
      OBVIOUS
    <3>1. /\ n <= Len(L) /\ n + 1 \in 1..Len(L) /\ (n + 1) - 1 = n /\ n \in 0..Len(L)
          /\ 1..(n + 1) = (1..n) \cup {n + 1} /\ \A i \in 1..n : i # n + 1 /\ i \in 1..Len(L)
      BY <1>1
    <3>2. U(n + 1) = U(n) \cup I(n + 1)
      BY Zenon, <3>1
    <3>3. U(n) \cap I(n + 1) = {}
      <4> SUFFICES ASSUME NEW u, u \in U(n), u \in I(n + 1) PROVE FALSE
        BY Zenon
      <4>1. PICK i \in 1..n : u \in I(i)
        BY Zenon
      <4>2. i \in 1..Len(r) /\ n + 1 \in 1..Len(r) /\ i # n + 1
        BY Zenon, <1>1, <3>1
      <4> QED
        BY Zenon, <1>3, <4>1, <4>2 DEF Apart
    <3>4. /\ IsFiniteSet(U(n)) /\ Cardinality(U(n)) = f[n] /\ f[n] \in Nat /\ f[n + 1] = f[n] + L[n + 1]
          /\ IsFiniteSet(I(n + 1)) /\ Cardinality(I(n + 1)) = L[n + 1] /\ L[n + 1] \in Nat
      BY Zenon, <1>1, <1>2, <1>3, <2>2, <3>1
    <3> HIDE DEF U
    <3>5. IsFiniteSet(U(n) \cup I(n + 1))
          /\ Cardinality(U(n) \cup I(n + 1)) = f[n] + L[n + 1] - Cardinality(U(n) \cap I(n + 1))
      BY Zenon, <3>4, FS_Union
    <3>6. Cardinality(U(n) \cap I(n + 1)) = 0
      BY Zenon, <3>3, FS_EmptySet
    <3>7. f[n] + L[n + 1] - 0 = f[n + 1]
      BY <3>4
    <3> QED
      BY Zenon, <3>2, <3>5, <3>6, <3>7
  <2> HIDE DEF S
  <2> QED
    BY Zenon, <2>1, <2>2, Induction
<1>5. Len(r) \in Nat /\ Len(r) <= Len(r)
  OBVIOUS
<1>6. Cardinality(U(Len(r))) = Sum(L)
  BY Zenon, <1>1, <1>2, <1>4, <1>5
<1> QED
  BY Zenon, <1>6 DEF I, L

--------------------------------------------------------------------------------
(* The regions, the slot and the references *)

(* The units of a sequence of pages and of the regions that are listed.         *)
UnitsIn(pages) == {u \in Nat : Covered(u, pages)}

UnitsOf(list) == {u \in Nat : \E i \in 1..Len(list) : Covered(u, list[i].pages)}

MemRegion == [addr : Nat, size : Nat, pages : Seq(Usable)]

(* The pages of a listed region lie within it.                                  *)
EntriesInv ==
  /\ entries \in Seq(MemRegion)
  /\ \A i \in 1..Len(entries) : \A j \in 1..Len(entries[i].pages) :
       /\ entries[i].addr <= entries[i].pages[j]
       /\ entries[i].pages[j] < entries[i].addr + entries[i].size

(* The ranges in the slot are apart and made of listed pages, and mem_size is   *)
(* the sum of their lengths.                                                    *)
SlotInv ==
  /\ slot \in Seq(Ranged) /\ MadeIn(slot, UnitsOf(entries)) /\ Apart(slot)
  /\ memSize = Sum(Lengths(slot)) /\ nrRegions \in Nat

Holders(p) == {i \in DOMAIN entries : p \in Range(entries[i].pages)}

(* A listed page is pinned, and a single usable page once for each region that  *)
(* lists it.                                                                    *)
RefsInv ==
  /\ refs \in [Page -> Nat]
  /\ \A i \in 1..Len(entries) : \A p \in Range(entries[i].pages) : refs[p] > 0
  /\ \A p \in Usable : Size[p] = 1 => refs[p] = Cardinality(Holders(p))

(* The inductive invariant.                                                     *)
MemInv ==
  /\ open => EntriesInv /\ SlotInv /\ RefsInv
  /\ ~open => slot = <<>> /\ \A p \in Usable : Size[p] = 1 => refs[p] = 0

(* Before the first call.                                                       *)
LEMMA InitMem ==
  Init => MemInv
<1> SUFFICES ASSUME Init PROVE MemInv
  OBVIOUS
<1>1. /\ open = TRUE /\ entries = <<>> /\ refs = [p \in Page |-> 0] /\ slot = <<>>
      /\ memSize = 0 /\ nrRegions = 0
  BY Zenon DEF Init
<1>2. /\ entries \in Seq(MemRegion) /\ slot \in Seq(Ranged) /\ 1..Len(entries) = {}
      /\ 1..Len(slot) = {} /\ Len(slot) = 0 /\ DOMAIN entries = {} /\ nrRegions \in Nat
  BY <1>1
<1>3. EntriesInv
  BY Zenon, <1>2 DEF EntriesInv
<1>4. SlotInv
  <2>1. Lengths(slot) \in Seq(Nat) /\ Len(Lengths(slot)) = 0
    BY Zenon, <1>2, LengthsType
  <2>2. memSize = Sum(Lengths(slot))
    BY Zenon, <1>1, <2>1, SumEmpty
  <2> QED
    BY Zenon, <1>2, <2>2 DEF SlotInv, MadeIn, Apart
<1>5. RefsInv
  <2>1. refs \in [Page -> Nat] /\ \A p \in Page : refs[p] = 0
    BY <1>1
  <2>2. ASSUME NEW p \in Usable PROVE refs[p] = 0 /\ Cardinality(Holders(p)) = 0
    <3>1. Holders(p) = {}
      BY Zenon, <1>2 DEF Holders
    <3> QED
      BY Zenon, <2>1, <3>1, FS_EmptySet, PageFacts
  <2> QED
    BY Zenon, <1>2, <2>1, <2>2 DEF RefsInv
<1> QED
  BY Zenon, <1>1, <1>3, <1>4, <1>5 DEF MemInv

(* What the references are after some pages were pinned.                        *)
LEMMA Pinned ==
  ASSUME NEW pages, refs \in [Page -> Nat], Pin(pages)
  PROVE  /\ refs' \in [Page -> Nat]
         /\ \A p \in Page : refs'[p] >= refs[p] /\ (p \in pages => refs'[p] = refs[p] + 1)
         /\ \A p \in Page : p \notin pages => refs'[p] = refs[p]
  BY DEF Pin

(* A region that is refused leaves the list and the slot, and pins no more than *)
(* a stray page.                                                                *)
LEMMA RefuseMem ==
  ASSUME NEW addr \in Nat, NEW size \in Nat, open, open', MemInv, RefuseRegion(addr, size)
  PROVE  MemInv'
<1> DEFINE s == Walk(addr, size)
<1>1. EntriesInv /\ SlotInv /\ RefsInv /\ UNCHANGED <<entries, slot, memSize, nrRegions>>
  BY Zenon DEF MemInv, RefuseRegion
<1>2. entries' = entries /\ slot' = slot /\ memSize' = memSize /\ nrRegions' = nrRegions
  BY <1>1
<1>3. EntriesInv' /\ SlotInv'
  BY Zenon, <1>1, <1>2 DEF EntriesInv, SlotInv
<1>4. RefsInv'
  <2>1. CASE UNCHANGED refs
    BY Zenon, <1>1, <1>2, <2>1 DEF RefsInv, Holders
  <2>2. CASE Pin(s.stray)
    <3>1. \A p \in s.stray : p \notin Usable \/ Size[p] # 1
      BY Zenon, WalkIsInv DEF WalkInv, PagesInv
    <3> HIDE DEF s
    <3>2. refs \in [Page -> Nat]
      BY Zenon, <1>1 DEF RefsInv
    <3>3. /\ refs' \in [Page -> Nat] /\ \A p \in Page : refs'[p] >= refs[p]
          /\ \A p \in Page : p \notin s.stray => refs'[p] = refs[p]
      BY Zenon, <2>2, <3>2, Pinned
    <3>4. ASSUME NEW i \in 1..Len(entries), NEW p \in Range(entries[i].pages) PROVE refs'[p] > 0
      <4>1. refs[p] > 0
        BY Zenon, <1>1 DEF RefsInv
      <4>2. p \in Page
        <5>1. entries[i] \in MemRegion
          BY <1>1 DEF EntriesInv
        <5>2. entries[i].pages \in Seq(Usable)
          BY <5>1 DEF MemRegion
        <5>3. p \in Usable
          BY <5>2 DEF Range
        <5> QED
          BY Zenon, <5>3, PageFacts
      <4> QED
        BY <3>2, <3>3, <4>1, <4>2
    <3>5. ASSUME NEW p \in Usable, Size[p] = 1 PROVE refs'[p] = Cardinality(Holders(p))
      BY Zenon, <1>1, <3>1, <3>3, <3>5, PageFacts DEF RefsInv
    <3> QED
      BY Zenon, <1>2, <3>3, <3>4, <3>5 DEF RefsInv, Holders
  <2> QED
    BY Zenon, <2>1, <2>2 DEF RefuseRegion
<1> QED
  BY Zenon, <1>3, <1>4 DEF MemInv

(* What a listed region is.                                                     *)
LEMMA EntryType ==
  ASSUME NEW i \in 1..Len(entries), EntriesInv
  PROVE  /\ entries[i].addr \in Nat /\ entries[i].size \in Nat /\ entries[i].pages \in Seq(Usable)
         /\ \A j \in 1..Len(entries[i].pages) :
              /\ entries[i].pages[j] \in Usable
              /\ entries[i].addr <= entries[i].pages[j]
              /\ entries[i].pages[j] < entries[i].addr + entries[i].size
<1>1. entries[i] \in MemRegion
  BY DEF EntriesInv
<1>2. entries[i].addr \in Nat /\ entries[i].size \in Nat /\ entries[i].pages \in Seq(Usable)
  BY <1>1 DEF MemRegion
<1>3. \A j \in 1..Len(entries[i].pages) : entries[i].pages[j] \in Usable
  BY <1>2
<1> QED
  BY Zenon, <1>2, <1>3 DEF EntriesInv

(* Two intervals of addresses that do not meet share no page.                   *)
LEMMA IntervalsApart ==
  ASSUME NEW a \in Nat, NEW m \in Nat, NEW b \in Nat, NEW n \in Nat, NEW p \in Nat,
         ~(b <= a /\ a < b + n), ~(a <= b /\ a + m > b), a <= p, p < a + m, b <= p, p < b + n
  PROVE  FALSE
  OBVIOUS

(* A region that meets no region of the list has units of its own.              *)
LEMMA RegionIsOwn ==
  ASSUME NEW addr \in Nat, NEW size \in Nat, EntriesInv, UserRegionFree(addr, size),
         NEW pages \in Seq(Usable), \A j \in 1..Len(pages) : addr <= pages[j] /\ pages[j] < addr + size
  PROVE  UnitsOf(entries) \cap UnitsIn(pages) = {}
<1> SUFFICES ASSUME NEW u \in Nat, NEW i \in 1..Len(entries), Covered(u, entries[i].pages), Covered(u, pages)
             PROVE  FALSE
  BY Zenon DEF UnitsOf, UnitsIn
<1> DEFINE e == entries[i]
<1>1. /\ e.addr \in Nat /\ e.size \in Nat /\ e.pages \in Seq(Usable)
      /\ \A j \in 1..Len(e.pages) :
           e.pages[j] \in Usable /\ e.addr <= e.pages[j] /\ e.pages[j] < e.addr + e.size
  BY Zenon, EntryType
<1>2. ~(e.addr <= addr /\ addr < e.addr + e.size) /\ ~(addr <= e.addr /\ addr + size > e.addr)
  <2>1. i \in DOMAIN entries
    BY DEF EntriesInv
  <2> QED
    BY Zenon, <2>1 DEF UserRegionFree
<1>3. Covered(u, e.pages)
  BY Zenon
<1> HIDE DEF e
<1>4. PICK j \in 1..Len(e.pages) : Phys[e.pages[j]] <= u /\ u < Phys[e.pages[j]] + Size[e.pages[j]]
  BY Zenon, <1>3 DEF Covered
<1>5. PICK k \in 1..Len(pages) : Phys[pages[k]] <= u /\ u < Phys[pages[k]] + Size[pages[k]]
  BY Zenon DEF Covered
<1>6. pages[k] \in Usable
  OBVIOUS
<1>7. e.pages[j] = pages[k] /\ pages[k] \in Nat
  BY Zenon, <1>1, <1>4, <1>5, <1>6, PageFacts
<1> DEFINE p == pages[k]
<1>8. p \in Nat /\ addr <= p /\ p < addr + size /\ e.addr <= p /\ p < e.addr + e.size
  BY Zenon, <1>1, <1>7
<1> DEFINE b == e.addr
           n == e.size
<1>9. /\ b \in Nat /\ n \in Nat /\ ~(b <= addr /\ addr < b + n) /\ ~(addr <= b /\ addr + size > b)
      /\ b <= p /\ p < b + n
  BY Zenon, <1>1, <1>2, <1>8
<1> HIDE DEF p, b, n
<1> QED
  BY Zenon, <1>8, <1>9, IntervalsApart

(* The first ranges of a walk.                                                  *)
LEMMA RangesBegun ==
  ASSUME NEW r \in Seq(Ranged), NEW n \in 0..Len(r)
  PROVE  /\ SubSeq(r, 1, n) \in Seq(Ranged) /\ Len(SubSeq(r, 1, n)) = n
         /\ \A k \in 1..n : SubSeq(r, 1, n)[k] = r[k] /\ k \in 1..Len(r)
         /\ n = Len(r) => SubSeq(r, 1, n) = r
  OBVIOUS

(* One more region on the list.                                                 *)
LEMMA EntryAdded ==
  ASSUME NEW e \in MemRegion, EntriesInv, entries' = Append(entries, e),
         \A j \in 1..Len(e.pages) : e.addr <= e.pages[j] /\ e.pages[j] < e.addr + e.size
  PROVE  /\ EntriesInv' /\ Len(entries') = Len(entries) + 1 /\ entries'[Len(entries')] = e
         /\ \A i \in 1..Len(entries) : entries'[i] = entries[i]
         /\ 1..Len(entries') = (1..Len(entries)) \cup {Len(entries) + 1}
         /\ DOMAIN entries' = (DOMAIN entries) \cup {Len(entries) + 1} /\ Len(entries) + 1 \notin DOMAIN entries
         /\ UnitsOf(entries') = UnitsOf(entries) \cup UnitsIn(e.pages)
<1>1. entries \in Seq(MemRegion)
  BY Zenon DEF EntriesInv
<1> DEFINE m == Len(entries)
           t == entries'
<1>2. /\ t \in Seq(MemRegion) /\ Len(t) = m + 1 /\ t[m + 1] = e /\ m \in Nat
      /\ \A i \in 1..m : t[i] = entries[i]
  BY <1>1
<1>3. DOMAIN entries = 1..m /\ DOMAIN t = 1..Len(t)
  BY <1>1, <1>2
<1> HIDE DEF m
<1>4. 1..(m + 1) = (1..m) \cup {m + 1} /\ m + 1 \notin 1..m
  BY <1>2
<1>5. EntriesInv'
  BY Zenon, <1>2, <1>4 DEF EntriesInv, m
<1>6. UnitsOf(t) = UnitsOf(entries) \cup UnitsIn(e.pages)
  <2> SUFFICES ASSUME NEW u \in Nat PROVE u \in UnitsOf(t) <=> u \in UnitsOf(entries) \/ u \in UnitsIn(e.pages)
    BY Zenon DEF UnitsOf, UnitsIn
  <2> QED
    BY Zenon, <1>2, <1>4 DEF UnitsOf, UnitsIn, m
<1> QED
  BY Zenon, <1>2, <1>3, <1>4, <1>5, <1>6 DEF m

(* A region that passes, of which the device was told any part.                 *)
LEMMA AddMem ==
  ASSUME NEW addr \in Nat, NEW size \in Nat, open, open', MemInv, AddRegion(addr, size)
  PROVE  MemInv'
<1> DEFINE s == Walk(addr, size)
           e == [addr |-> addr, size |-> size, pages |-> s.pages]
<1>1. EntriesInv /\ SlotInv /\ RefsInv
  BY Zenon DEF MemInv
<1>2. /\ UserRegionFree(addr, size) /\ Pin(Range(s.pages)) /\ entries' = Append(entries, e)
      /\ \E n \in 0..Len(s.ranges) :
           /\ slot' = slot \o SubSeq(s.ranges, 1, n)
           /\ memSize' = memSize + Sum(Lengths(SubSeq(s.ranges, 1, n)))
           /\ nrRegions' = nrRegions + n
  BY Zenon DEF AddRegion
<1>3. /\ s \in WalkState /\ MadeOf(s.ranges, s.pages) /\ Apart(s.ranges)
      /\ \A j \in 1..Len(s.pages) : addr <= s.pages[j] /\ s.pages[j] < addr + size
  BY Zenon, WalkIsInv DEF WalkInv, PagesInv, RangesInv
<1> HIDE DEF s
<1>4. s.pages \in Seq(Usable) /\ s.ranges \in Seq(Ranged)
  BY <1>3 DEF WalkState
<1>5. e \in MemRegion /\ e.addr = addr /\ e.size = size /\ e.pages = s.pages
  BY Zenon, <1>4 DEF MemRegion
<1> HIDE DEF e
<1>6. /\ EntriesInv' /\ Len(entries') = Len(entries) + 1 /\ entries'[Len(entries')] = e
      /\ \A i \in 1..Len(entries) : entries'[i] = entries[i]
      /\ 1..Len(entries') = (1..Len(entries)) \cup {Len(entries) + 1}
      /\ DOMAIN entries' = (DOMAIN entries) \cup {Len(entries) + 1} /\ Len(entries) + 1 \notin DOMAIN entries
      /\ UnitsOf(entries') = UnitsOf(entries) \cup UnitsIn(s.pages)
  <2>1. \A j \in 1..Len(e.pages) : e.addr <= e.pages[j] /\ e.pages[j] < e.addr + e.size
    BY Zenon, <1>3, <1>5
  <2>2. UnitsIn(e.pages) = UnitsIn(s.pages)
    BY Zenon, <1>5
  <2> QED
    BY Zenon, <1>1, <1>2, <1>5, <2>1, <2>2, EntryAdded
<1>7. SlotInv'
  <2>1. PICK n \in 0..Len(s.ranges) :
          /\ slot' = slot \o SubSeq(s.ranges, 1, n)
          /\ memSize' = memSize + Sum(Lengths(SubSeq(s.ranges, 1, n)))
          /\ nrRegions' = nrRegions + n
    BY Zenon, <1>2
  <2> DEFINE added == SubSeq(s.ranges, 1, n)
  <2>2. /\ added \in Seq(Ranged) /\ Len(added) = n
        /\ \A k \in 1..n : added[k] = s.ranges[k] /\ k \in 1..Len(s.ranges)
    BY Zenon, <1>4, RangesBegun
  <2>3. slot' = slot \o added /\ memSize' = memSize + Sum(Lengths(added))
    BY Zenon, <2>1
  <2> HIDE DEF added
  <2>4. MadeIn(added, UnitsIn(s.pages)) /\ Apart(added)
    BY Zenon, <1>3, <2>2 DEF MadeIn, MadeOf, Apart, UnitsIn
  <2>5. UnitsOf(entries) \cap UnitsIn(s.pages) = {}
    BY Zenon, <1>1, <1>2, <1>3, <1>4, RegionIsOwn
  <2>6. slot \in Seq(Ranged) /\ MadeIn(slot, UnitsOf(entries)) /\ Apart(slot) /\ memSize = Sum(Lengths(slot))
        /\ nrRegions \in Nat
    BY Zenon, <1>1 DEF SlotInv
  <2> DEFINE T == UnitsOf(entries)
             V == UnitsIn(s.pages)
  <2> HIDE DEF T, V
  <2>7. /\ MadeIn(slot \o added, T \cup V) /\ Apart(slot \o added)
        /\ Sum(Lengths(slot \o added)) = Sum(Lengths(slot)) + Sum(Lengths(added))
    <3>1. T \cap V = {} /\ MadeIn(slot, T) /\ MadeIn(added, V)
      BY Zenon, <2>4, <2>5, <2>6 DEF T, V
    <3> QED
      BY Zenon, <2>2, <2>4, <2>6, <3>1, ApartJoined
  <2>8. slot \o added \in Seq(Ranged) /\ nrRegions' \in Nat
    <3>1. slot \o added \in Seq(Ranged)
      BY Zenon, <2>2, <2>6, RangesJoined
    <3> QED
      BY <2>1, <2>6, <3>1
  <2>9. /\ slot' \in Seq(Ranged) /\ MadeIn(slot', UnitsOf(entries')) /\ Apart(slot')
        /\ memSize' = Sum(Lengths(slot'))
    BY Zenon, <1>6, <2>3, <2>6, <2>7, <2>8 DEF T, V
  <2> QED
    BY Zenon, <2>8, <2>9 DEF SlotInv
<1>8. RefsInv'
  <2>1. refs \in [Page -> Nat]
    BY Zenon, <1>1 DEF RefsInv
  <2>2. /\ refs' \in [Page -> Nat]
        /\ \A p \in Page : refs'[p] >= refs[p] /\ (p \in Range(s.pages) => refs'[p] = refs[p] + 1)
        /\ \A p \in Page : p \notin Range(s.pages) => refs'[p] = refs[p]
    BY Zenon, <1>2, <2>1, Pinned
  <2>3. \A p \in Range(s.pages) : p \in Usable
    BY <1>4 DEF Range
  <2>4. ASSUME NEW i \in 1..Len(entries'), NEW p \in Range(entries'[i].pages) PROVE refs'[p] > 0
    <3>1. CASE i \in 1..Len(entries)
      <4>1. p \in Range(entries[i].pages) /\ entries[i].pages \in Seq(Usable)
        BY Zenon, <1>1, <1>6, <3>1, EntryType
      <4>2. p \in Usable
        BY <4>1 DEF Range
      <4>3. refs[p] > 0 /\ p \in Page
        BY Zenon, <1>1, <3>1, <4>1, <4>2, PageFacts DEF RefsInv
      <4> QED
        BY <2>1, <2>2, <4>3
    <3>2. CASE i = Len(entries) + 1
      <4>1. p \in Range(s.pages)
        BY Zenon, <1>5, <1>6, <3>2
      <4>2. p \in Page
        BY Zenon, <2>3, <4>1, PageFacts
      <4> QED
        BY <2>1, <2>2, <4>1, <4>2
    <3> QED
      BY Zenon, <1>6, <3>1, <3>2
  <2>5. ASSUME NEW p \in Usable, Size[p] = 1 PROVE refs'[p] = Cardinality(Holders(p)')
    <3>1. p \in Page /\ refs[p] = Cardinality(Holders(p))
      BY Zenon, <1>1, <2>5, PageFacts DEF RefsInv
    <3>2. IsFiniteSet(Holders(p))
      <4>1. DOMAIN entries = 1..Len(entries) /\ Len(entries) \in Int /\ 1 \in Int
        BY <1>1 DEF EntriesInv
      <4>2. IsFiniteSet(DOMAIN entries) /\ Holders(p) \subseteq DOMAIN entries
        BY Zenon, <4>1, FS_Interval DEF Holders
      <4> QED
        BY Zenon, <4>2, FS_Subset
    <3>3. \A i \in DOMAIN entries : entries'[i] = entries[i]
      <4>1. DOMAIN entries = 1..Len(entries)
        BY <1>1 DEF EntriesInv
      <4> QED
        BY Zenon, <1>6, <4>1
    <3>4. entries'[Len(entries) + 1].pages = s.pages
      BY Zenon, <1>5, <1>6
    <3>5. CASE p \in Range(s.pages)
      <4>1. Holders(p)' = Holders(p) \cup {Len(entries) + 1} /\ Len(entries) + 1 \notin Holders(p)
        BY Zenon, <1>6, <3>3, <3>4, <3>5 DEF Holders
      <4>2. Cardinality(Holders(p) \cup {Len(entries) + 1}) = Cardinality(Holders(p)) + 1
        BY Zenon, <3>2, <4>1, FS_AddElement
      <4> QED
        BY Zenon, <2>2, <3>1, <3>5, <4>1, <4>2
    <3>6. CASE p \notin Range(s.pages)
      <4>1. Holders(p)' = Holders(p)
        BY Zenon, <1>6, <3>3, <3>4, <3>6 DEF Holders
      <4> QED
        BY Zenon, <2>2, <3>1, <3>6, <4>1
    <3> QED
      BY Zenon, <3>5, <3>6
  <2> QED
    BY Zenon, <2>2, <2>4, <2>5 DEF RefsInv
<1> QED
  BY Zenon, <1>6, <1>7, <1>8 DEF MemInv

(* The release puts each page as often as the list has it.                      *)
LEMMA ReleaseMem ==
  ASSUME MemInv, Release
  PROVE  MemInv'
<1>1. open /\ open' = FALSE /\ PutAll /\ slot' = <<>>
  BY Zenon DEF Release
<1>2. ASSUME NEW p \in Usable, Size[p] = 1 PROVE refs'[p] = 0
  <2>1. p \in Page /\ refs \in [Page -> Nat] /\ refs[p] = Cardinality(Holders(p))
    BY Zenon, <1>1, <1>2, PageFacts DEF MemInv, RefsInv
  <2>2. refs'[p] = refs[p] - Cardinality(Holders(p))
    BY Zenon, <1>1, <2>1 DEF PutAll, Holders
  <2>3. refs[p] \in Nat
    BY Zenon, <2>1
  <2>4. refs[p] - refs[p] = 0
    BY <2>3
  <2> QED
    BY Zenon, <2>1, <2>2, <2>4
<1> QED
  BY Zenon, <1>1, <1>2 DEF MemInv

(* Every step keeps the invariant.                                              *)
LEMMA NextMem ==
  ASSUME MemInv, [Next]_vars
  PROVE  MemInv'
<1>1. CASE SetUserMemoryRegion
  <2>1. open /\ open' = open
    BY <1>1 DEF SetUserMemoryRegion
  <2>2. PICK addr \in Addr, size \in RegionSize : RefuseRegion(addr, size) \/ AddRegion(addr, size)
    BY Zenon, <1>1 DEF SetUserMemoryRegion
  <2>3. addr \in Nat /\ size \in Nat
    BY Zenon, MemoryAssumption
  <2> QED
    BY Zenon, <2>1, <2>2, <2>3, RefuseMem, AddMem
<1>2. CASE Release
  BY Zenon, <1>2, ReleaseMem
<1>3. CASE UNCHANGED vars
  <2>1. /\ open' = open /\ entries' = entries /\ refs' = refs /\ slot' = slot
        /\ memSize' = memSize /\ nrRegions' = nrRegions
    BY <1>3 DEF vars
  <2> QED
    BY Zenon, <2>1 DEF MemInv, EntriesInv, SlotInv, RefsInv, Holders
<1> QED
  BY Zenon, <1>1, <1>2, <1>3 DEF Next, Gone

(* The invariant holds throughout.                                              *)
THEOREM MemoryInvariant == Spec => []MemInv
<1>1. MemInv /\ [Next]_vars => MemInv'
  BY Zenon, NextMem
<1> QED
  BY InitMem, <1>1, PTL DEF Spec

(* Whatever pages the regions have and however far the device got with them,    *)
(* memory it was told of stays pinned by the driver: a region is listed, and    *)
(* its pages with it, before the first request, and no request that fails       *)
(* takes it off the list.                                                       *)
THEOREM DonatedStaysPinned == Spec => []DonatedIsPinned
<1>1. MemInv => DonatedIsPinned
  <2> SUFFICES ASSUME MemInv, NEW i \in DOMAIN slot, NEW u \in Donated(i)
               PROVE  \E p \in Page : u \in Units(p) /\ refs[p] > 0
    BY Zenon DEF DonatedIsPinned
  <2>1. open
    BY DEF MemInv
  <2>2. EntriesInv /\ SlotInv /\ RefsInv
    BY Zenon, <2>1 DEF MemInv
  <2>3. slot \in Seq(Ranged)
    BY Zenon, <2>2 DEF SlotInv
  <2>4. i \in 1..Len(slot) /\ slot[i] \in Ranged
    BY <2>3
  <2>5. u \in Nat /\ Within(u, slot[i])
    BY <2>4 DEF Donated, Within, Ranged
  <2>6. PICK k \in 1..Len(entries) : Covered(u, entries[k].pages)
    BY Zenon, <2>2, <2>4, <2>5 DEF SlotInv, MadeIn, UnitsOf
  <2>7. PICK j \in 1..Len(entries[k].pages) :
          Phys[entries[k].pages[j]] <= u /\ u < Phys[entries[k].pages[j]] + Size[entries[k].pages[j]]
    BY Zenon, <2>6 DEF Covered
  <2> DEFINE p == entries[k].pages[j]
  <2>8. p \in Page /\ Phys[p] \in Nat /\ Size[p] \in Nat
    BY Zenon, <2>2, EntryType, PageFacts
  <2>9. entries[k].pages \in Seq(Usable)
    BY Zenon, <2>2, EntryType
  <2>10. p \in Range(entries[k].pages)
    BY <2>9 DEF Range
  <2>11. refs[p] > 0
    BY Zenon, <2>2, <2>10 DEF RefsInv
  <2>12. Phys[p] <= u /\ u < Phys[p] + Size[p]
    BY Zenon, <2>7
  <2> HIDE DEF p
  <2>13. u \in Units(p)
    BY <2>5, <2>8, <2>12 DEF Units
  <2> QED
    BY Zenon, <2>8, <2>11, <2>13
<1> QED
  BY <1>1, MemoryInvariant, PTL

(* mem_size is the number of units the device was told of: the ranges never     *)
(* overlap, because no page is on the list of two regions.                      *)
THEOREM SizeStaysDonated == Spec => []SizeIsDonated
<1>1. MemInv => SizeIsDonated
  <2> SUFFICES ASSUME MemInv, open PROVE memSize = Cardinality(UNION {Donated(i) : i \in DOMAIN slot})
    BY Zenon DEF SizeIsDonated
  <2>1. slot \in Seq(Ranged) /\ MadeIn(slot, UnitsOf(entries)) /\ Apart(slot) /\ memSize = Sum(Lengths(slot))
    BY Zenon DEF MemInv, SlotInv
  <2>2. DOMAIN slot = 1..Len(slot)
    BY <2>1
  <2>3. \A k \in 1..Len(slot) : slot[k].start <= slot[k].end
    BY Zenon, <2>1 DEF MadeIn
  <2>4. Cardinality(UNION {slot[i].start..slot[i].end : i \in 1..Len(slot)}) = Sum(Lengths(slot))
    BY Zenon, <2>1, <2>3, ApartCardinality
  <2> QED
    BY Zenon, <2>1, <2>2, <2>4 DEF Donated
<1> QED
  BY <1>1, MemoryInvariant, PTL

(* The release leaves no page pinned that a region had: what was counted up is  *)
(* counted down, and a refused page is the only one that is counted up alone.   *)
THEOREM ReleaseAlwaysUnpins == Spec => []ReleaseUnpins
<1>1. MemInv => ReleaseUnpins
  BY Zenon DEF MemInv, ReleaseUnpins
<1> QED
  BY <1>1, MemoryInvariant, PTL

(* A region adds no more memory than its pages, exactly that much when every    *)
(* request succeeds, and its pages are no less than was asked for.              *)
THEOREM RegionsAddTheirPages == Spec => AddsItsPages
<1> DEFINE Adds ==
      Len(entries') > Len(entries) =>
        LET new == entries'[Len(entries')]
            sum == Sum(Sizes(new.pages))
        IN  /\ memSize' <= memSize + sum /\ new.size <= sum
            /\ nrRegions' - nrRegions = Len(Walk(new.addr, new.size).ranges) => memSize' = memSize + sum
<1>1. ASSUME MemInv, [Next]_vars PROVE [Adds]_vars
  <2>1. CASE UNCHANGED vars
    BY Zenon, <2>1
  <2>2. CASE Release
    BY <2>2 DEF Release, MemInv, EntriesInv
  <2>3. ASSUME NEW addr \in Nat, NEW size \in Nat, open, RefuseRegion(addr, size) PROVE Adds
    <3>1. entries' = entries /\ Len(entries) \in Nat
      BY <1>1, <2>3 DEF RefuseRegion, MemInv, EntriesInv
    <3>2. ~(Len(entries') > Len(entries))
      BY <3>1
    <3> QED
      BY Zenon, <3>2
  <2>4. ASSUME NEW addr \in Nat, NEW size \in Nat, open, AddRegion(addr, size) PROVE Adds
    <3> DEFINE s == Walk(addr, size)
               e == [addr |-> addr, size |-> size, pages |-> s.pages]
    <3>1. PICK n \in 0..Len(s.ranges) :
            /\ s.end = "done" /\ entries' = Append(entries, e)
            /\ memSize' = memSize + Sum(Lengths(SubSeq(s.ranges, 1, n))) /\ nrRegions' = nrRegions + n
      BY Zenon, <2>4 DEF AddRegion
    <3>2. /\ s \in WalkState /\ MadeOf(s.ranges, s.pages) /\ Sum(Lengths(s.ranges)) = Sum(Sizes(s.pages))
          /\ size <= Sum(Sizes(s.pages))
      BY Zenon, <3>1, WalkIsInv DEF WalkInv, PagesInv, RangesInv
    <3>3. e.addr = addr /\ e.size = size /\ e.pages = s.pages
      OBVIOUS
    <3>4. entries \in Seq(MemRegion) /\ slot \in Seq(Ranged) /\ MadeIn(slot, UnitsOf(entries))
          /\ memSize = Sum(Lengths(slot)) /\ nrRegions \in Nat
      BY Zenon, <1>1, <2>4 DEF MemInv, EntriesInv, SlotInv
    <3>5. Lengths(slot) \in Seq(Nat)
      BY Zenon, <3>4, LengthsType DEF MadeIn
    <3>6. memSize \in Nat
      BY Zenon, <3>4, <3>5, SumType
    <3> HIDE DEF s, e
    <3>7. entries'[Len(entries')] = e
      BY <3>1, <3>4
    <3> DEFINE added == SubSeq(s.ranges, 1, n)
               sum == Sum(Sizes(s.pages))
    <3>8. s.ranges \in Seq(Ranged)
      BY Zenon, <3>2 DEF WalkState
    <3>9. /\ added \in Seq(Ranged) /\ Len(added) = n
          /\ \A k \in 1..n : added[k] = s.ranges[k] /\ k \in 1..Len(s.ranges)
          /\ n = Len(s.ranges) => added = s.ranges
      BY Zenon, <3>8, RangesBegun
    <3>10. memSize' = memSize + Sum(Lengths(added))
      BY Zenon, <3>1
    <3> HIDE DEF added
    <3>11. /\ Lengths(s.ranges) \in Seq(Nat) /\ Len(Lengths(s.ranges)) = Len(s.ranges)
           /\ \A i \in 1..Len(s.ranges) : Lengths(s.ranges)[i] = Length(s.ranges[i])
      BY Zenon, <3>2, <3>8, LengthsType DEF MadeOf
    <3>12. /\ Lengths(added) \in Seq(Nat) /\ Len(Lengths(added)) = n
           /\ \A i \in 1..n : Lengths(added)[i] = Length(added[i])
      BY Zenon, <3>2, <3>9, LengthsType DEF MadeOf
    <3>13. Sum(Lengths(added)) <= Sum(Lengths(s.ranges))
      <4> DEFINE a == Lengths(added)
                 b == Lengths(s.ranges)
      <4>1. /\ a \in Seq(Nat) /\ b \in Seq(Nat) /\ Len(a) <= Len(b)
            /\ \A i \in 1..Len(a) : b[i] = a[i]
        <5>1. n <= Len(s.ranges)
          BY <3>8
        <5> QED
          BY Zenon, <3>9, <3>11, <3>12, <5>1
      <4> HIDE DEF a, b
      <4>2. Sum(a) <= Sum(b)
        BY Zenon, <4>1, SumPrefix
      <4> QED
        BY Zenon, <4>2 DEF a, b
    <3>14. sum \in Nat /\ Sum(Lengths(added)) \in Nat /\ sum = Sum(Lengths(s.ranges))
      BY Zenon, <3>2, <3>11, <3>12, SumType
    <3>15. nrRegions' - nrRegions = n
      BY <3>1, <3>4
    <3>16. nrRegions' - nrRegions = Len(s.ranges) => memSize' = memSize + sum
      BY Zenon, <3>9, <3>10, <3>14, <3>15
    <3> HIDE DEF sum
    <3>17. memSize' <= memSize + sum
      BY <3>6, <3>10, <3>13, <3>14
    <3> QED
      BY Zenon, <3>2, <3>3, <3>7, <3>16, <3>17 DEF sum, s
  <2>5. ASSUME SetUserMemoryRegion PROVE Adds
    <3>1. open
      BY Zenon, <2>5 DEF SetUserMemoryRegion
    <3>2. PICK addr \in Addr, size \in RegionSize : RefuseRegion(addr, size) \/ AddRegion(addr, size)
      BY Zenon, <2>5 DEF SetUserMemoryRegion
    <3>3. addr \in Nat /\ size \in Nat
      BY Zenon, MemoryAssumption
    <3> HIDE DEF Adds
    <3> QED
      BY Zenon, <2>3, <2>4, <3>1, <3>2, <3>3
  <2> HIDE DEF Adds
  <2> QED
    BY Zenon, <1>1, <2>1, <2>2, <2>5 DEF Next, Gone
<1> QED
  BY <1>1, MemoryInvariant, PTL DEF Spec, AddsItsPages

================================================================================
