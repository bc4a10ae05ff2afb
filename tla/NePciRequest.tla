------------------------------ MODULE NePciRequest ------------------------------
(***************************************************************************)
(* ne_do_request: how the threads of the Nitro Enclaves driver exchange    *)
(* commands and replies with the PCI device through one pair of buffers,   *)
(* one reply interrupt, one flag and a timeout. Requests carry the number  *)
(* of their submission and the device's answer to one is that number.      *)
(***************************************************************************)
EXTENDS Naturals, Sequences, FiniteSets

CONSTANTS
  Caller,      \* threads inside ioctls, releases and the event worker
  MaxRequests  \* bound on the number of submissions

ASSUME RequestAssumption == MaxRequests \in Nat /\ "free" \notin Caller

VARIABLES
  pc,          \* where each thread is in ne_do_request
  mutex,       \* who holds pci_dev_mutex
  avail,       \* cmd_reply_avail
  count,       \* submissions so far
  late,        \* timeouts so far
  mine,        \* the request each thread submitted last
  got,         \* what each thread's last request returned: a reply or 0
  device,      \* requests the device has accepted and not answered
  recv,        \* the reply in NE_RECV_DATA
  irq          \* the reply interrupt is pending

requestVars == <<pc, mutex, avail, count, late, mine, got, device, recv, irq>>

RequestInit ==
  /\ pc = [c \in Caller |-> "idle"] /\ mutex = "free"
  /\ avail = FALSE /\ irq = FALSE
  /\ count = 0 /\ late = 0
  /\ mine = [c \in Caller |-> 0] /\ got = [c \in Caller |-> 0]
  /\ device = <<>> /\ recv = 0

Step(c, from, to) == pc[c] = from /\ pc' = [pc EXCEPT ![c] = to]

(* A thread enters ne_do_request with arguments that pass its checks.           *)
Call(c) ==
  /\ Step(c, "idle", "lock")
  /\ count + Cardinality({d \in Caller : pc[d] \in {"lock", "clear", "submit"}}) < MaxRequests
  /\ UNCHANGED <<mutex, avail, count, late, mine, got, device, recv, irq>>

Lock(c) ==
  /\ Step(c, "lock", "clear")
  /\ mutex = "free" /\ mutex' = c
  /\ UNCHANGED <<avail, count, late, mine, got, device, recv, irq>>

ClearFlag(c) ==
  /\ Step(c, "clear", "submit")
  /\ avail' = FALSE
  /\ UNCHANGED <<mutex, count, late, mine, got, device, recv, irq>>

(* ne_submit_request: the payload, then the command register.                   *)
SubmitRequest(c) ==
  /\ Step(c, "submit", "wait")
  /\ count' = count + 1
  /\ mine' = [mine EXCEPT ![c] = count + 1]
  /\ device' = Append(device, count + 1)
  /\ UNCHANGED <<mutex, avail, late, got, recv, irq>>

(* Mutant: the waiter does not look at the flag. *)
WakeAlways(c) ==
  /\ Step(c, "wait", "copy")
  /\ UNCHANGED <<mutex, avail, count, late, mine, got, device, recv, irq>>

(* ne_wait_for_reply finds the flag set.                                        *)
WaitForReply(c) ==
  /\ Step(c, "wait", "copy")
  /\ avail
  /\ UNCHANGED <<mutex, avail, count, late, mine, got, device, recv, irq>>

(* Mutant: the wait has no timeout. *)
NeverTimesOut(c) == FALSE /\ UNCHANGED requestVars

(* The wait ends after NE_DEFAULT_TIMEOUT_MSECS with the flag still clear.      *)
TimeOut(c) ==
  /\ Step(c, "wait", "unlock")
  /\ ~avail
  /\ late' = late + 1
  /\ got' = [got EXCEPT ![c] = 0]
  /\ UNCHANGED <<mutex, avail, count, mine, device, recv, irq>>

RetrieveReply(c) ==
  /\ Step(c, "copy", "done")
  /\ got' = [got EXCEPT ![c] = recv]
  /\ UNCHANGED <<mutex, avail, count, late, mine, device, recv, irq>>

ClearAgain(c) ==
  /\ Step(c, "done", "unlock")
  /\ avail' = FALSE
  /\ UNCHANGED <<mutex, count, late, mine, got, device, recv, irq>>

Unlock(c) ==
  /\ Step(c, "unlock", "idle")
  /\ mutex' = "free"
  /\ UNCHANGED <<avail, count, late, mine, got, device, recv, irq>>

(* The device answers its requests in order and raises the reply interrupt.     *)
DeviceReplies ==
  /\ device # <<>>
  /\ recv' = Head(device) /\ device' = Tail(device)
  /\ irq' = TRUE
  /\ UNCHANGED <<pc, mutex, avail, count, late, mine, got>>

ReplyHandler ==
  /\ irq
  /\ irq' = FALSE /\ avail' = TRUE
  /\ UNCHANGED <<pc, mutex, count, late, mine, got, device, recv>>

Request(c) ==
  \/ Lock(c) \/ ClearFlag(c) \/ SubmitRequest(c) \/ WaitForReply(c)
  \/ RetrieveReply(c) \/ ClearAgain(c) \/ Unlock(c)

(* No thread is inside ne_do_request.                                           *)
Quiet == (\A c \in Caller : pc[c] = "idle") /\ UNCHANGED requestVars

RequestNext ==
  \/ \E c \in Caller : Call(c) \/ Request(c) \/ TimeOut(c)
  \/ DeviceReplies \/ ReplyHandler
  \/ Quiet

RequestSpec == RequestInit /\ [][RequestNext]_requestVars

(* Threads run, mutexes are handed over and timers expire; the device owes      *)
(* nothing.                                                                     *)
FairSpec ==
  /\ RequestSpec
  /\ \A c \in Caller : WF_requestVars(Request(c)) /\ SF_requestVars(Lock(c)) /\ WF_requestVars(TimeOut(c))

--------------------------------------------------------------------------------
(* Properties *)

(* A reply answers the thread's own request, or an older one that lies at most  *)
(* as many submissions back as there were timeouts: without timeouts replies    *)
(* match their requests, and no interleaving of interrupt, flag and mutex makes *)
(* a thread return the reply to somebody's later request.                       *)
ReplyLag == \A c \in Caller : got[c] # 0 /\ pc[c] \in {"done", "unlock"} =>
              got[c] <= mine[c] /\ mine[c] <= got[c] + late

(* Every request returns, whether or not the device answers.                    *)
RequestReturns == \A c \in Caller : pc[c] # "idle" ~> pc[c] = "idle"

================================================================================
