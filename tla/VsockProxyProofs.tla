---------------------------- MODULE VsockProxyProofs ----------------------------
(***************************************************************************)
(* What the worker of a connection of VsockProxy has read, it has written, *)
(* in order, but for its buffer; so a direction that is shut down while    *)
(* the other end stays is delivered whole, for any numbers of connections, *)
(* workers and bytes, and any sizes of buffers and windows.                *)
(***************************************************************************)
EXTENDS VsockProxy, TLAPS

Stages == {"new", "backlog", "accepted", "queued"} \cup Serving \cup Over

Ends == {"open", "half", "closed", "reset"}

Fields == {"open", "sent", "read", "got", "taken", "addr", "turn", "ready", "buf"}

LinkOK(l) ==
  /\ DOMAIN l = Fields
  /\ l.open \in [Side -> Ends] /\ l.sent \in [Side -> Nat] /\ l.read \in [Side -> Nat]
  /\ DOMAIN l.got = Side /\ DOMAIN l.taken = Side
  /\ l.turn \in Side /\ l.ready \subseteq Side

(* The bytes after the a-th, n of them.                                         *)
Bytes(a, n) == [k \in 1..n |-> a + k]

(* What has been read of s is with its peer, in order, or in the buffer.        *)
Carried(l, s, rest) ==
  \E m, n \in Nat : l.read[s] = m + n /\ l.got[Peer(s)] = Bytes(0, m) /\ rest = Bytes(m, n)

Pending(l, st, s) == IF st = "write" /\ l.turn = s THEN l.buf ELSE <<>>

(* Sides the worker will read from without another select.                      *)
Turns(l, st) ==
  (IF st = "read" THEN {l.turn} ELSE {}) \cup (IF l.turn = "client" THEN l.ready \cap {"server"} ELSE {})

(* A connection between two steps: nothing is read that was not sent; what was  *)
(* read is carried as long as its receiver stays; and a side whose turn comes   *)
(* has bytes or has gone.                                                       *)
Sound(l, st) ==
  /\ LinkOK(l)
  /\ \A s \in Side : l.read[s] <= l.sent[s]
  /\ \A s \in Side : l.open[Peer(s)] \in {"open", "half"} =>
       Carried(l, s, Pending(l, st, s))
  /\ st \in {"read", "write"} => \A s \in Turns(l, st) : l.open[s] = "open" => l.read[s] < l.sent[s]

(* The inductive invariant.                                                     *)
ProxyInv ==
  /\ stage \in [Conn -> Stages] /\ DOMAIN link = Conn
  /\ \A c \in Conn : Sound(link[c], stage[c])

--------------------------------------------------------------------------------
(* Bytes and connections *)

LEMMA Peers ==
  /\ \A s \in Side : Peer(s) \in Side /\ Peer(s) # s /\ Peer(Peer(s)) = s
  /\ \A s, t \in Side : t = s \/ t = Peer(s)
  BY DEF Side, Peer

(* No bytes, and one that is moved from the buffer to the receiver.             *)
LEMMA NoBytes == \A a \in Nat : Bytes(a, 0) = <<>>
  BY DEF Bytes

LEMMA MoveByte ==
  ASSUME NEW m \in Nat, NEW n \in Nat, Bytes(m, n) # <<>>
  PROVE  /\ m + 1 \in Nat /\ n - 1 \in Nat /\ m + n = (m + 1) + (n - 1)
         /\ Append(Bytes(0, m), Head(Bytes(m, n))) = Bytes(0, m + 1)
         /\ Tail(Bytes(m, n)) = Bytes(m + 1, n - 1)
<1>1. n > 0
  BY NoBytes
<1>2. m + 1 \in Nat /\ n - 1 \in Nat /\ m + n = (m + 1) + (n - 1)
  BY <1>1
<1>3. Bytes(0, m) \in Seq(Nat) /\ Len(Bytes(0, m)) = m /\ Bytes(m, n) \in Seq(Nat) /\ Len(Bytes(m, n)) = n
  BY DEF Bytes
<1>4. Head(Bytes(m, n)) = m + 1
  BY <1>1, <1>3 DEF Bytes
<1>5. Append(Bytes(0, m), m + 1) = Bytes(0, m + 1)
  BY DEF Bytes
<1>6. Tail(Bytes(m, n)) = Bytes(m + 1, n - 1)
  BY <1>1, <1>3 DEF Bytes
<1> QED
  BY <1>2, <1>4, <1>5, <1>6

(* Steps of one connection.                                                     *)
LEMMA OneConnection ==
  ASSUME ProxyInv, NEW c \in Conn, stage' \in [Conn -> Stages], DOMAIN link' = Conn,
         \A d \in Conn : d # c => link'[d] = link[d] /\ stage'[d] = stage[d],
         Sound(link'[c], stage'[c])
  PROVE  ProxyInv'
<1>1. ASSUME NEW d \in Conn PROVE Sound(link'[d], stage'[d])
  BY Zenon DEF ProxyInv
<1> QED
  BY Zenon, <1>1 DEF ProxyInv

(* A step that carries nothing: bytes are sent, ends leave, turns change.       *)
LEMMA SoundKept ==
  ASSUME NEW l, NEW st, Sound(l, st), NEW m, NEW to, LinkOK(m), m.read = l.read, m.got = l.got,
         \A s \in Side : m.sent[s] >= l.sent[s],
         \A s \in Side : m.open[s] \in {"open", "half"} => l.open[s] \in {"open", "half"},
         \A s \in Side : m.open[Peer(s)] \in {"open", "half"} => Pending(m, to, s) = Pending(l, st, s),
         to \in {"read", "write"} => \A s \in Turns(m, to) : m.open[s] = "open" => m.read[s] < m.sent[s]
  PROVE  Sound(m, to)
<1>1. \A s \in Side : m.read[s] <= m.sent[s]
  <2> SUFFICES ASSUME NEW s \in Side PROVE m.read[s] <= m.sent[s]
    OBVIOUS
  <2>1. l.sent[s] \in Nat /\ m.sent[s] \in Nat /\ m.read[s] \in Nat
    BY Zenon DEF Sound, LinkOK
  <2>2. m.read[s] <= l.sent[s] /\ m.sent[s] >= l.sent[s]
    BY Zenon DEF Sound
  <2> QED
    BY <2>1, <2>2
<1>2. ASSUME NEW s \in Side, m.open[Peer(s)] \in {"open", "half"} PROVE Carried(m, s, Pending(m, to, s))
  <2>1. l.open[Peer(s)] \in {"open", "half"}
    BY Zenon, <1>2, Peers
  <2>2. Carried(l, s, Pending(m, to, s))
    BY Zenon, <1>2, <2>1 DEF Sound
  <2> QED
    BY Zenon, <2>2 DEF Carried
<1> QED
  BY Zenon, <1>1, <1>2 DEF Sound

(* One connection, one of its fields.                                           *)
LEMMA SetLink ==
  ASSUME DOMAIN link = Conn, NEW c \in Conn, NEW m, link' = [link EXCEPT ![c] = m]
  PROVE  link'[c] = m /\ DOMAIN link' = Conn /\ \A d \in Conn : d # c => link'[d] = link[d]
  OBVIOUS

Others(m, l, x) ==
  /\ DOMAIN m = Fields
  /\ (x # "open" => m.open = l.open) /\ (x # "sent" => m.sent = l.sent) /\ (x # "read" => m.read = l.read)
  /\ (x # "got" => m.got = l.got) /\ (x # "taken" => m.taken = l.taken) /\ (x # "turn" => m.turn = l.turn)
  /\ (x # "ready" => m.ready = l.ready) /\ (x # "buf" => m.buf = l.buf)

LEMMA SetField ==
  ASSUME NEW l, DOMAIN l = Fields, NEW x \in Fields, NEW v
  PROVE  [l EXCEPT ![x] = v][x] = v /\ Others([l EXCEPT ![x] = v], l, x)
<1> DEFINE m == [l EXCEPT ![x] = v]
<1>1. DOMAIN m = Fields /\ m[x] = v /\ \A y \in Fields \ {x} : m[y] = l[y]
  OBVIOUS
<1> HIDE DEF m
<1>2. Others(m, l, x)
  BY <1>1 DEF Others, Fields
<1> QED
  BY Zenon, <1>1, <1>2 DEF m

--------------------------------------------------------------------------------
(* The actions *)

(* The two ends: bytes are sent or taken, an end leaves.                        *)
LEMMA EndsSound ==
  ASSUME ProxyInv, NEW c \in Conn, NEW s \in Side, Send(c, s) \/ TakeByte(c, s) \/ Leave(c, s)
  PROVE  ProxyInv' /\ UNCHANGED stage
<1> DEFINE l == link[c]
           m == link'[c]
<1>0. Sound(l, stage[c]) /\ LinkOK(l) /\ DOMAIN link = Conn /\ stage \in [Conn -> Stages]
  BY Zenon DEF ProxyInv, Sound
<1>1. UNCHANGED stage
  BY Zenon DEF Send, TakeByte, Leave
<1>2. ASSUME NEW x \in {"sent", "taken", "open"}, NEW v, link' = [link EXCEPT ![c] = [l EXCEPT ![x] = v]]
      PROVE  /\ DOMAIN link' = Conn /\ (\A d \in Conn : d # c => link'[d] = link[d])
             /\ m[x] = v /\ Others(m, l, x)
  <2>1. x \in Fields /\ DOMAIN l = Fields
    BY Zenon, <1>0 DEF Fields, LinkOK
  <2>2. m = [l EXCEPT ![x] = v] /\ DOMAIN link' = Conn /\ \A d \in Conn : d # c => link'[d] = link[d]
    BY Zenon, <1>0, <1>2, SetLink
  <2> HIDE DEF l, m
  <2> QED
    BY Zenon, <2>1, <2>2, SetField
<1>3. /\ DOMAIN link' = Conn /\ (\A d \in Conn : d # c => link'[d] = link[d])
      /\ \/ Others(m, l, "sent") /\ m.sent = [l.sent EXCEPT ![s] = l.sent[s] + 1]
         \/ Others(m, l, "taken") /\ DOMAIN m.taken = Side
         \/ /\ Others(m, l, "open")
            /\ \E to \in {"half", "closed", "reset"} :
                 /\ l.open[s] = "open" \/ (l.open[s] = "half" /\ to # "half")
                 /\ m.open = [l.open EXCEPT ![s] = to]
  <2>1. CASE Send(c, s)
    <3>1. link' = [link EXCEPT ![c] = [l EXCEPT !["sent"] = [l.sent EXCEPT ![s] = l.sent[s] + 1]]]
      BY Zenon, <2>1 DEF Send
    <3> HIDE DEF l, m
    <3> QED
      BY Zenon, <1>2, <3>1
  <2>2. CASE TakeByte(c, s)
    <3>1. link' = [link EXCEPT ![c] = [l EXCEPT !["taken"] = [l.taken EXCEPT ![s] = l.taken[s] + 1]]]
      BY Zenon, <2>2 DEF TakeByte
    <3>2. DOMAIN [l.taken EXCEPT ![s] = l.taken[s] + 1] = Side
      BY <1>0 DEF LinkOK
    <3> HIDE DEF l, m
    <3> QED
      BY Zenon, <1>2, <3>1, <3>2
  <2>3. CASE Leave(c, s)
    <3>1. PICK to \in Leaving[c] :
            /\ l.open[s] = "open" \/ (l.open[s] = "half" /\ to # "half")
            /\ link' = [link EXCEPT ![c] = [l EXCEPT !["open"] = [l.open EXCEPT ![s] = to]]]
      BY Zenon, <2>3 DEF Leave
    <3>2. to \in {"half", "closed", "reset"}
      BY Zenon, ProxyAssumption
    <3> HIDE DEF l, m
    <3> QED
      BY Zenon, <1>2, <3>1, <3>2
  <2> QED
    BY Zenon, <2>1, <2>2, <2>3
<1> HIDE DEF l, m
<1>4. /\ m.read = l.read /\ m.got = l.got /\ m.turn = l.turn /\ m.ready = l.ready /\ m.buf = l.buf
      /\ DOMAIN m = Fields /\ DOMAIN m.taken = Side
      /\ m.open \in [Side -> Ends] /\ m.sent \in [Side -> Nat]
  BY <1>0, <1>3 DEF Others, LinkOK, Ends
<1>9. /\ \A t \in Side : m.open[t] = "open" => l.open[t] = "open"
      /\ \A t \in Side : m.open[t] \in {"open", "half"} => l.open[t] \in {"open", "half"}
      /\ \A t \in Side : m.sent[t] >= l.sent[t]
  BY <1>0, <1>3 DEF Others, LinkOK, Ends
<1>5. LinkOK(m)
  BY Zenon, <1>0, <1>4 DEF LinkOK
<1>6. \A t \in Side : Pending(m, stage[c], t) = Pending(l, stage[c], t)
  BY Zenon, <1>4 DEF Pending
<1>7. ASSUME stage[c] \in {"read", "write"}, NEW t \in Turns(m, stage[c]), m.open[t] = "open"
      PROVE  m.read[t] < m.sent[t]
  <2>1. t \in Turns(l, stage[c]) /\ t \in Side
    BY <1>0, <1>4, <1>7 DEF Turns, LinkOK, Side
  <2>2. l.open[t] = "open" /\ l.read[t] < l.sent[t]
    BY Zenon, <1>0, <1>7, <1>9, <2>1 DEF Sound
  <2>3. l.read[t] \in Nat /\ l.sent[t] \in Nat /\ m.sent[t] \in Nat /\ m.sent[t] >= l.sent[t]
    BY Zenon, <1>0, <1>4, <1>9, <2>1 DEF LinkOK
  <2> QED
    BY <1>4, <2>2, <2>3
<1>8. Sound(m, stage[c])
  <2>1. Sound(l, stage[c]) /\ LinkOK(m) /\ m.read = l.read /\ m.got = l.got
    BY Zenon, <1>0, <1>4, <1>5
  <2>2. stage[c] \in {"read", "write"}
          => \A t \in Turns(m, stage[c]) : m.open[t] = "open" => m.read[t] < m.sent[t]
    BY Zenon, <1>7
  <2> QED
    BY <1>6, <1>9, <2>1, <2>2, SoundKept
<1>10. /\ Sound(link'[c], stage'[c]) /\ stage' \in [Conn -> Stages]
       /\ \A d \in Conn : d # c => link'[d] = link[d] /\ stage'[d] = stage[d]
  BY Zenon, <1>0, <1>1, <1>3, <1>8 DEF m
<1> QED
  BY Zenon, <1>1, <1>3, <1>10, OneConnection

(* A connection that is not there.                                              *)
LEMMA BlankSound == \A st \in Stages \ {"read", "write"} : Sound(Blank, st)
<1> SUFFICES ASSUME NEW st \in Stages \ {"read", "write"} PROVE Sound(Blank, st)
  OBVIOUS
<1>1. LinkOK(Blank)
  BY DEF Blank, LinkOK, Fields, Ends, Side
<1>2. \A s \in Side : Blank.read[s] = 0 /\ Blank.sent[s] = 0 /\ Blank.got[s] = <<>>
  BY DEF Blank
<1>3. \A s \in Side : Carried(Blank, s, <<>>)
  BY <1>2, NoBytes, Peers DEF Carried
<1>4. \A s \in Side : Pending(Blank, st, s) = <<>>
  BY Zenon DEF Pending
<1>5. \A s \in Side : Blank.read[s] <= Blank.sent[s]
  BY <1>2
<1> QED
  BY Zenon, <1>1, <1>3, <1>4, <1>5 DEF Sound

(* The main thread and the pool move a connection that no worker carries.       *)
Quiet == Stages \ {"read", "write"}

LEMMA MovesSound ==
  ASSUME ProxyInv, NEW c \in Conn, NEW to \in Quiet, stage[c] \in Quiet, stage' = [stage EXCEPT ![c] = to],
         \/ UNCHANGED link
         \/ link' = [link EXCEPT ![c] = Blank]
         \/ \E ip : link' = [link EXCEPT ![c].addr = ip]
  PROVE  ProxyInv'
<1> DEFINE l == link[c]
           m == link'[c]
<1>0. Sound(l, stage[c]) /\ LinkOK(l) /\ DOMAIN link = Conn /\ stage \in [Conn -> Stages]
  BY Zenon DEF ProxyInv, Sound
<1>1. /\ stage' \in [Conn -> Stages] /\ stage'[c] = to /\ \A d \in Conn : d # c => stage'[d] = stage[d]
  BY <1>0 DEF Quiet
<1>2. /\ DOMAIN link' = Conn /\ (\A d \in Conn : d # c => link'[d] = link[d])
      /\ m = Blank \/ Others(m, l, "addr")
  <2>1. CASE UNCHANGED link
    <3>1. Others(l, l, "addr")
      BY Zenon, <1>0 DEF Others, LinkOK
    <3> QED
      BY Zenon, <1>0, <2>1, <3>1
  <2>2. CASE link' = [link EXCEPT ![c] = Blank]
    BY Zenon, <1>0, <2>2, SetLink
  <2>3. ASSUME NEW ip, link' = [link EXCEPT ![c].addr = ip]
        PROVE  DOMAIN link' = Conn /\ (\A d \in Conn : d # c => link'[d] = link[d]) /\ Others(m, l, "addr")
    <3>1. link' = [link EXCEPT ![c] = [l EXCEPT !["addr"] = ip]]
      BY Zenon, <2>3
    <3>2. m = [l EXCEPT !["addr"] = ip] /\ DOMAIN link' = Conn /\ \A d \in Conn : d # c => link'[d] = link[d]
      BY Zenon, <1>0, <3>1, SetLink
    <3>3. "addr" \in Fields /\ DOMAIN l = Fields
      BY Zenon, <1>0 DEF Fields, LinkOK
    <3> HIDE DEF l, m
    <3> QED
      BY Zenon, <3>2, <3>3, SetField
  <2> QED
    BY Zenon, <2>1, <2>2, <2>3
<1> HIDE DEF l, m
<1>3. Sound(m, to)
  <2>1. CASE m = Blank
    BY Zenon, <2>1, BlankSound DEF Quiet
  <2>2. CASE Others(m, l, "addr")
    <3>1. /\ m.read = l.read /\ m.got = l.got /\ m.sent = l.sent /\ m.open = l.open
          /\ LinkOK(m) /\ \A s \in Side : m.sent[s] >= l.sent[s]
      BY <1>0, <2>2 DEF Others, LinkOK
    <3>2. \A s \in Side : Pending(m, to, s) = Pending(l, stage[c], s)
      BY Zenon DEF Pending, Quiet
    <3>3. to \in {"read", "write"} => \A s \in Turns(m, to) : m.open[s] = "open" => m.read[s] < m.sent[s]
      BY Zenon DEF Quiet
    <3>4. Sound(l, stage[c]) /\ \A s \in Side : m.open[s] \in {"open", "half"} => l.open[s] \in {"open", "half"}
      BY Zenon, <1>0, <3>1
    <3> QED
      BY <3>1, <3>2, <3>3, <3>4, SoundKept
  <2> QED
    BY Zenon, <1>2, <2>1, <2>2
<1>4. /\ Sound(link'[c], stage'[c])
      /\ \A d \in Conn : d # c => link'[d] = link[d] /\ stage'[d] = stage[d]
  BY Zenon, <1>1, <1>2, <1>3 DEF m
<1> QED
  BY Zenon, <1>1, <1>2, <1>4, OneConnection

(* select returns the sides that have bytes or have gone.                       *)
LEMMA SelectSound ==
  ASSUME ProxyInv, NEW c \in Conn, Select(c)
  PROVE  ProxyInv' /\ stage'[c] = "read" /\ \A d \in Conn : d # c => stage'[d] = stage[d]
<1> DEFINE l == link[c]
           m == link'[c]
           set == {s \in Side : Readable(l, s)}
           first == IF "client" \in set THEN "client" ELSE "server"
           half == [l EXCEPT !["ready"] = set]
<1>0. Sound(l, stage[c]) /\ LinkOK(l) /\ DOMAIN link = Conn /\ stage \in [Conn -> Stages]
  BY Zenon DEF ProxyInv, Sound
<1>1. stage[c] = "select" /\ set # {} /\ stage' = [stage EXCEPT ![c] = "read"]
  BY Zenon DEF Select, To
<1>2. /\ stage' \in [Conn -> Stages] /\ stage'[c] = "read" /\ \A d \in Conn : d # c => stage'[d] = stage[d]
  <2>1. "read" \in Stages
    BY DEF Stages, Serving
  <2> QED
    BY Zenon, <1>0, <1>1, <2>1
<1>3. /\ m = [half EXCEPT !["turn"] = first] /\ DOMAIN link' = Conn
      /\ \A d \in Conn : d # c => link'[d] = link[d]
  <2>1. link' = [link EXCEPT ![c].ready = set, ![c].turn = first]
    BY Zenon DEF Select
  <2> HIDE DEF set, first
  <2> QED
    BY Zenon, <1>0, <2>1
<1>4. first \in Side /\ first \in set /\ set \subseteq Side
  BY <1>1 DEF Side
<1>5. \A s \in set : l.open[s] = "open" => l.read[s] < l.sent[s]
  BY Zenon DEF Readable
<1> HIDE DEF l, m, set, first
<1>6. half["ready"] = set /\ Others(half, l, "ready")
  <2>1. "ready" \in Fields /\ DOMAIN l = Fields
    BY Zenon, <1>0 DEF Fields, LinkOK
  <2> QED
    BY Zenon, <2>1, SetField
<1> HIDE DEF half
<1>7. m["turn"] = first /\ Others(m, half, "turn")
  <2>1. "turn" \in Fields /\ DOMAIN half = Fields
    BY Zenon, <1>6 DEF Fields, Others
  <2> QED
    BY Zenon, <1>3, <2>1, SetField
<1>8. /\ m.read = l.read /\ m.got = l.got /\ m.sent = l.sent /\ m.open = l.open
      /\ m.turn = first /\ m.ready = set /\ DOMAIN m = Fields /\ m.taken = l.taken
  BY <1>6, <1>7 DEF Others
<1>9. LinkOK(m) /\ \A s \in Side : m.sent[s] >= l.sent[s]
  BY <1>0, <1>4, <1>8 DEF LinkOK
<1>10. \A s \in Side : Pending(m, "read", s) = Pending(l, stage[c], s)
  BY <1>1 DEF Pending
<1>11. \A s \in Turns(m, "read") : m.open[s] = "open" => m.read[s] < m.sent[s]
  <2>1. Turns(m, "read") \subseteq set
    BY <1>4, <1>8 DEF Turns
  <2> QED
    BY Zenon, <1>5, <1>8, <2>1
<1>12. Sound(m, "read")
  BY <1>0, <1>8, <1>9, <1>10, <1>11, SoundKept
<1>13. /\ Sound(link'[c], stage'[c])
       /\ \A d \in Conn : d # c => link'[d] = link[d] /\ stage'[d] = stage[d]
  BY Zenon, <1>2, <1>3, <1>12 DEF m
<1> QED
  BY Zenon, <1>2, <1>3, <1>13, OneConnection

(* A transfer has returned: the connection ends only with its last turn and     *)
(* when that has failed or met the end of a stream.                             *)
LEMMA TransferSound ==
  ASSUME ProxyInv, NEW c \in Conn, NEW l, NEW result \in BOOLEAN, Sound(l, "select"),
         l.turn = "client" /\ "server" \in l.ready /\ l.open["server"] = "open"
           => l.read["server"] < l.sent["server"],
         EndTransfer(c, l, result)
  PROVE  ProxyInv' /\ (stage'[c] = "done" => result) /\ \A d \in Conn : d # c => stage'[d] = stage[d]
<1>0. DOMAIN link = Conn /\ stage \in [Conn -> Stages] /\ LinkOK(l)
  BY Zenon DEF ProxyInv, Sound
<1>1. ASSUME NEW m, NEW to \in Stages, Sound(m, to), to = "done" => result,
             link' = [link EXCEPT ![c] = m], stage' = [stage EXCEPT ![c] = to]
      PROVE  ProxyInv' /\ (stage'[c] = "done" => result) /\ \A d \in Conn : d # c => stage'[d] = stage[d]
  <2>1. stage' \in [Conn -> Stages] /\ stage'[c] = to /\ \A d \in Conn : d # c => stage'[d] = stage[d]
    BY Zenon, <1>0, <1>1
  <2>2. link'[c] = m /\ DOMAIN link' = Conn /\ \A d \in Conn : d # c => link'[d] = link[d]
    BY Zenon, <1>0, <1>1, SetLink
  <2>3. /\ Sound(link'[c], stage'[c])
        /\ \A d \in Conn : d # c => link'[d] = link[d] /\ stage'[d] = stage[d]
    BY Zenon, <1>1, <2>1, <2>2
  <2>4. ProxyInv'
    BY Zenon, <2>1, <2>2, <2>3, OneConnection
  <2> QED
    BY Zenon, <1>1, <2>1, <2>4
<1>2. {"read", "done", "select"} \subseteq Stages
  BY DEF Stages, Serving, Over
<1>3. CASE l.turn = "client" /\ "server" \in l.ready
  <2> DEFINE m == [l EXCEPT !["turn"] = "server"]
  <2>1. link' = [link EXCEPT ![c] = m] /\ stage' = [stage EXCEPT ![c] = "read"]
    BY Zenon, <1>3 DEF EndTransfer, To
  <2>2. m["turn"] = "server" /\ Others(m, l, "turn")
    <3>1. "turn" \in Fields /\ DOMAIN l = Fields
      BY Zenon, <1>0 DEF Fields, LinkOK
    <3> QED
      BY Zenon, <3>1, SetField
  <2> HIDE DEF m
  <2>3. /\ m.read = l.read /\ m.got = l.got /\ m.sent = l.sent /\ m.open = l.open
        /\ m.turn = "server" /\ m.ready = l.ready /\ DOMAIN m = Fields /\ m.taken = l.taken
    BY <2>2 DEF Others
  <2>4. LinkOK(m) /\ \A s \in Side : m.sent[s] >= l.sent[s]
    BY <1>0, <2>3 DEF LinkOK, Side
  <2>5. \A s \in Side : Pending(m, "read", s) = Pending(l, "select", s)
    BY DEF Pending
  <2>6. \A s \in Turns(m, "read") : m.open[s] = "open" => m.read[s] < m.sent[s]
    <3>1. Turns(m, "read") = {"server"}
      BY <2>3 DEF Turns
    <3> QED
      BY Zenon, <1>3, <2>3, <3>1
  <2>7. Sound(m, "read")
    BY <2>3, <2>4, <2>5, <2>6, SoundKept
  <2> QED
    BY Zenon, <1>1, <1>2, <2>1, <2>7
<1>4. CASE ~(l.turn = "client" /\ "server" \in l.ready)
  <2>1. CASE result
    <3>1. link' = [link EXCEPT ![c] = Blank] /\ stage' = [stage EXCEPT ![c] = "done"]
      BY Zenon, <1>4, <2>1 DEF EndTransfer, To
    <3>2. Sound(Blank, "done")
      BY <1>2, BlankSound
    <3> QED
      BY Zenon, <1>1, <1>2, <2>1, <3>1, <3>2
  <2>2. CASE ~result
    <3>1. link' = [link EXCEPT ![c] = l] /\ stage' = [stage EXCEPT ![c] = "select"]
      BY Zenon, <1>4, <2>2 DEF EndTransfer, To
    <3> QED
      BY Zenon, <1>1, <1>2, <3>1
  <2> QED
    BY Zenon, <2>1, <2>2
<1> QED
  BY Zenon, <1>3, <1>4

--------------------------------------------------------------------------------
(* transfer *)

(* What the last turn of a connection leaves behind.                            *)
Delivered(c) ==
  \A s \in Side :
    /\ stage[c] # "done" /\ stage'[c] = "done"
    /\ link[c].open[s] = "half" /\ link[c].open[Peer(s)] = "open"
    => link[c].got[Peer(s)] = [k \in 1..link[c].sent[s] |-> k]

(* What a read finds: nothing only when nothing is left.                        *)
LEMMA Chunk ==
  ASSUME NEW a \in Nat
  PROVE  /\ Min({BuffSize, a}) \in Nat /\ Min({BuffSize, a}) <= a
         /\ Min({BuffSize, a}) = 0 => a = 0
<1>1. BuffSize \in Nat /\ BuffSize > 0
  BY ProxyAssumption
<1>2. \E x \in {BuffSize, a} : \A y \in {BuffSize, a} : x <= y
  BY <1>1
<1>3. Min({BuffSize, a}) \in {BuffSize, a} /\ \A y \in {BuffSize, a} : Min({BuffSize, a}) <= y
  BY Zenon, <1>2 DEF Min
<1> HIDE DEF Min
<1> QED
  BY <1>1, <1>3

(* The end of the stream: whoever has shut down and been read to the end has    *)
(* been delivered, and a side that is still there has its turn only with bytes. *)
LEMMA EndSound ==
  ASSUME ProxyInv, NEW c \in Conn, stage[c] = "read", EndTransfer(c, link[c], TRUE),
         link[c].open[link[c].turn] # "reset" => link[c].sent[link[c].turn] - link[c].read[link[c].turn] = 0
  PROVE  ProxyInv' /\ Delivered(c) /\ \A d \in Conn : d # c => stage'[d] = stage[d]
<1> DEFINE l == link[c]
<1>0. Sound(l, "read") /\ LinkOK(l)
  BY Zenon DEF ProxyInv, Sound
<1>e. EndTransfer(c, l, TRUE)
  BY Zenon
<1>r. l.open[l.turn] # "reset" => l.sent[l.turn] - l.read[l.turn] = 0
  BY Zenon
<1> HIDE DEF l
<1>1. \A s \in Side : Pending(l, "select", s) = Pending(l, "read", s)
  BY DEF Pending
<1>2. Sound(l, "select")
  <2>1. \A s \in Side : l.sent[s] >= l.sent[s]
    BY <1>0 DEF LinkOK
  <2> QED
    BY <1>0, <1>1, <2>1, SoundKept
<1>3. \A s \in Turns(l, "read") : l.open[s] = "open" => l.read[s] < l.sent[s]
  BY Zenon, <1>0 DEF Sound
<1>4. l.turn = "client" /\ "server" \in l.ready /\ l.open["server"] = "open"
        => l.read["server"] < l.sent["server"]
  BY <1>3 DEF Turns
<1>5. ProxyInv' /\ \A d \in Conn : d # c => stage'[d] = stage[d]
  BY Zenon, <1>2, <1>4, <1>e, TransferSound
<1>6. ASSUME NEW s \in Side, l.open[s] = "half", l.open[Peer(s)] = "open"
      PROVE  l.got[Peer(s)] = [k \in 1..l.sent[s] |-> k]
  <2>1. l.turn = s
    <3>1. CASE l.turn = Peer(s)
      <4>1. l.read[l.turn] < l.sent[l.turn]
        BY Zenon, <1>3, <1>6, <3>1 DEF Turns
      <4>2. l.sent[l.turn] - l.read[l.turn] = 0 /\ l.sent[l.turn] \in Nat /\ l.read[l.turn] \in Nat
        BY <1>0, <1>6, <1>r, <3>1, Peers DEF LinkOK
      <4> QED
        BY <4>1, <4>2
    <3> QED
      BY Zenon, <1>0, <1>6, <3>1, Peers DEF LinkOK
  <2>2. l.sent[s] = l.read[s] /\ l.sent[s] \in Nat
    BY <1>0, <1>6, <1>r, <2>1 DEF LinkOK
  <2>3. Carried(l, s, <<>>)
    <3>1. Pending(l, "read", s) = <<>>
      BY DEF Pending
    <3> QED
      BY Zenon, <1>0, <1>6, <3>1 DEF Sound
  <2>4. PICK m, n \in Nat : l.read[s] = m + n /\ l.got[Peer(s)] = Bytes(0, m) /\ <<>> = Bytes(m, n)
    BY Zenon, <2>3 DEF Carried
  <2>5. n = 0
    <3>1. Len(Bytes(m, n)) = n
      BY DEF Bytes
    <3> QED
      BY <2>4, <3>1
  <2>6. l.sent[s] = m
    BY <2>2, <2>4, <2>5
  <2> QED
    BY <2>4, <2>6 DEF Bytes
<1>7. Delivered(c)
  BY Zenon, <1>6 DEF Delivered, l
<1> QED
  BY Zenon, <1>5, <1>7

(* A chunk is read: it is in the buffer.                                        *)
LEMMA ReadSound ==
  ASSUME ProxyInv, NEW c \in Conn, ReadChunk(c)
  PROVE  ProxyInv' /\ Delivered(c) /\ \A d \in Conn : d # c => stage'[d] = stage[d]
<1> DEFINE l == link[c]
           s == l.turn
           n == IF l.open[s] = "reset" THEN 0 ELSE Min({BuffSize, l.sent[s] - l.read[s]})
           chunk == [k \in 1..n |-> l.read[s] + k]
           half == [l EXCEPT !["buf"] = chunk]
           m == link'[c]
<1>0. /\ Sound(l, "read") /\ LinkOK(l) /\ stage[c] = "read" /\ DOMAIN link = Conn
      /\ stage \in [Conn -> Stages]
  BY Zenon DEF ProxyInv, Sound, ReadChunk
<1>a. s \in Side /\ l.sent[s] \in Nat /\ l.read[s] \in Nat /\ l.read[s] <= l.sent[s]
  BY Zenon, <1>0 DEF LinkOK, Sound
<1>n. n \in Nat /\ n <= l.sent[s] - l.read[s] /\ (n = 0 => l.open[s] = "reset" \/ l.sent[s] - l.read[s] = 0)
  <2> HIDE DEF l, s
  <2>1. l.sent[s] - l.read[s] \in Nat
    BY <1>a
  <2> QED
    BY <2>1, Chunk
<1>1. CASE n = 0
  <2>1. EndTransfer(c, link[c], TRUE)
    BY Zenon, <1>1 DEF ReadChunk, EndOfStream
  <2>2. link[c].open[link[c].turn] # "reset" => link[c].sent[link[c].turn] - link[c].read[link[c].turn] = 0
    BY Zenon, <1>1, <1>n
  <2> QED
    BY Zenon, <1>0, <2>1, <2>2, EndSound
<1>2. CASE n # 0
  <2>1. /\ link' = [link EXCEPT ![c].buf = chunk, ![c].read[s] = @ + n]
        /\ stage' = [stage EXCEPT ![c] = "write"]
    BY Zenon, <1>2 DEF ReadChunk, EndOfStream, To
  <2>2. stage' \in [Conn -> Stages] /\ stage'[c] = "write" /\ \A d \in Conn : d # c => stage'[d] = stage[d]
    <3>1. "write" \in Stages
      BY DEF Stages, Serving
    <3> QED
      BY Zenon, <1>0, <2>1, <3>1
  <2>3. /\ m = [half EXCEPT !["read"] = [half["read"] EXCEPT ![s] = @ + n]]
        /\ DOMAIN link' = Conn /\ \A d \in Conn : d # c => link'[d] = link[d]
    <3> HIDE DEF s, n, chunk
    <3> QED
      BY Zenon, <1>0, <2>1
  <2>c. chunk = Bytes(l.read[s], n)
    BY Zenon DEF Bytes
  <2> HIDE DEF l, s, n, chunk, m
  <2>4. half["buf"] = chunk /\ Others(half, l, "buf")
    <3>1. "buf" \in Fields /\ DOMAIN l = Fields
      BY Zenon, <1>0 DEF Fields, LinkOK
    <3> QED
      BY Zenon, <3>1, SetField
  <2> HIDE DEF half
  <2>5. m["read"] = [half["read"] EXCEPT ![s] = @ + n] /\ Others(m, half, "read")
    <3> DEFINE v == [half["read"] EXCEPT ![s] = @ + n]
    <3>1. "read" \in Fields /\ DOMAIN half = Fields
      BY Zenon, <2>4 DEF Fields, Others
    <3>2. m = [half EXCEPT !["read"] = v]
      BY Zenon, <2>3
    <3>3. m["read"] = v /\ Others(m, half, "read")
      <4> HIDE DEF v
      <4> QED
        BY Zenon, <3>1, <3>2, SetField
    <3> QED
      BY Zenon, <3>3
  <2>6. /\ m.read = [l.read EXCEPT ![s] = @ + n] /\ m.got = l.got /\ m.sent = l.sent /\ m.open = l.open
        /\ m.turn = s /\ m.ready = l.ready /\ DOMAIN m = Fields /\ m.taken = l.taken /\ m.buf = chunk
    <3>1. l.turn = s
      BY Zenon DEF s
    <3> QED
      BY <2>4, <2>5, <3>1 DEF Others
  <2>7. m.read[s] = l.read[s] + n /\ m.read \in [Side -> Nat] /\ \A t \in Side : t # s => m.read[t] = l.read[t]
    BY <1>0, <1>a, <1>n, <2>6 DEF LinkOK
  <2>8. LinkOK(m)
    BY Zenon, <1>0, <1>a, <2>6, <2>7 DEF LinkOK
  <2>9. ASSUME NEW t \in Side PROVE m.read[t] <= m.sent[t]
    <3>1. CASE t = s
      BY <1>a, <1>n, <2>6, <2>7, <3>1
    <3>2. CASE t # s
      BY Zenon, <1>0, <2>6, <2>7, <3>2 DEF Sound
    <3> QED
      BY Zenon, <3>1, <3>2
  <2>10. ASSUME NEW t \in Side, m.open[Peer(t)] \in {"open", "half"} PROVE Carried(m, t, Pending(m, "write", t))
    <3>1. Carried(l, t, <<>>)
      <4>1. Pending(l, "read", t) = <<>>
        BY DEF Pending
      <4> QED
        BY Zenon, <1>0, <2>6, <2>10, <4>1 DEF Sound
    <3>2. PICK i, j \in Nat : l.read[t] = i + j /\ l.got[Peer(t)] = Bytes(0, i) /\ <<>> = Bytes(i, j)
      BY Zenon, <3>1 DEF Carried
    <3>3. CASE t = s
      <4>1. Len(Bytes(i, j)) = j
        BY DEF Bytes
      <4>2. l.read[t] = i
        BY <3>2, <4>1
      <4>3. m.read[t] = i + n /\ m.got[Peer(t)] = Bytes(0, i) /\ Pending(m, "write", t) = Bytes(i, n)
        BY Zenon, <2>6, <2>7, <2>c, <3>2, <3>3, <4>2 DEF Pending
      <4> QED
        BY Zenon, <1>n, <4>3 DEF Carried
    <3>4. CASE t # s
      <4>1. m.read[t] = l.read[t] /\ m.got = l.got /\ Pending(m, "write", t) = <<>>
        BY Zenon, <2>6, <2>7, <3>4 DEF Pending
      <4> QED
        BY Zenon, <3>1, <4>1 DEF Carried
    <3> QED
      BY Zenon, <3>3, <3>4
  <2>11. ASSUME NEW t \in Turns(m, "write"), m.open[t] = "open" PROVE m.read[t] < m.sent[t]
    <3>1. t = "server" /\ s = "client" /\ t \in l.ready
      BY <2>6, <2>11 DEF Turns
    <3>2. t \in Turns(l, "read") /\ t # s /\ t \in Side
      BY <1>0, <2>6, <3>1 DEF Turns, LinkOK, s
    <3> QED
      BY Zenon, <1>0, <2>6, <2>7, <2>11, <3>2 DEF Sound
  <2>12. Sound(m, "write")
    BY Zenon, <2>8, <2>9, <2>10, <2>11 DEF Sound
  <2>13. /\ Sound(link'[c], stage'[c])
         /\ \A d \in Conn : d # c => link'[d] = link[d] /\ stage'[d] = stage[d]
    BY Zenon, <2>2, <2>3, <2>12 DEF m
  <2>14. ProxyInv'
    BY Zenon, <2>2, <2>3, <2>13, OneConnection
  <2>15. Delivered(c)
    BY <2>2 DEF Delivered
  <2> QED
    BY Zenon, <2>2, <2>14, <2>15
<1> QED
  BY Zenon, <1>1, <1>2

(* A byte goes from the buffer to a receiver that is there, or is lost.         *)
LEMMA WriteSound ==
  ASSUME ProxyInv, NEW c \in Conn, WriteByte(c)
  PROVE  ProxyInv' /\ Delivered(c) /\ \A d \in Conn : d # c => stage'[d] = stage[d]
<1> DEFINE l == link[c]
           s == l.turn
           p == Peer(s)
           m == link'[c]
<1>0. /\ Sound(l, "write") /\ LinkOK(l) /\ stage[c] = "write" /\ DOMAIN link = Conn
      /\ stage \in [Conn -> Stages] /\ l.buf # <<>>
  BY Zenon DEF ProxyInv, Sound, WriteByte
<1>a. s \in Side /\ p \in Side /\ Peer(p) = s /\ p # s
  BY Zenon, <1>0, Peers DEF LinkOK
<1>t. \A t \in Turns(l, "write") : l.open[t] = "open" => l.read[t] < l.sent[t]
  BY Zenon, <1>0 DEF Sound
<1>g. \A t \in Side : l.sent[t] >= l.sent[t]
  BY <1>0 DEF LinkOK
<1>s. ASSUME UNCHANGED stage, DOMAIN link' = Conn, \A d \in Conn : d # c => link'[d] = link[d],
             Sound(m, "write")
      PROVE  ProxyInv' /\ Delivered(c) /\ \A d \in Conn : d # c => stage'[d] = stage[d]
  <2>1. /\ Sound(link'[c], stage'[c]) /\ stage' \in [Conn -> Stages]
        /\ \A d \in Conn : d # c => link'[d] = link[d] /\ stage'[d] = stage[d]
    BY Zenon, <1>0, <1>s
  <2>2. ProxyInv'
    BY Zenon, <1>s, <2>1, OneConnection
  <2>3. Delivered(c)
    BY Zenon, <1>s DEF Delivered
  <2> QED
    BY Zenon, <2>1, <2>2, <2>3
<1>1. CASE /\ l.open[p] \in {"open", "half"} /\ UNCHANGED stage
           /\ link' = [link EXCEPT ![c].got[p] = Append(@, Head(l.buf)), ![c].buf = Tail(@)]
  <2> DEFINE v == [l["got"] EXCEPT ![p] = Append(@, Head(l.buf))]
             half == [l EXCEPT !["got"] = v]
  <2>1. /\ m = [half EXCEPT !["buf"] = Tail(half["buf"])] /\ DOMAIN link' = Conn
        /\ \A d \in Conn : d # c => link'[d] = link[d]
    <3> HIDE DEF p
    <3> QED
      BY Zenon, <1>0, <1>1
  <2> HIDE DEF l, s, p, m, v
  <2>2. half["got"] = v /\ Others(half, l, "got")
    <3>1. "got" \in Fields /\ DOMAIN l = Fields
      BY Zenon, <1>0 DEF Fields, LinkOK
    <3> QED
      BY Zenon, <3>1, SetField
  <2> HIDE DEF half
  <2>3. m["buf"] = Tail(half["buf"]) /\ Others(m, half, "buf")
    <3> DEFINE b == Tail(half["buf"])
    <3>1. "buf" \in Fields /\ DOMAIN half = Fields /\ m = [half EXCEPT !["buf"] = b]
      BY Zenon, <2>1, <2>2 DEF Fields, Others
    <3>2. m["buf"] = b /\ Others(m, half, "buf")
      <4> HIDE DEF b
      <4> QED
        BY Zenon, <3>1, SetField
    <3> QED
      BY Zenon, <3>2
  <2>4. /\ m.read = l.read /\ m.got = v /\ m.sent = l.sent /\ m.open = l.open
        /\ m.turn = l.turn /\ m.ready = l.ready /\ DOMAIN m = Fields /\ m.taken = l.taken /\ m.buf = Tail(l.buf)
    BY <2>2, <2>3 DEF Others
  <2>5. /\ m.got[p] = Append(l.got[p], Head(l.buf)) /\ DOMAIN m.got = Side
        /\ \A t \in Side : t # p => m.got[t] = l.got[t]
    <3>1. DOMAIN l.got = Side
      BY Zenon, <1>0 DEF LinkOK
    <3> QED
      BY <1>a, <2>4, <3>1 DEF v
  <2>6. LinkOK(m)
    BY Zenon, <1>0, <2>4, <2>5 DEF LinkOK
  <2>7. ASSUME NEW t \in Side, m.open[Peer(t)] \in {"open", "half"} PROVE Carried(m, t, Pending(m, "write", t))
    <3>1. Carried(l, t, Pending(l, "write", t))
      BY Zenon, <1>0, <2>4, <2>7 DEF Sound
    <3>2. CASE t = s
      <4>1. /\ Pending(l, "write", t) = l.buf /\ Pending(m, "write", t) = Tail(l.buf) /\ Peer(t) = p
        BY Zenon, <2>4, <3>2 DEF Pending, s, p
      <4>2. PICK i, j \in Nat : l.read[t] = i + j /\ l.got[Peer(t)] = Bytes(0, i) /\ l.buf = Bytes(i, j)
        BY Zenon, <3>1, <4>1 DEF Carried
      <4>3. /\ i + 1 \in Nat /\ j - 1 \in Nat /\ i + j = (i + 1) + (j - 1)
            /\ Append(Bytes(0, i), Head(Bytes(i, j))) = Bytes(0, i + 1)
            /\ Tail(Bytes(i, j)) = Bytes(i + 1, j - 1)
        BY Zenon, <1>0, <4>2, MoveByte
      <4>4. m.read[t] = (i + 1) + (j - 1)
        BY Zenon, <2>4, <4>2, <4>3
      <4>5. m.got[Peer(t)] = Bytes(0, i + 1) /\ Pending(m, "write", t) = Bytes(i + 1, j - 1)
        BY Zenon, <2>5, <4>1, <4>2, <4>3
      <4> QED
        BY Zenon, <4>3, <4>4, <4>5 DEF Carried
    <3>3. CASE t # s
      <4>1. Peer(t) # p /\ Peer(t) \in Side
        BY Zenon, <1>a, <3>3, Peers
      <4>2. m.got[Peer(t)] = l.got[Peer(t)] /\ m.read = l.read
        BY Zenon, <2>4, <2>5, <4>1
      <4>3. Pending(m, "write", t) = Pending(l, "write", t)
        BY Zenon, <2>4, <3>3 DEF Pending, s
      <4> QED
        BY Zenon, <3>1, <4>2, <4>3 DEF Carried
    <3> QED
      BY Zenon, <3>2, <3>3
  <2>8. \A t \in Turns(m, "write") : m.open[t] = "open" => m.read[t] < m.sent[t]
    BY Zenon, <1>t, <2>4 DEF Turns
  <2>9. \A t \in Side : m.read[t] <= m.sent[t]
    BY Zenon, <1>0, <2>4 DEF Sound
  <2>10. Sound(m, "write")
    BY Zenon, <2>6, <2>7, <2>8, <2>9 DEF Sound
  <2> QED
    BY Zenon, <1>1, <1>s, <2>1, <2>10
<1>2. CASE l.open[p] = "closed" /\ link' = [link EXCEPT ![c].buf = Tail(@)] /\ UNCHANGED stage
  <2> DEFINE b == Tail(l["buf"])
  <2>1. link' = [link EXCEPT ![c] = [l EXCEPT !["buf"] = b]]
    BY Zenon, <1>2
  <2>2. m = [l EXCEPT !["buf"] = b] /\ DOMAIN link' = Conn /\ \A d \in Conn : d # c => link'[d] = link[d]
    BY Zenon, <1>0, <2>1, SetLink
  <2> HIDE DEF l, s, p, m, b
  <2>3. m["buf"] = b /\ Others(m, l, "buf")
    <3>1. "buf" \in Fields /\ DOMAIN l = Fields
      BY Zenon, <1>0 DEF Fields, LinkOK
    <3> QED
      BY Zenon, <2>2, <3>1, SetField
  <2>4. /\ m.read = l.read /\ m.got = l.got /\ m.sent = l.sent /\ m.open = l.open
        /\ m.turn = l.turn /\ m.ready = l.ready /\ DOMAIN m = Fields /\ m.taken = l.taken
    BY <2>3 DEF Others
  <2>5. LinkOK(m) /\ \A t \in Side : m.sent[t] >= l.sent[t]
    BY Zenon, <1>0, <1>g, <2>4 DEF LinkOK
  <2>6. \A t \in Side : m.open[Peer(t)] \in {"open", "half"} => Pending(m, "write", t) = Pending(l, "write", t)
    BY <1>2, <2>4 DEF Pending, s, p
  <2>7. \A t \in Turns(m, "write") : m.open[t] = "open" => m.read[t] < m.sent[t]
    BY Zenon, <1>t, <2>4 DEF Turns
  <2>8. Sound(m, "write")
    BY <1>0, <2>4, <2>5, <2>6, <2>7, SoundKept
  <2> QED
    BY Zenon, <1>2, <1>s, <2>2, <2>8
<1>3. CASE l.open[p] \in {"closed", "reset"} /\ EndTransfer(c, [l EXCEPT !["buf"] = <<>>], TRUE)
  <2> DEFINE r == [l EXCEPT !["buf"] = <<>>]
  <2>1. EndTransfer(c, r, TRUE)
    BY Zenon, <1>3
  <2> HIDE DEF l, s, p, m
  <2>2. Others(r, l, "buf")
    <3>1. "buf" \in Fields /\ DOMAIN l = Fields
      BY Zenon, <1>0 DEF Fields, LinkOK
    <3> QED
      BY Zenon, <3>1, SetField
  <2> HIDE DEF r
  <2>4. /\ r.read = l.read /\ r.got = l.got /\ r.sent = l.sent /\ r.open = l.open
        /\ r.turn = l.turn /\ r.ready = l.ready /\ DOMAIN r = Fields /\ r.taken = l.taken
    BY <2>2 DEF Others
  <2>5. LinkOK(r) /\ \A t \in Side : r.sent[t] >= l.sent[t]
    BY Zenon, <1>0, <1>g, <2>4 DEF LinkOK
  <2>6. \A t \in Side : r.open[Peer(t)] \in {"open", "half"} => Pending(r, "select", t) = Pending(l, "write", t)
    BY <1>3, <2>4 DEF Pending, s, p
  <2>7. Sound(r, "select")
    BY <1>0, <2>4, <2>5, <2>6, SoundKept
  <2>8. r.turn = "client" /\ "server" \in r.ready /\ r.open["server"] = "open"
          => r.read["server"] < r.sent["server"]
    BY <1>t, <2>4 DEF Turns
  <2>9. ProxyInv' /\ \A d \in Conn : d # c => stage'[d] = stage[d]
    BY Zenon, <2>1, <2>7, <2>8, TransferSound
  <2>10. \A t \in Side : ~(l.open[t] = "half" /\ l.open[Peer(t)] = "open")
    <3>1. \A t \in Side : t = p \/ Peer(t) = p
      BY Zenon, <1>a, Peers
    <3> QED
      BY <1>3, <3>1
  <2>11. Delivered(c)
    BY Zenon, <2>10 DEF Delivered, l
  <2> QED
    BY Zenon, <2>9, <2>11
<1> QED
  BY Zenon, <1>1, <1>2, <1>3 DEF WriteByte

(* The whole buffer is written.                                                 *)
LEMMA ReturnSound ==
  ASSUME ProxyInv, NEW c \in Conn, WriteReturns(c)
  PROVE  ProxyInv' /\ stage'[c] # "done" /\ \A d \in Conn : d # c => stage'[d] = stage[d]
<1> DEFINE l == link[c]
<1>0. /\ Sound(l, "write") /\ LinkOK(l) /\ l.buf = <<>> /\ EndTransfer(c, l, FALSE)
  BY Zenon DEF ProxyInv, Sound, WriteReturns
<1> HIDE DEF l
<1>1. \A s \in Side : Pending(l, "select", s) = Pending(l, "write", s)
  BY <1>0 DEF Pending
<1>2. \A s \in Side : l.sent[s] >= l.sent[s]
  BY <1>0 DEF LinkOK
<1>3. Sound(l, "select")
  BY <1>0, <1>1, <1>2, SoundKept
<1>4. l.turn = "client" /\ "server" \in l.ready /\ l.open["server"] = "open"
        => l.read["server"] < l.sent["server"]
  <2>1. \A s \in Turns(l, "write") : l.open[s] = "open" => l.read[s] < l.sent[s]
    BY Zenon, <1>0 DEF Sound
  <2> QED
    BY <2>1 DEF Turns
<1> QED
  BY Zenon, <1>0, <1>3, <1>4, TransferSound

--------------------------------------------------------------------------------
(* The queue of the pool *)

(* A job is in the queue once, and only while nobody serves its connection.     *)
QueueInv ==
  /\ queue \in Seq(Conn)
  /\ \A i \in 1..Len(queue) : stage[queue[i]] = "queued"
  /\ \A i, j \in 1..Len(queue) : queue[i] = queue[j] => i = j

(* A connection that is not in the queue moves.                                 *)
LEMMA QueueKept ==
  ASSUME QueueInv, UNCHANGED queue, NEW c \in Conn, stage[c] # "queued",
         \A d \in Conn : d # c => stage'[d] = stage[d]
  PROVE  QueueInv'
<1>1. ASSUME NEW i \in 1..Len(queue) PROVE stage'[queue[i]] = "queued"
  <2>1. queue[i] \in Conn
    BY DEF QueueInv
  <2>2. stage[queue[i]] = "queued"
    BY Zenon DEF QueueInv
  <2> QED
    BY Zenon, <2>1, <2>2
<1>2. queue' = queue
  OBVIOUS
<1>3. /\ queue' \in Seq(Conn) /\ \A i, j \in 1..Len(queue') : queue'[i] = queue'[j] => i = j
  BY Zenon, <1>2 DEF QueueInv
<1>4. \A i \in 1..Len(queue') : stage'[queue'[i]] = "queued"
  BY Zenon, <1>1, <1>2
<1> QED
  BY Zenon, <1>3, <1>4 DEF QueueInv

LEMMA ExecuteSound ==
  ASSUME ProxyInv, QueueInv, NEW c \in Conn, stage[c] \in {"backlog", "accepted"}, NEW ip, Execute(c, ip)
  PROVE  ProxyInv' /\ QueueInv' /\ \A d \in Conn : stage'[d] # "done" \/ stage[d] = "done"
<1>1. stage' = [stage EXCEPT ![c] = "queued"] /\ queue' = Append(queue, c) /\ link' = [link EXCEPT ![c].addr = ip]
  BY Zenon DEF Execute
<1>2. stage[c] \in Quiet /\ "queued" \in Quiet
  BY DEF Quiet, Stages, Serving, Over
<1>3. ProxyInv'
  BY Zenon, <1>1, <1>2, MovesSound
<1>4. stage'[c] = "queued" /\ \A d \in Conn : d # c => stage'[d] = stage[d]
  BY Zenon, <1>1 DEF ProxyInv
<1>5. /\ queue \in Seq(Conn) /\ \A i \in 1..Len(queue) : stage[queue[i]] = "queued" /\ queue[i] \in Conn
  BY DEF QueueInv
<1>6. /\ queue' \in Seq(Conn) /\ Len(queue') = Len(queue) + 1 /\ queue'[Len(queue) + 1] = c
      /\ \A i \in 1..Len(queue) : queue'[i] = queue[i]
  BY <1>1, <1>5
<1>7. \A i \in 1..Len(queue') : i \in 1..Len(queue) \/ i = Len(queue) + 1
  BY <1>5, <1>6
<1>8. \A i \in 1..Len(queue) : queue[i] # c
  BY <1>5
<1>9. \A i \in 1..Len(queue') : stage'[queue'[i]] = "queued"
  <2> SUFFICES ASSUME NEW i \in 1..Len(queue') PROVE stage'[queue'[i]] = "queued"
    BY Zenon
  <2>1. CASE i \in 1..Len(queue)
    <3>1. queue'[i] = queue[i] /\ queue[i] # c /\ queue[i] \in Conn /\ stage[queue[i]] = "queued"
      BY Zenon, <1>5, <1>6, <1>8, <2>1
    <3> QED
      BY Zenon, <1>4, <3>1
  <2>2. CASE i = Len(queue) + 1
    BY Zenon, <1>4, <1>6, <2>2
  <2> QED
    BY Zenon, <1>7, <2>1, <2>2
<1>10. \A i, j \in 1..Len(queue') : queue'[i] = queue'[j] => i = j
  <2> SUFFICES ASSUME NEW i \in 1..Len(queue'), NEW j \in 1..Len(queue'), queue'[i] = queue'[j] PROVE i = j
    BY Zenon
  <2>1. CASE i \in 1..Len(queue) /\ j \in 1..Len(queue)
    <3>1. queue[i] = queue[j]
      BY Zenon, <1>6, <2>1
    <3> QED
      BY Zenon, <2>1, <3>1 DEF QueueInv
  <2>2. CASE i \in 1..Len(queue) /\ j = Len(queue) + 1
    BY Zenon, <1>6, <1>8, <2>2
  <2>3. CASE i = Len(queue) + 1 /\ j \in 1..Len(queue)
    BY Zenon, <1>6, <1>8, <2>3
  <2>4. CASE i = Len(queue) + 1 /\ j = Len(queue) + 1
    BY Zenon, <2>4
  <2> QED
    BY Zenon, <1>7, <2>1, <2>2, <2>3, <2>4
<1>11. QueueInv'
  BY Zenon, <1>6, <1>9, <1>10 DEF QueueInv
<1>12. \A d \in Conn : stage'[d] # "done" \/ stage[d] = "done"
  BY <1>4
<1> QED
  BY Zenon, <1>3, <1>11, <1>12

LEMMA TakeSound ==
  ASSUME ProxyInv, QueueInv, NEW c \in Conn, TakeJob(c)
  PROVE  ProxyInv' /\ QueueInv' /\ \A d \in Conn : stage'[d] # "done" \/ stage[d] = "done"
<1>1. /\ queue # <<>> /\ c = Head(queue) /\ queue' = Tail(queue) /\ UNCHANGED link
      /\ stage' = [stage EXCEPT ![c] = "connect"]
  BY Zenon DEF TakeJob, To
<1>2. queue \in Seq(Conn) /\ Len(queue) >= 1 /\ c = queue[1] /\ stage[c] = "queued" /\ Len(queue) \in Nat
  BY <1>1 DEF QueueInv
<1>3. stage[c] \in Quiet /\ "connect" \in Quiet
  BY <1>2 DEF Quiet, Stages, Serving, Over
<1>4. ProxyInv'
  BY Zenon, <1>1, <1>3, MovesSound
<1>5. stage'[c] = "connect" /\ \A d \in Conn : d # c => stage'[d] = stage[d]
  BY Zenon, <1>1 DEF ProxyInv
<1>6. /\ queue' \in Seq(Conn) /\ Len(queue') = Len(queue) - 1
      /\ \A i \in 1..Len(queue') : queue'[i] = queue[i + 1] /\ i + 1 \in 1..Len(queue) /\ i + 1 # 1
  BY <1>1, <1>2
<1>7. 1 \in 1..Len(queue)
  BY <1>2
<1>8. ASSUME NEW i \in 1..Len(queue') PROVE stage'[queue'[i]] = "queued"
  <2>1. queue'[i] # c
    <3>1. queue[i + 1] = queue[1] => i + 1 = 1
      BY Zenon, <1>6, <1>7 DEF QueueInv
    <3>2. queue'[i] = queue[i + 1] /\ i + 1 # 1 /\ c = queue[1]
      BY Zenon, <1>2, <1>6
    <3> QED
      BY Zenon, <3>1, <3>2
  <2>2. queue'[i] \in Conn /\ stage[queue'[i]] = "queued"
    <3>1. queue'[i] \in Conn
      BY <1>6
    <3>2. i + 1 \in 1..Len(queue) /\ queue'[i] = queue[i + 1]
      BY Zenon, <1>6
    <3>3. stage[queue[i + 1]] = "queued"
      BY Zenon, <3>2 DEF QueueInv
    <3> QED
      BY Zenon, <3>1, <3>2, <3>3
  <2> QED
    BY Zenon, <1>5, <2>1, <2>2
<1>9. ASSUME NEW i \in 1..Len(queue'), NEW j \in 1..Len(queue'), queue'[i] = queue'[j] PROVE i = j
  <2>1. i + 1 = j + 1
    <3>1. /\ i + 1 \in 1..Len(queue) /\ j + 1 \in 1..Len(queue)
          /\ queue'[i] = queue[i + 1] /\ queue'[j] = queue[j + 1]
      BY Zenon, <1>6
    <3>2. queue[i + 1] = queue[j + 1]
      BY Zenon, <1>9, <3>1
    <3> QED
      BY Zenon, <3>1, <3>2 DEF QueueInv
  <2> QED
    BY <2>1
<1>10. QueueInv'
  BY Zenon, <1>6, <1>8, <1>9 DEF QueueInv
<1>11. \A d \in Conn : stage'[d] # "done" \/ stage[d] = "done"
  BY <1>5
<1> QED
  BY Zenon, <1>4, <1>10, <1>11

--------------------------------------------------------------------------------
(* Every step *)

(* A connection that is neither queued nor served moves on.                     *)
LEMMA MoveOn ==
  ASSUME ProxyInv, QueueInv, NEW c \in Conn, NEW to \in Quiet, to # "done", stage[c] \in Quiet, stage[c] # "queued",
         UNCHANGED queue, stage' = [stage EXCEPT ![c] = to],
         UNCHANGED link \/ link' = [link EXCEPT ![c] = Blank]
  PROVE  ProxyInv' /\ QueueInv' /\ \A d \in Conn : stage'[d] # "done" \/ stage[d] = "done"
<1>1. ProxyInv'
  BY Zenon, MovesSound
<1>2. stage'[c] = to /\ \A d \in Conn : d # c => stage'[d] = stage[d]
  BY Zenon DEF ProxyInv
<1>3. QueueInv'
  BY Zenon, <1>2, QueueKept
<1> QED
  BY Zenon, <1>1, <1>2, <1>3

LEMMA EndProcess ==
  ASSUME ProxyInv, ProcessEnds
  PROVE  ProxyInv' /\ QueueInv' /\ \A d \in Conn : stage'[d] # "done" \/ stage[d] = "done"
<1>1. /\ queue' = <<>> /\ link' = [c \in Conn |-> Blank]
      /\ stage' = [c \in Conn |-> IF stage[c] = "new" THEN "new" ELSE "failed"]
  BY Zenon DEF ProcessEnds
<1>2. {"new", "failed"} \subseteq Stages \ {"read", "write"}
  BY DEF Stages, Serving, Over
<1>3. stage' \in [Conn -> Stages] /\ \A c \in Conn : stage'[c] \in {"new", "failed"}
  BY <1>1, <1>2
<1>4. DOMAIN link' = Conn /\ \A c \in Conn : Sound(link'[c], stage'[c])
  BY Zenon, <1>1, <1>2, <1>3, BlankSound
<1>5. ProxyInv'
  BY Zenon, <1>3, <1>4 DEF ProxyInv
<1>6. QueueInv'
  BY <1>1 DEF QueueInv
<1>7. \A d \in Conn : stage'[d] # "done" \/ stage[d] = "done"
  BY <1>3
<1> QED
  BY Zenon, <1>5, <1>6, <1>7

LEMMA InitProxy == Init => ProxyInv /\ QueueInv
<1> SUFFICES ASSUME Init PROVE ProxyInv /\ QueueInv
  OBVIOUS
<1>1. stage = [c \in Conn |-> "new"] /\ link = [c \in Conn |-> Blank] /\ queue = <<>>
  BY Zenon DEF Init
<1>2. "new" \in Stages \ {"read", "write"}
  BY DEF Stages
<1>3. stage \in [Conn -> Stages]
  BY <1>1, <1>2
<1>4. DOMAIN link = Conn /\ \A c \in Conn : Sound(link[c], stage[c])
  BY Zenon, <1>1, <1>2, BlankSound
<1>5. QueueInv
  BY <1>1 DEF QueueInv
<1> QED
  BY Zenon, <1>3, <1>4, <1>5 DEF ProxyInv

(* One step, and what it leaves of a connection that is over.                   *)
LEMMA NextProxy ==
  ASSUME ProxyInv, QueueInv, [Next]_vars
  PROVE  ProxyInv' /\ QueueInv' /\ \A c \in Conn : Delivered(c)
<1> DEFINE Goal == ProxyInv' /\ QueueInv' /\ \A c \in Conn : Delivered(c)
<1>a. ASSUME ProxyInv', QueueInv', \A d \in Conn : stage'[d] # "done" \/ stage[d] = "done" PROVE Goal
  BY Zenon, <1>a DEF Delivered
<1>b. ASSUME UNCHANGED <<stage, link, queue>> PROVE Goal
  <2>1. ProxyInv'
    BY Zenon, <1>b DEF ProxyInv
  <2>2. QueueInv'
    BY Zenon, <1>b DEF QueueInv
  <2>3. \A d \in Conn : stage'[d] # "done" \/ stage[d] = "done"
    BY Zenon, <1>b
  <2> QED
    BY Zenon, <1>a, <2>1, <2>2, <2>3
<1>c. ASSUME NEW c \in Conn, stage[c] # "queued", UNCHANGED queue, ProxyInv', Delivered(c),
             \A d \in Conn : d # c => stage'[d] = stage[d]
      PROVE  Goal
  <2>1. QueueInv'
    BY Zenon, <1>c, QueueKept
  <2>2. \A d \in Conn : Delivered(d)
    BY Zenon, <1>c DEF Delivered
  <2> QED
    BY Zenon, <1>c, <2>1, <2>2
<1>q. {"new", "backlog", "accepted", "connect", "select", "failed"} \subseteq Quiet
  BY DEF Quiet, Stages, Serving, Over
<1> SUFFICES Goal
  BY Zenon
<1> HIDE DEF Goal
<1>1. CASE CheckArgs \/ CheckAllowlist \/ Listen \/ Tick \/ Rest \/ UNCHANGED vars
  <2>1. UNCHANGED <<stage, link, queue>>
    BY Zenon, <1>1 DEF CheckArgs, CheckAllowlist, Listen, Goto, Tick, Rest, vars
  <2> QED
    BY Zenon, <1>b, <2>1
<1>2. CASE AcceptFails
  BY Zenon, <1>2, <1>a, EndProcess DEF AcceptFails
<1>3. ASSUME NEW c \in Conn, ClientConnects(c) PROVE Goal
  <2>1. stage[c] = "new" /\ stage' = [stage EXCEPT ![c] = "backlog"] /\ UNCHANGED link /\ UNCHANGED queue
    BY Zenon, <1>3 DEF ClientConnects
  <2>2. stage[c] \in Quiet /\ "backlog" \in Quiet /\ stage[c] # "queued" /\ "backlog" # "done"
    BY <1>q, <2>1
  <2> QED
    BY Zenon, <1>a, <2>1, <2>2, MoveOn
<1>4. ASSUME NEW c \in Conn, Accept(c) PROVE Goal
  <2>1. stage[c] = "backlog"
    BY Zenon, <1>4 DEF Accept
  <2>2. CASE Execute(c, cache.ip)
    BY Zenon, <1>a, <2>1, <2>2, ExecuteSound
  <2>3. CASE stage' = [stage EXCEPT ![c] = "accepted"] /\ UNCHANGED link /\ UNCHANGED queue
    <3>1. stage[c] \in Quiet /\ "accepted" \in Quiet /\ stage[c] # "queued" /\ "accepted" # "done"
      BY <1>q, <2>1
    <3> QED
      BY Zenon, <1>a, <2>3, <3>1, MoveOn
  <2> QED
    BY Zenon, <1>4, <2>2, <2>3 DEF Accept
<1>5. ASSUME NEW c \in Conn, ResolveHost(c) PROVE Goal
  <2>1. stage[c] = "accepted" /\ (ProcessEnds \/ \E ip : Execute(c, ip))
    BY Zenon, <1>5 DEF ResolveHost
  <2>2. CASE ProcessEnds
    BY Zenon, <1>a, <2>2, EndProcess
  <2>3. ASSUME NEW ip, Execute(c, ip) PROVE Goal
    BY Zenon, <1>a, <2>1, <2>3, ExecuteSound
  <2> QED
    BY Zenon, <2>1, <2>2, <2>3
<1>6. ASSUME NEW c \in Conn, Worker(c) PROVE Goal
  <2>1. CASE TakeJob(c)
    BY Zenon, <1>a, <2>1, TakeSound
  <2>2. CASE Connected(c) \/ ConnectPanics(c)
    <3>1. /\ stage[c] = "connect" /\ UNCHANGED queue
          /\ \/ stage' = [stage EXCEPT ![c] = "select"] /\ UNCHANGED link
             \/ stage' = [stage EXCEPT ![c] = "failed"] /\ link' = [link EXCEPT ![c] = Blank]
      BY Zenon, <2>2 DEF Connected, ConnectPanics, To
    <3>2. stage[c] \in Quiet /\ {"select", "failed"} \subseteq Quiet /\ stage[c] # "queued"
      BY <1>q, <3>1
    <3>3. "select" \in Quiet /\ "failed" \in Quiet /\ "select" # "done" /\ "failed" # "done"
      BY <3>2
    <3> QED
      BY Zenon, <1>a, <3>1, <3>2, <3>3, MoveOn
  <2>3. CASE Select(c)
    <3>1. stage[c] = "select" /\ UNCHANGED queue
      BY Zenon, <2>3 DEF Select
    <3>2. ProxyInv' /\ stage'[c] = "read" /\ \A d \in Conn : d # c => stage'[d] = stage[d]
      BY Zenon, <2>3, SelectSound
    <3>3. Delivered(c) /\ stage[c] # "queued"
      BY <3>1, <3>2 DEF Delivered
    <3> QED
      BY Zenon, <1>c, <3>1, <3>2, <3>3
  <2>4. CASE ReadChunk(c)
    <3>1. stage[c] = "read" /\ UNCHANGED queue
      BY Zenon, <2>4 DEF ReadChunk
    <3> QED
      BY Zenon, <1>c, <2>4, <3>1, ReadSound
  <2>5. CASE WriteByte(c)
    <3>1. stage[c] = "write" /\ UNCHANGED queue
      BY Zenon, <2>5 DEF WriteByte
    <3> QED
      BY Zenon, <1>c, <2>5, <3>1, WriteSound
  <2>6. CASE WriteReturns(c)
    <3>1. stage[c] = "write" /\ UNCHANGED queue
      BY Zenon, <2>6 DEF WriteReturns
    <3>2. ProxyInv' /\ Delivered(c) /\ \A d \in Conn : d # c => stage'[d] = stage[d]
      BY Zenon, <2>6, ReturnSound DEF Delivered
    <3> QED
      BY Zenon, <1>c, <3>1, <3>2
  <2> QED
    BY Zenon, <1>6, <2>1, <2>2, <2>3, <2>4, <2>5, <2>6 DEF Worker
<1>7. ASSUME NEW c \in Conn, NEW s \in Side, Send(c, s) \/ TakeByte(c, s) \/ Leave(c, s) PROVE Goal
  <2>1. ProxyInv' /\ UNCHANGED stage
    BY Zenon, <1>7, EndsSound
  <2>2. UNCHANGED queue
    BY Zenon, <1>7 DEF Send, TakeByte, Leave
  <2>3. QueueInv'
    BY Zenon, <2>1, <2>2 DEF QueueInv
  <2> QED
    BY Zenon, <1>a, <2>1, <2>3
<1> QED
  BY Zenon, <1>1, <1>2, <1>3, <1>4, <1>5, <1>6, <1>7 DEF Next

(* A side that shuts its own direction down while the other one stays has every *)
(* byte it sent with the other one, in order, when the worker's loop in         *)
(* sock_accept ends, whatever the two transfers of its last round returned.     *)
THEOREM HalfClosedIsDelivered == Spec => HalfClosedDelivered
<1>1. ProxyInv /\ QueueInv /\ [Next]_vars => ProxyInv' /\ QueueInv' /\ \A c \in Conn : Delivered(c)
  BY Zenon, NextProxy
<1> DEFINE Step == \A c \in Conn, s \in Side :
                     /\ stage[c] # "done" /\ stage'[c] = "done"
                     /\ link[c].open[s] = "half" /\ link[c].open[Peer(s)] = "open"
                     => link[c].got[Peer(s)] = [k \in 1..link[c].sent[s] |-> k]
<1>2. (\A c \in Conn : Delivered(c)) => Step
  BY Zenon DEF Delivered
<1>3. HalfClosedDelivered <=> [][Step]_vars
  BY DEF HalfClosedDelivered
<1> HIDE DEF Step
<1> QED
  BY <1>1, <1>2, <1>3, InitProxy, PTL DEF Spec

================================================================================
