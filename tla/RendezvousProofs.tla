--------------------------- MODULE RendezvousProofs ---------------------------
(***************************************************************************)
(* Proofs about Rendezvous, for any number of clients and daemons, any     *)
(* order in which they are started and any mishap.  The argument is about  *)
(* where a client is known: a living daemon has it in its queue or serves  *)
(* it, never both, and no other daemon knows it.                           *)
(***************************************************************************)
EXTENDS Rendezvous, SequencesExt, TLAPS

Unconnected == {"idle", "refused", "cleaned", "waiting"}
Connected   == {"connected", "sent"}

(* The command has taken effect, and its client waits for the answer. *)
Busy        == {"executed", "blocked"}

(* What a client's state says of its command, and of the daemon it may     *)
(* start.  A command that was executed without an answer is that of the    *)
(* client being served, or its daemon has died.                            *)
ClientInv(c) ==
    /\ cst[c] \in Unconnected =>
          peer[c] = None /\ attempts[c] >= 1 /\ executed[c] = 0
    /\ cst[c] \in Unconnected \ {"waiting"} => dst[c] = "unborn"
    /\ cst[c] = "connected" => executed[c] = 0
    /\ cst[c] = "sent" =>
          \/ executed[c] = 0
          \/ dst[peer[c]] = "dead"
          \/ dst[peer[c]] \in Busy /\ current[peer[c]] = c
    /\ cst[c] = "done" => executed[c] = 1
    /\ executed[c] <= 1

(* What a daemon's state says of its connections. *)
DaemonInv(d) ==
    /\ dst[d] \in {"unborn"} \cup Starting => queue[d] = <<>>
    /\ current[d] # None => dst[d] \in Serving \cup {"dead"}
    /\ dst[d] \in Busy => /\ current[d] # None
                          /\ cst[current[d]] = "sent"
                          /\ executed[current[d]] = 1
    /\ dst[d] = "serving" /\ current[d] # None => executed[current[d]] = 0
    /\ IsInjective(queue[d])

(* What a living daemon's knowledge of a client says of the client. *)
MeetInv(c, d) ==
    Alive(d) =>
        /\ current[d] = c => peer[c] = d /\ cst[c] \in Connected
        /\ c \in ToSet(queue[d]) =>
              /\ peer[c] = d
              /\ cst[c] \in Connected
              /\ executed[c] = 0
              /\ current[d] # c

IInv ==
    /\ TypeOK
    /\ \A c \in Clients : ClientInv(c)
    /\ \A d \in Daemons : DaemonInv(d)
    /\ \A c \in Clients, d \in Daemons : MeetInv(c, d)

-----------------------------------------------------------------------------
(* A client that joins a queue it is not in leaves it without repetitions. *)
LEMMA AppendKeepsDistinct ==
    ASSUME NEW S, NEW q \in Seq(S), NEW x \in S, IsInjective(q), x \notin ToSet(q)
    PROVE  /\ IsInjective(Append(q, x))
           /\ ToSet(Append(q, x)) = ToSet(q) \cup {x}
<1>1. /\ DOMAIN Append(q, x) = 1 .. Len(q) + 1
      /\ DOMAIN q = 1 .. Len(q)
      /\ Len(q) \in Nat
      /\ \A i \in 1 .. Len(q) : Append(q, x)[i] = q[i]
      /\ Append(q, x)[Len(q) + 1] = x
  OBVIOUS
<1>2. \A i \in 1 .. Len(q) + 1 : i \in 1 .. Len(q) \/ i = Len(q) + 1
  BY <1>1
<1>3. \A i \in 1 .. Len(q) : q[i] # x
  BY <1>1 DEF ToSet
<1>4. IsInjective(Append(q, x))
  BY <1>1, <1>2, <1>3 DEF IsInjective
<1>5. ToSet(Append(q, x)) = ToSet(q) \cup {x}
  BY <1>1, <1>2 DEF ToSet
<1>6. QED
  BY <1>4, <1>5

(* The first of a queue without repetitions is not in the rest of it. *)
LEMMA TailKeepsDistinct ==
    ASSUME NEW S, NEW q \in Seq(S), q # <<>>, IsInjective(q)
    PROVE  /\ Head(q) \in S /\ Head(q) \in ToSet(q)
           /\ Tail(q) \in Seq(S)
           /\ IsInjective(Tail(q))
           /\ ToSet(Tail(q)) \subseteq ToSet(q)
           /\ Head(q) \notin ToSet(Tail(q))
<1>1. /\ Len(q) \in Nat /\ Len(q) >= 1
      /\ DOMAIN q = 1 .. Len(q)
      /\ Tail(q) \in Seq(S)
      /\ Len(Tail(q)) = Len(q) - 1
      /\ DOMAIN Tail(q) = 1 .. Len(q) - 1
      /\ \A i \in 1 .. Len(q) - 1 : Tail(q)[i] = q[i + 1]
      /\ Head(q) = q[1] /\ q[1] \in S
  OBVIOUS
<1>2. \A i \in 1 .. Len(q) - 1 : i + 1 \in 1 .. Len(q) /\ i + 1 # 1
  BY <1>1
<1>3. 1 \in 1 .. Len(q)
  BY <1>1
<1>4. IsInjective(Tail(q))
  <2>1. SUFFICES ASSUME NEW i \in 1 .. Len(q) - 1, NEW j \in 1 .. Len(q) - 1,
                        Tail(q)[i] = Tail(q)[j]
                 PROVE  i = j
    BY <1>1 DEF IsInjective
  <2>2. i + 1 = j + 1
    BY <1>1, <1>2, <2>1 DEF IsInjective
  <2>3. QED
    BY <1>1, <2>2
<1>5. ToSet(Tail(q)) \subseteq ToSet(q)
  BY <1>1, <1>2 DEF ToSet
<1>6. Head(q) \notin ToSet(Tail(q))
  BY <1>1, <1>2, <1>3 DEF ToSet, IsInjective
<1>7. QED
  BY <1>1, <1>3, <1>4, <1>5, <1>6 DEF ToSet

-----------------------------------------------------------------------------
(* The initial state. *)
LEMMA InitIInv == Init => IInv
<1>1. SUFFICES ASSUME Init PROVE IInv
  OBVIOUS
<1>2. TypeOK
  BY <1>1, RendezvousAssumption
  DEF Init, TypeOK, Daemons, ClientStates, DaemonStates
<1>3. ASSUME NEW c \in Clients PROVE ClientInv(c)
  BY <1>1, RendezvousAssumption DEF Init, ClientInv, Unconnected, Daemons
<1>4. ASSUME NEW d \in Daemons PROVE DaemonInv(d)
  BY <1>1 DEF Init, DaemonInv, IsInjective, Busy
<1>5. ASSUME NEW c \in Clients, NEW d \in Daemons PROVE MeetInv(c, d)
  BY <1>1 DEF Init, MeetInv, Alive
<1>6. QED
  BY <1>2, <1>3, <1>4, <1>5 DEF IInv

(* A client connects: it was known nowhere, and joins one queue. *)
LEMMA ConnectsIInv ==
    ASSUME IInv, NEW c \in Clients, cst[c] \in Unconnected, Connects(c)
    PROVE  IInv'
<1> DEFINE p == path
<1>1. /\ p \in Daemons /\ p # None
      /\ dst[p] \in Serving \cup Leaving
      /\ cst' = [cst EXCEPT ![c] = "connected"]
      /\ peer' = [peer EXCEPT ![c] = p]
      /\ queue' = [queue EXCEPT ![p] = Append(@, c)]
      /\ UNCHANGED <<path, attempts, dst, current, list, saved, executed>>
  BY RendezvousAssumption DEF Connects, IsRefused, Listening, Goes, Daemons
<1>2. TypeOK
  BY DEF IInv
<1>3. /\ peer[c] = None /\ attempts[c] >= 1 /\ executed[c] = 0
      /\ \A d \in Daemons : Alive(d) => current[d] # c /\ c \notin ToSet(queue[d])
  BY RendezvousAssumption DEF IInv, ClientInv, MeetInv, Daemons
<1>4. /\ queue[p] \in Seq(Clients)
      /\ IsInjective(queue[p])
      /\ c \notin ToSet(queue[p])
  BY <1>1, <1>2, <1>3 DEF TypeOK, IInv, DaemonInv, Alive, Serving, Leaving
<1>5. /\ Append(queue[p], c) \in Seq(Clients)
      /\ IsInjective(Append(queue[p], c))
      /\ ToSet(Append(queue[p], c)) = ToSet(queue[p]) \cup {c}
  BY <1>4, AppendKeepsDistinct
<1> HIDE DEF p
<1>6. TypeOK'
  BY <1>1, <1>2, <1>5 DEF TypeOK, ClientStates
<1>7. ASSUME NEW b \in Clients PROVE ClientInv(b)'
  <2>1. CASE b = c
    BY <1>1, <1>2, <1>3, <2>1 DEF ClientInv, TypeOK, Unconnected
  <2>2. CASE b # c
    BY <1>1, <1>2, <2>2 DEF IInv, ClientInv, TypeOK
  <2>3. QED
    BY <2>1, <2>2
<1>8. ASSUME NEW d \in Daemons PROVE DaemonInv(d)'
  <2>1. CASE d = p
    BY <1>1, <1>2, <1>3, <1>5, <2>1
    DEF IInv, DaemonInv, TypeOK, Starting, Serving, Leaving, Unconnected, Daemons, Busy
  <2>2. CASE d # p
    BY <1>1, <1>2, <1>3, <2>2 DEF IInv, DaemonInv, TypeOK, Unconnected, Daemons
  <2>3. QED
    BY <2>1, <2>2
<1>9. ASSUME NEW b \in Clients, NEW d \in Daemons PROVE MeetInv(b, d)'
  <2>1. SUFFICES ASSUME Alive(d) PROVE MeetInv(b, d)'
    BY <1>1 DEF MeetInv, Alive
  <2>2. MeetInv(b, d)
    BY DEF IInv
  <2>3. CASE b = c
    BY <1>1, <1>2, <1>3, <1>5, <2>1, <2>2, <2>3 DEF MeetInv, TypeOK, Alive, Connected
  <2>4. CASE b # c
    BY <1>1, <1>2, <1>5, <2>1, <2>2, <2>4 DEF MeetInv, TypeOK, Alive
  <2>5. QED
    BY <2>3, <2>4
<1>10. QED
  BY <1>6, <1>7, <1>8, <1>9 DEF IInv, Daemons

(* A client that no daemon knows tries again, cleans up or gives up.       *)
LEMMA AloneIInv ==
    ASSUME IInv, NEW c \in Clients, NEW state \in {"refused", "cleaned", "waiting", "failed"},
           cst[c] \in Unconnected,
           cst[c] = "waiting" => state \in {"waiting", "failed"},
           state = "waiting" => cst[c] = "waiting",
           cst' = [cst EXCEPT ![c] = state],
           \/ attempts' = attempts
           \/ /\ attempts' = [attempts EXCEPT ![c] = @ - 1]
              /\ attempts[c] = 1 => state = "failed",
           path' \in Daemons \cup {None},
           UNCHANGED <<peer, daemonVars, saved, executed>>
    PROVE  IInv'
<1>1. TypeOK /\ UNCHANGED <<peer, dst, queue, current, list, saved, executed>>
  BY DEF IInv, daemonVars
<1>2. ClientInv(c)
  BY DEF IInv
<1>3. attempts[c] \in 1 .. MaxAttempts
  BY <1>1, <1>2, RendezvousAssumption DEF TypeOK, ClientInv
<1> DEFINE left == attempts'[c]
<1>4. /\ attempts' = [attempts EXCEPT ![c] = left]
      /\ left \in 0 .. MaxAttempts
      /\ state # "failed" => left >= 1
  <2>1. attempts[c] - 1 \in 0 .. MaxAttempts /\ (attempts[c] # 1 => attempts[c] - 1 >= 1)
    BY <1>3, RendezvousAssumption
  <2>2. attempts \in [Clients -> 0 .. MaxAttempts]
    BY <1>1 DEF TypeOK
  <2>3. CASE attempts' = attempts
    BY <1>3, <2>2, <2>3
  <2>4. CASE attempts' # attempts
    <3>1. /\ attempts' = [attempts EXCEPT ![c] = attempts[c] - 1]
          /\ attempts[c] = 1 => state = "failed"
      BY <2>4
    <3> DEFINE fewer == attempts[c] - 1
    <3>2. left = fewer
      BY <2>2, <3>1
    <3>3. QED
      BY <2>1, <3>1, <3>2
  <2>5. QED
    BY <2>3, <2>4
<1> HIDE DEF left
<1>9. TypeOK'
  <2>1. attempts' \in [Clients -> 0 .. MaxAttempts]
    BY <1>1, <1>4 DEF TypeOK
  <2>2. cst' \in [Clients -> ClientStates]
    BY <1>1 DEF TypeOK, ClientStates
  <2>3. QED
    BY <1>1, <2>1, <2>2 DEF TypeOK
<1>5. ASSUME NEW b \in Clients PROVE ClientInv(b)'
  <2>1. ClientInv(b)
    BY DEF IInv
  <2>2. CASE b = c
    <3>1. cst'[c] = state
      BY <1>1 DEF TypeOK
    <3>2. state # "failed" => attempts'[c] >= 1
      BY <1>4 DEF left
    <3>3. QED
      BY <1>1, <1>2, <2>2, <3>1, <3>2 DEF ClientInv, Unconnected
  <2>3. CASE b # c
    <3>1. cst'[b] = cst[b] /\ attempts'[b] = attempts[b]
      BY <1>1, <1>4, <2>3 DEF TypeOK
    <3>2. QED
      BY <1>1, <2>1, <3>1 DEF ClientInv
  <2>4. QED
    BY <2>2, <2>3
<1>6. ASSUME NEW d \in Daemons PROVE DaemonInv(d)'
  BY <1>1, <1>2 DEF IInv, DaemonInv, TypeOK, Unconnected, Daemons
<1>7. ASSUME NEW b \in Clients, NEW d \in Daemons PROVE MeetInv(b, d)'
  <2>1. CASE b = c
    BY <1>1, <1>2, <2>1 DEF IInv, MeetInv, Unconnected, Connected, Alive
  <2>2. CASE b # c
    BY <1>1, <2>2 DEF IInv, MeetInv, TypeOK, Alive
  <2>3. QED
    BY <2>1, <2>2
<1>10. QED
  BY <1>9, <1>5, <1>6, <1>7 DEF IInv, Daemons

LEMMA ConnectIInv == ASSUME IInv, NEW c \in Clients, Connect(c) PROVE IInv'
<1>1. cst[c] \in Unconnected \ {"waiting"} /\ cst[c] = "idle"
  BY DEF Connect, Unconnected
<1>2. CASE Connects(c)
  BY <1>1, <1>2, ConnectsIInv
<1>3. CASE ~ Connects(c)
  BY <1>1, <1>3, AloneIInv DEF Connect, Goes, IInv, TypeOK
<1>4. QED
  BY <1>2, <1>3

LEMMA CleanUpIInv == ASSUME IInv, NEW c \in Clients, CleanUp(c) PROVE IInv'
<1>1. cst[c] \in Unconnected /\ cst[c] = "refused"
  BY DEF CleanUp, Unconnected
<1>2. QED
  BY <1>1, AloneIInv DEF CleanUp, Goes

LEMMA RetryIInv == ASSUME IInv, NEW c \in Clients, Retry(c) PROVE IInv'
<1>1. cst[c] \in Unconnected /\ cst[c] = "waiting"
  BY DEF Retry, Unconnected
<1>2. CASE Connects(c)
  BY <1>1, <1>2, ConnectsIInv
<1>3. CASE ~ Connects(c)
  <2>1. path' \in Daemons \cup {None}
    BY <1>3 DEF Retry, IInv, TypeOK
  <2>2. CASE attempts[c] = 1
    BY <1>1, <1>3, <2>1, <2>2, AloneIInv DEF Retry, Goes
  <2>3. CASE attempts[c] # 1
    BY <1>1, <1>3, <2>1, <2>3, AloneIInv DEF Retry, Goes
  <2>4. QED
    BY <2>2, <2>3
<1>4. QED
  BY <1>2, <1>3

(* The daemon of a client is born without connections. *)
LEMMA ForkIInv ==
    ASSUME IInv, NEW c \in Clients, cst[c] = "cleaned",
           cst' = [cst EXCEPT ![c] = "waiting"],
           dst' = [dst EXCEPT ![c] = "loading"],
           UNCHANGED <<path, peer, attempts, queue, current, list, saved, executed>>
    PROVE  IInv'
<1>1. /\ TypeOK
      /\ cst[c] = "cleaned"
      /\ cst' = [cst EXCEPT ![c] = "waiting"]
      /\ dst' = [dst EXCEPT ![c] = "loading"]
      /\ UNCHANGED <<path, peer, attempts, queue, current, list, saved, executed>>
  BY DEF IInv
<1>2. ClientInv(c) /\ c \in Daemons
  BY DEF IInv, Daemons
<1>3. /\ dst[c] = "unborn" /\ peer[c] = None
      /\ attempts[c] >= 1 /\ executed[c] = 0
  BY <1>1, <1>2 DEF ClientInv, Unconnected
<1>4. queue[c] = <<>> /\ current[c] = None
  BY <1>2, <1>3 DEF IInv, DaemonInv, Serving
<1>5. TypeOK'
  BY <1>1 DEF TypeOK, ClientStates, DaemonStates, Starting
<1>6. ASSUME NEW b \in Clients PROVE ClientInv(b)'
  <2>1. CASE b = c
    BY <1>1, <1>3, <2>1 DEF ClientInv, TypeOK, Unconnected
  <2>2. CASE b # c
    BY <1>1, <1>3, <2>2 DEF IInv, ClientInv, TypeOK, Daemons, Busy
  <2>3. QED
    BY <2>1, <2>2
<1>7. ASSUME NEW d \in Daemons PROVE DaemonInv(d)'
  <2>1. CASE d = c
    BY <1>1, <1>4, <2>1 DEF DaemonInv, TypeOK, IsInjective, Daemons, Busy
  <2>2. CASE d # c
    BY <1>1, <2>2 DEF IInv, DaemonInv, TypeOK, Daemons
  <2>3. QED
    BY <2>1, <2>2
<1>8. ASSUME NEW b \in Clients, NEW d \in Daemons PROVE MeetInv(b, d)'
  <2>1. CASE d = c
    BY <1>1, <1>4, <2>1, RendezvousAssumption DEF MeetInv, ToSet
  <2>2. CASE d # c
    <3>1. MeetInv(b, d) /\ Alive(d)' = Alive(d)
      BY <1>1, <2>2 DEF IInv, Alive, TypeOK, Daemons
    <3>2. CASE b = c
      BY <1>1, <3>1, <3>2 DEF MeetInv, Connected
    <3>3. CASE b # c
      BY <1>1, <3>1, <3>3 DEF MeetInv, TypeOK
    <3>4. QED
      BY <3>2, <3>3
  <2>3. QED
    BY <2>1, <2>2
<1>9. QED
  BY <1>5, <1>6, <1>7, <1>8 DEF IInv, Daemons

LEMMA SpawnClimpdIInv == ASSUME IInv, NEW c \in Clients, SpawnClimpd(c) PROVE IInv'
<1>1. /\ TypeOK
      /\ cst[c] = "cleaned" /\ cst[c] \in Unconnected
      /\ UNCHANGED <<path, peer, attempts, queue, current, list, saved, executed>>
  BY DEF IInv, SpawnClimpd, Unconnected
<1>2. CASE Goes(c, "waiting") /\ dst' = [dst EXCEPT ![c] = "loading"]
  BY <1>1, <1>2, ForkIInv DEF Goes
<1>3. CASE Goes(c, "failed") /\ UNCHANGED dst
  <2>1. path' \in Daemons \cup {None}
    BY <1>1 DEF TypeOK
  <2>2. QED
    BY <1>1, <1>3, <2>1, AloneIInv DEF Goes, daemonVars
<1>4. QED
  BY <1>2, <1>3 DEF SpawnClimpd

(* A client sends its command, or finds its connection closed. *)
LEMMA SendIInv == ASSUME IInv, NEW c \in Clients, Send(c) PROVE IInv'
<1>1. /\ TypeOK
      /\ cst[c] = "connected"
      /\ cst' = [cst EXCEPT ![c] = "sent"]
      /\ UNCHANGED <<path, peer, attempts, dst, queue, current, list, saved, executed>>
  BY DEF IInv, Send, Goes, daemonVars
<1>2. executed[c] = 0
  BY <1>1 DEF IInv, ClientInv
<1>3. TypeOK'
  BY <1>1 DEF TypeOK, ClientStates
<1>4. ASSUME NEW b \in Clients PROVE ClientInv(b)'
  BY <1>1, <1>2 DEF IInv, ClientInv, TypeOK, Unconnected
<1>5. ASSUME NEW d \in Daemons PROVE DaemonInv(d)'
  BY <1>1 DEF IInv, DaemonInv, TypeOK, Daemons
<1>6. ASSUME NEW b \in Clients, NEW d \in Daemons PROVE MeetInv(b, d)'
  BY <1>1 DEF IInv, MeetInv, TypeOK, Connected, Alive
<1>7. QED
  BY <1>3, <1>4, <1>5, <1>6 DEF IInv, Daemons

LEMMA ResetIInv == ASSUME IInv, NEW c \in Clients, Reset(c) PROVE IInv'
<1>1. /\ TypeOK
      /\ cst[c] \in Connected
      /\ ~ Alive(peer[c])
      /\ cst' = [cst EXCEPT ![c] = "failed"]
      /\ UNCHANGED <<path, peer, attempts, dst, queue, current, list, saved, executed>>
  BY DEF IInv, Reset, Goes, daemonVars, Connected
<1>2. \A d \in Daemons : Alive(d) => current[d] # c /\ c \notin ToSet(queue[d])
  BY <1>1 DEF IInv, MeetInv
<1>3. TypeOK'
  BY <1>1 DEF TypeOK, ClientStates
<1>4. ASSUME NEW b \in Clients PROVE ClientInv(b)'
  BY <1>1 DEF IInv, ClientInv, TypeOK, Unconnected
<1>5. ASSUME NEW d \in Daemons PROVE DaemonInv(d)'
  BY <1>1, <1>2 DEF IInv, DaemonInv, TypeOK, Daemons, Alive, Busy
<1>6. ASSUME NEW b \in Clients, NEW d \in Daemons PROVE MeetInv(b, d)'
  BY <1>1, <1>2 DEF IInv, MeetInv, TypeOK, Alive
<1>7. QED
  BY <1>3, <1>4, <1>5, <1>6 DEF IInv, Daemons

(***************************************************************************)
(* A daemon that goes from one state to another and leaves its connections *)
(* alone: it may die anywhere, starts with none, and leaves with none      *)
(* being served.                                                           *)
(***************************************************************************)
LEMMA MovesIInv ==
    ASSUME IInv, TypeOK', NEW d \in Daemons, NEW state \in DaemonStates \ ({"unborn"} \cup Busy),
           dst[d] # "unborn",
           dst' = [dst EXCEPT ![d] = state],
           state = "dead" \/ Alive(d),
           state \in Starting => queue[d] = <<>>,
           state # "dead" => current[d] = None,
           UNCHANGED <<clientVars, queue, current, executed>>
    PROVE  IInv'
<1>1. /\ TypeOK
      /\ UNCHANGED <<cst, peer, attempts, queue, current, executed>>
      /\ dst'[d] = state
      /\ \A e \in Daemons : e # d => dst'[e] = dst[e]
  BY DEF IInv, clientVars, TypeOK
<1>2. ASSUME NEW b \in Clients PROVE ClientInv(b)'
  <2>1. ClientInv(b) /\ b \in Daemons
    BY DEF IInv, Daemons
  <2>2. dst[b] = "unborn" => dst'[b] = "unborn"
    BY <1>1, <2>1
  <2>3. cst[b] = "sent" => peer[b] \in Daemons \cup {None}
    BY <1>1 DEF TypeOK
  <2>4. CASE peer[b] = d
    <3>1. dst[d] \in Busy /\ current[d] = b => dst'[d] = "dead"
      BY <1>1, RendezvousAssumption DEF Daemons
    <3>2. dst[d] = "dead" => dst'[d] = "dead"
      BY <1>1 DEF Alive
    <3>3. QED
      BY <1>1, <2>1, <2>2, <2>4, <3>1, <3>2 DEF ClientInv
  <2>5. CASE peer[b] # d
    <3>1. dst'[peer[b]] = dst[peer[b]]
      BY <1>1, <2>5 DEF TypeOK
    <3>2. QED
      BY <1>1, <2>1, <2>2, <3>1 DEF ClientInv
  <2>6. QED
    BY <2>4, <2>5
<1>3. ASSUME NEW e \in Daemons PROVE DaemonInv(e)'
  <2>1. CASE e = d
    BY <1>1, <2>1 DEF IInv, DaemonInv, Starting, DaemonStates
  <2>2. CASE e # d
    BY <1>1, <2>2 DEF IInv, DaemonInv
  <2>3. QED
    BY <2>1, <2>2
<1>4. ASSUME NEW b \in Clients, NEW e \in Daemons PROVE MeetInv(b, e)'
  BY <1>1 DEF IInv, MeetInv, Alive
<1>5. QED
  BY <1>2, <1>3, <1>4 DEF IInv, Daemons

(* On its way to its main loop, and away from it, a daemon serves nobody.  *)
LEMMA StartsIInv ==
    ASSUME IInv, NEW d \in Daemons, Load(d) \/ UnlinkOld(d) \/ Bind(d) \/ Listen(d)
    PROVE  IInv'
<1>1. TypeOK /\ DaemonInv(d)
  BY DEF IInv
<1>2. /\ dst[d] \in Starting
      /\ dst[d] # "unborn" /\ Alive(d)
      /\ UNCHANGED <<clientVars, queue, current, executed>>
      /\ \E state \in Starting \cup {"serving", "mute", "dead"} :
            dst' = [dst EXCEPT ![d] = state]
  BY DEF Load, UnlinkOld, Bind, Listen, Becomes, Starting, Alive
<1>3. queue[d] = <<>> /\ current[d] = None
  BY <1>1, <1>2 DEF DaemonInv, Starting, Serving
<1>4. TypeOK'
  BY <1>1 DEF Load, UnlinkOld, Bind, Listen, Becomes, TypeOK, DaemonStates, Starting, Serving,
              clientVars
<1>5. PICK state \in Starting \cup {"serving", "mute", "dead"} :
          dst' = [dst EXCEPT ![d] = state]
  BY <1>2
<1>6. state \in DaemonStates \ ({"unborn"} \cup Busy)
  BY DEF DaemonStates, Starting, Serving, Busy
<1>7. QED
  BY <1>2, <1>3, <1>4, <1>5, <1>6, MovesIInv

LEMMA LeavesIInv ==
    ASSUME IInv, NEW d \in Daemons, Save(d) \/ UnlinkOwn(d) \/ Exit(d)
    PROVE  IInv'
<1>1. TypeOK /\ DaemonInv(d)
  BY DEF IInv
<1>2. /\ dst[d] \in Leaving
      /\ dst[d] # "unborn" /\ Alive(d)
      /\ UNCHANGED <<clientVars, queue, current, executed>>
      /\ \E state \in {"saved", "gone", "dead"} : dst' = [dst EXCEPT ![d] = state]
  BY DEF Save, UnlinkOwn, Exit, Becomes, Leaving, Alive
<1>3. current[d] = None
  BY <1>1, <1>2 DEF DaemonInv, Leaving, Serving
<1>4. TypeOK'
  BY <1>1 DEF Save, UnlinkOwn, Exit, Becomes, TypeOK, DaemonStates, Leaving, clientVars
<1>5. PICK state \in {"saved", "gone", "dead"} : dst' = [dst EXCEPT ![d] = state]
  BY <1>2
<1>6. state \in DaemonStates \ ({"unborn"} \cup Busy) /\ state \notin Starting
  BY DEF DaemonStates, Leaving, Starting, Busy
<1>7. QED
  BY <1>2, <1>3, <1>4, <1>5, <1>6, MovesIInv

LEMMA MishapIInv == ASSUME IInv, NEW d \in Daemons, Mishap(d) PROVE IInv'
<1>1. TypeOK
  BY DEF IInv
<1>2. /\ Alive(d) /\ dst[d] # "unborn"
      /\ UNCHANGED <<path, clientVars, queue, current, list, saved, executed>>
      /\ \E state \in {"dead", "leaving", "saved", "deaf"} :
            /\ dst' = [dst EXCEPT ![d] = state]
            /\ state # "dead" => current[d] = None
  BY DEF Mishap, Becomes, Alive
<1>3. PICK state \in {"dead", "leaving", "saved", "deaf"} :
          dst' = [dst EXCEPT ![d] = state] /\ (state # "dead" => current[d] = None)
  BY <1>2
<1>4. state \in DaemonStates \ ({"unborn"} \cup Busy) /\ state \notin Starting
  BY DEF DaemonStates, Leaving, Serving, Starting, Busy
<1>5. TypeOK'
  BY <1>1, <1>2, <1>3, <1>4 DEF TypeOK, clientVars
<1>6. QED
  BY <1>2, <1>3, <1>4, <1>5, MovesIInv

(* The first in the queue is served, and no longer queued. *)
LEMMA ServesIInv ==
    ASSUME IInv, NEW d \in Daemons, Accept(d),
           current' = [current EXCEPT ![d] = Head(queue[d])], UNCHANGED cst
    PROVE  IInv'
<1> DEFINE c == Head(queue[d])
<1>1. /\ TypeOK
      /\ dst[d] = "serving" /\ current[d] = None /\ queue[d] # <<>>
      /\ current' = [current EXCEPT ![d] = c]
      /\ queue' = [queue EXCEPT ![d] = Tail(@)]
      /\ UNCHANGED <<path, cst, peer, attempts, dst, list, saved, executed>>
  BY DEF IInv, Accept
<1>2. queue[d] \in Seq(Clients) /\ IsInjective(queue[d])
  BY <1>1 DEF IInv, TypeOK, DaemonInv
<1>3. /\ c \in Clients /\ c \in ToSet(queue[d])
      /\ Tail(queue[d]) \in Seq(Clients)
      /\ IsInjective(Tail(queue[d]))
      /\ ToSet(Tail(queue[d])) \subseteq ToSet(queue[d])
      /\ c \notin ToSet(Tail(queue[d]))
  BY <1>1, <1>2, TailKeepsDistinct
<1> HIDE DEF c
<1>4. Alive(d) /\ c # None /\ d \in Clients
  BY <1>1, <1>3, RendezvousAssumption DEF Alive, Daemons
<1>5. /\ peer[c] = d /\ cst[c] \in Connected /\ executed[c] = 0
  BY <1>3, <1>4 DEF IInv, MeetInv
<1>6. \A e \in Daemons : Alive(e) /\ e # d => current[e] # c /\ c \notin ToSet(queue[e])
  BY <1>3, <1>5 DEF IInv, MeetInv
<1>7. TypeOK'
  BY <1>1, <1>3 DEF TypeOK
<1>8. ASSUME NEW b \in Clients PROVE ClientInv(b)'
  <2>1. ClientInv(b)
    BY DEF IInv
  <2>2. dst[peer[b]] \in Busy => current'[peer[b]] = current[peer[b]]
    BY <1>1 DEF TypeOK, Busy
  <2>3. QED
    BY <1>1, <2>1, <2>2 DEF ClientInv
<1>9. ASSUME NEW e \in Daemons PROVE DaemonInv(e)'
  <2>1. CASE e = d
    BY <1>1, <1>3, <1>5, <2>1 DEF DaemonInv, TypeOK, Starting, Serving, Busy
  <2>2. CASE e # d
    BY <1>1, <2>2 DEF IInv, DaemonInv, TypeOK
  <2>3. QED
    BY <2>1, <2>2
<1>10. ASSUME NEW b \in Clients, NEW e \in Daemons PROVE MeetInv(b, e)'
  <2>1. CASE e = d
    <3>1. MeetInv(b, d)
      BY DEF IInv
    <3>2. /\ current'[d] = c /\ queue'[d] = Tail(queue[d])
          /\ peer'[b] = peer[b] /\ cst'[b] = cst[b] /\ executed'[b] = executed[b]
      BY <1>1 DEF TypeOK
    <3>3. CASE b = c
      BY <1>3, <1>5, <2>1, <3>2, <3>3 DEF MeetInv
    <3>4. CASE b # c
      BY <1>3, <1>4, <2>1, <3>1, <3>2, <3>4 DEF MeetInv
    <3>5. QED
      BY <3>3, <3>4
  <2>2. CASE e # d
    BY <1>1, <2>2 DEF IInv, MeetInv, TypeOK, Alive
  <2>3. QED
    BY <2>1, <2>2
<1>11. QED
  BY <1>7, <1>8, <1>9, <1>10 DEF IInv, Daemons

(* The first in the queue is hung up on: no daemon knows it any more. *)
LEMMA HangsUpIInv ==
    ASSUME IInv, NEW d \in Daemons, Accept(d),
           cst' = [cst EXCEPT ![Head(queue[d])] = "failed"], UNCHANGED current
    PROVE  IInv'
<1> DEFINE c == Head(queue[d])
<1>1. /\ TypeOK
      /\ dst[d] = "serving" /\ current[d] = None /\ queue[d] # <<>>
      /\ cst' = [cst EXCEPT ![c] = "failed"]
      /\ queue' = [queue EXCEPT ![d] = Tail(@)]
      /\ UNCHANGED <<path, peer, attempts, dst, current, list, saved, executed>>
  BY DEF IInv, Accept
<1>2. queue[d] \in Seq(Clients) /\ IsInjective(queue[d])
  BY <1>1 DEF IInv, TypeOK, DaemonInv
<1>3. /\ c \in Clients /\ c \in ToSet(queue[d])
      /\ Tail(queue[d]) \in Seq(Clients)
      /\ IsInjective(Tail(queue[d]))
      /\ ToSet(Tail(queue[d])) \subseteq ToSet(queue[d])
      /\ c \notin ToSet(Tail(queue[d]))
  BY <1>1, <1>2, TailKeepsDistinct
<1> HIDE DEF c
<1>4. Alive(d) /\ c # None /\ d \in Clients
  BY <1>1, <1>3, RendezvousAssumption DEF Alive, Daemons
<1>5. /\ peer[c] = d /\ cst[c] \in Connected /\ executed[c] = 0
  BY <1>3, <1>4 DEF IInv, MeetInv
<1>6. \A e \in Daemons : Alive(e) /\ e # d => current[e] # c /\ c \notin ToSet(queue[e])
  BY <1>3, <1>5 DEF IInv, MeetInv
<1>7. TypeOK'
  BY <1>1, <1>3 DEF TypeOK, ClientStates
<1>8. ASSUME NEW b \in Clients PROVE ClientInv(b)'
  <2>1. ClientInv(b)
    BY DEF IInv
  <2>2. CASE b = c
    BY <1>1, <1>3, <1>5, <2>1, <2>2 DEF ClientInv, TypeOK, Unconnected
  <2>3. CASE b # c
    BY <1>1, <2>1, <2>3 DEF ClientInv, TypeOK
  <2>4. QED
    BY <2>2, <2>3
<1>9. ASSUME NEW e \in Daemons PROVE DaemonInv(e)'
  <2>1. DaemonInv(e)
    BY DEF IInv
  <2>2. CASE e = d
    BY <1>1, <1>3, <2>1, <2>2 DEF DaemonInv, TypeOK, Starting, Busy
  <2>3. CASE e # d
    BY <1>1, <1>6, <2>1, <2>3 DEF DaemonInv, TypeOK, Alive, Busy
  <2>4. QED
    BY <2>2, <2>3
<1>10. ASSUME NEW b \in Clients, NEW e \in Daemons PROVE MeetInv(b, e)'
  <2>1. MeetInv(b, e)
    BY DEF IInv
  <2>2. CASE e = d
    <3>1. current'[d] = None /\ queue'[d] = Tail(queue[d])
      BY <1>1 DEF TypeOK
    <3>2. CASE b = c
      BY <1>3, <1>4, <2>2, <3>1, <3>2 DEF MeetInv
    <3>3. CASE b # c
      BY <1>1, <1>3, <2>1, <2>2, <3>1, <3>3 DEF MeetInv, TypeOK, Alive
    <3>4. QED
      BY <3>2, <3>3
  <2>3. CASE e # d
    BY <1>1, <1>6, <2>1, <2>3 DEF MeetInv, TypeOK, Alive
  <2>4. QED
    BY <2>2, <2>3
<1>11. QED
  BY <1>7, <1>8, <1>9, <1>10 DEF IInv, Daemons

LEMMA AcceptIInv == ASSUME IInv, NEW d \in Daemons, Accept(d) PROVE IInv'
<1>1. CASE current' = [current EXCEPT ![d] = Head(queue[d])] /\ UNCHANGED cst
  BY <1>1, ServesIInv
<1>2. CASE cst' = [cst EXCEPT ![Head(queue[d])] = "failed"] /\ UNCHANGED current
  BY <1>2, HangsUpIInv
<1>3. QED
  BY <1>1, <1>2 DEF Accept, Goes

(* The command line of the client being served is not received, or executed. *)
LEMMA ExecuteIInv == ASSUME IInv, NEW d \in Daemons, Execute(d) PROVE IInv'
<1> DEFINE c == current[d]
<1>1. /\ TypeOK
      /\ dst[d] = "serving" /\ c # None /\ c \in Clients
      /\ cst[c] = "sent"
      /\ UNCHANGED <<path, peer, attempts, queue, saved>>
  BY DEF IInv, Execute, TypeOK
<1>2. /\ executed[c] = 0
      /\ peer[c] = d
      /\ Alive(d) /\ d \in Clients
      /\ c \notin ToSet(queue[d])
  BY <1>1 DEF IInv, DaemonInv, MeetInv, Alive, Daemons
<1>3. \A e \in Daemons : Alive(e) /\ e # d => current[e] # c /\ c \notin ToSet(queue[e])
  BY <1>1, <1>2 DEF IInv, MeetInv
<1>4. CASE c \in Rejected
  <2>1. /\ cst' = [cst EXCEPT ![c] = "failed"]
        /\ current' = [current EXCEPT ![d] = None]
        /\ UNCHANGED <<dst, list, executed>>
    BY <1>4 DEF Execute, Goes
  <2>2. TypeOK'
    BY <1>1, <2>1 DEF TypeOK, ClientStates
  <2>3. ASSUME NEW b \in Clients PROVE ClientInv(b)'
    <3>1. ClientInv(b)
      BY DEF IInv
    <3>2. dst[peer[b]] \in Busy => current'[peer[b]] = current[peer[b]]
      BY <1>1, <2>1 DEF TypeOK, Busy
    <3>3. CASE b = c
      BY <1>1, <1>2, <2>1, <3>1, <3>3 DEF ClientInv, TypeOK, Unconnected
    <3>4. CASE b # c
      BY <1>1, <2>1, <3>1, <3>2, <3>4 DEF ClientInv, TypeOK
    <3>5. QED
      BY <3>3, <3>4
  <2>4. ASSUME NEW e \in Daemons PROVE DaemonInv(e)'
    <3>1. DaemonInv(e)
      BY DEF IInv
    <3>2. CASE e = d
      BY <1>1, <2>1, <3>1, <3>2 DEF DaemonInv, TypeOK, Busy
    <3>3. CASE e # d
      BY <1>1, <1>3, <2>1, <3>1, <3>3 DEF DaemonInv, TypeOK, Alive, Busy
    <3>4. QED
      BY <3>2, <3>3
  <2>5. ASSUME NEW b \in Clients, NEW e \in Daemons PROVE MeetInv(b, e)'
    <3>1. MeetInv(b, e)
      BY DEF IInv
    <3>2. CASE e = d
      BY <1>1, <1>2, <2>1, <3>1, <3>2, RendezvousAssumption DEF MeetInv, TypeOK, Alive
    <3>3. CASE e # d
      BY <1>1, <1>3, <2>1, <3>1, <3>3 DEF MeetInv, TypeOK, Alive
    <3>4. QED
      BY <3>2, <3>3
  <2>6. QED
    BY <2>2, <2>3, <2>4, <2>5 DEF IInv, Daemons
<1>5. CASE c \notin Rejected
  <2> PICK state \in Busy : dst' = [dst EXCEPT ![d] = state]
    BY <1>5 DEF Execute, Becomes, Busy
  <2>1. /\ dst' = [dst EXCEPT ![d] = state]
        /\ list' = [list EXCEPT ![d] = @ \cup {c}]
        /\ executed' = [executed EXCEPT ![c] = @ + 1]
        /\ UNCHANGED <<cst, current>>
    BY <1>5 DEF Execute
  <2>2. executed' = [executed EXCEPT ![c] = 1]
    BY <1>1, <1>2, <2>1 DEF TypeOK
  <2>3. TypeOK'
    BY <1>1, <2>1, <2>2 DEF TypeOK, DaemonStates, Serving, Busy
  <2>4. ASSUME NEW b \in Clients PROVE ClientInv(b)'
    <3>1. ClientInv(b)
      BY DEF IInv
    <3>2. CASE b = c
      BY <1>1, <1>2, <2>1, <2>2, <3>1, <3>2 DEF ClientInv, TypeOK, Unconnected, Daemons, Busy
    <3>3. CASE b # c
      <4>1. executed'[b] = executed[b]
        BY <1>1, <2>2, <3>3 DEF TypeOK
      <4>2. dst[b] = "unborn" => dst'[b] = "unborn"
        BY <1>1, <2>1 DEF TypeOK
      <4>3. dst[peer[b]] \in {"dead"} \cup Busy => dst'[peer[b]] \in {dst[peer[b]]} \cup Busy
        BY <1>1, <2>1 DEF TypeOK
      <4>5. dst[peer[b]] = "dead" => dst'[peer[b]] = "dead"
        BY <1>1, <2>1 DEF TypeOK
      <4>4. QED
        BY <1>1, <2>1, <3>1, <4>1, <4>2, <4>3, <4>5 DEF ClientInv, Busy
    <3>4. QED
      BY <3>2, <3>3
  <2>5. ASSUME NEW e \in Daemons PROVE DaemonInv(e)'
    <3>1. DaemonInv(e)
      BY DEF IInv
    <3>2. CASE e = d
      BY <1>1, <2>1, <2>2, <3>1, <3>2 DEF DaemonInv, TypeOK, Starting, Serving, Busy
    <3>3. CASE e # d
      BY <1>1, <1>3, <2>1, <2>2, <3>1, <3>3 DEF DaemonInv, TypeOK, Alive, Busy
    <3>4. QED
      BY <3>2, <3>3
  <2>6. ASSUME NEW b \in Clients, NEW e \in Daemons PROVE MeetInv(b, e)'
    <3>1. MeetInv(b, e) /\ (Alive(e)' = Alive(e))
      BY <1>1, <1>2, <2>1 DEF IInv, Alive, TypeOK, Busy
    <3>2. CASE b = c
      BY <1>1, <1>2, <1>3, <2>1, <3>1, <3>2 DEF MeetInv
    <3>3. CASE b # c
      BY <1>1, <2>1, <2>2, <3>1, <3>3 DEF MeetInv, TypeOK
    <3>4. QED
      BY <3>2, <3>3
  <2>7. QED
    BY <2>3, <2>4, <2>5, <2>6 DEF IInv, Daemons
<1>6. QED
  BY <1>4, <1>5

(* The blocked handler goes on. *)
LEMMA ResumeIInv == ASSUME IInv, NEW d \in Daemons, Resume(d) PROVE IInv'
<1>1. /\ TypeOK
      /\ dst[d] = "blocked"
      /\ dst' = [dst EXCEPT ![d] = "executed"]
      /\ UNCHANGED <<path, cst, peer, attempts, queue, current, list, saved, executed>>
  BY DEF IInv, Resume, Becomes, clientVars
<1>2. /\ dst'[d] = "executed"
      /\ \A e \in Daemons : e # d => dst'[e] = dst[e]
      /\ \A e \in Daemons : dst'[e] \in Busy <=> dst[e] \in Busy
      /\ \A e \in Daemons : Alive(e)' <=> Alive(e)
  BY <1>1 DEF TypeOK, Busy, Alive
<1>3. TypeOK'
  BY <1>1 DEF TypeOK, DaemonStates, Serving
<1>4. ASSUME NEW b \in Clients PROVE ClientInv(b)'
  <2>1. ClientInv(b) /\ b \in Daemons /\ peer[b] \in Daemons \cup {None}
    BY <1>1 DEF IInv, TypeOK, Daemons
  <2>2. dst[b] = "unborn" => dst'[b] = "unborn"
    BY <1>1, <1>2, <2>1
  <2>3. CASE peer[b] = d
    BY <1>1, <1>2, <2>1, <2>2, <2>3 DEF ClientInv, Busy
  <2>4. CASE peer[b] # d
    <3>1. dst'[peer[b]] = dst[peer[b]]
      BY <1>1, <2>1, <2>4 DEF TypeOK
    <3>2. QED
      BY <1>1, <2>1, <2>2, <3>1 DEF ClientInv
  <2>5. QED
    BY <2>3, <2>4
<1>5. ASSUME NEW e \in Daemons PROVE DaemonInv(e)'
  <2>1. DaemonInv(e)
    BY DEF IInv
  <2>2. CASE e = d
    BY <1>1, <1>2, <2>1, <2>2 DEF DaemonInv, Starting, Serving, Busy
  <2>3. CASE e # d
    BY <1>1, <1>2, <2>1, <2>3 DEF DaemonInv
  <2>4. QED
    BY <2>2, <2>3
<1>6. ASSUME NEW b \in Clients, NEW e \in Daemons PROVE MeetInv(b, e)'
  BY <1>1, <1>2 DEF IInv, MeetInv
<1>7. QED
  BY <1>3, <1>4, <1>5, <1>6 DEF IInv, Daemons

(* The client is answered and known to no daemon any more. *)
LEMMA ReplyIInv == ASSUME IInv, NEW d \in Daemons, Reply(d) PROVE IInv'
<1> DEFINE c == current[d]
           next == IF c \in Quitters THEN "leaving" ELSE "serving"
<1>1. /\ TypeOK
      /\ dst[d] = "executed" /\ dst[d] \in Busy
      /\ cst' = [cst EXCEPT ![c] = "done"]
      /\ current' = [current EXCEPT ![d] = None]
      /\ dst' = [dst EXCEPT ![d] = next]
      /\ UNCHANGED <<path, peer, attempts, queue, list, saved, executed>>
  BY DEF Busy, IInv, Reply, Goes, Becomes
<1>2. /\ c # None /\ c \in Clients
      /\ cst[c] = "sent" /\ executed[c] = 1
  BY <1>1 DEF IInv, DaemonInv, TypeOK
<1>3. /\ peer[c] = d
      /\ Alive(d) /\ d \in Clients
      /\ c \notin ToSet(queue[d])
  BY <1>1, <1>2 DEF IInv, MeetInv, Alive, Daemons
<1>4. \A e \in Daemons : Alive(e) /\ e # d => current[e] # c /\ c \notin ToSet(queue[e])
  BY <1>2, <1>3 DEF IInv, MeetInv
<1>5. next \in {"serving", "leaving"}
  OBVIOUS
<1> HIDE DEF next
<1>6. TypeOK'
  BY <1>1, <1>5 DEF TypeOK, ClientStates, DaemonStates, Serving, Leaving
<1>7. ASSUME NEW b \in Clients PROVE ClientInv(b)'
  <2>1. ClientInv(b)
    BY DEF IInv
  <2>2. CASE b = c
    BY <1>1, <1>2, <2>1, <2>2 DEF ClientInv, TypeOK, Unconnected
  <2>3. CASE b # c
    <3>1. cst'[b] = cst[b]
      BY <1>1, <2>3 DEF TypeOK
    <3>2. dst[b] = "unborn" => dst'[b] = "unborn"
      BY <1>1 DEF TypeOK
    <3>3. dst[peer[b]] = "dead" => dst'[peer[b]] = "dead"
      BY <1>1 DEF TypeOK
    <3>4. dst[peer[b]] \in Busy /\ current[peer[b]] = b =>
             dst'[peer[b]] \in Busy /\ current'[peer[b]] = b
      BY <1>1, <2>3 DEF TypeOK
    <3>5. QED
      BY <1>1, <2>1, <3>1, <3>2, <3>3, <3>4 DEF ClientInv
  <2>4. QED
    BY <2>2, <2>3
<1>8. ASSUME NEW e \in Daemons PROVE DaemonInv(e)'
  <2>1. DaemonInv(e)
    BY DEF IInv
  <2>2. CASE e = d
    BY <1>1, <1>5, <2>1, <2>2 DEF DaemonInv, TypeOK, Starting, Busy
  <2>3. CASE e # d
    BY <1>1, <1>4, <2>1, <2>3 DEF DaemonInv, TypeOK, Alive, Busy
  <2>4. QED
    BY <2>2, <2>3
<1>9. ASSUME NEW b \in Clients, NEW e \in Daemons PROVE MeetInv(b, e)'
  <2>1. MeetInv(b, e) /\ (Alive(e)' = Alive(e))
    BY <1>1, <1>3, <1>5 DEF IInv, Alive, TypeOK
  <2>2. CASE b = c
    BY <1>1, <1>2, <1>3, <1>4, <2>1, <2>2, RendezvousAssumption DEF MeetInv, TypeOK
  <2>3. CASE b # c
    BY <1>1, <2>1, <2>3, RendezvousAssumption DEF MeetInv, TypeOK
  <2>4. QED
    BY <2>2, <2>3
<1>10. QED
  BY <1>6, <1>7, <1>8, <1>9 DEF IInv, Daemons

-----------------------------------------------------------------------------
LEMMA NextIInv == IInv /\ [Next]_vars => IInv'
<1>1. SUFFICES ASSUME IInv, [Next]_vars PROVE IInv'
  OBVIOUS
<1>2. CASE UNCHANGED vars
  BY <1>1, <1>2
  DEF IInv, TypeOK, ClientInv, DaemonInv, MeetInv, Alive, vars, clientVars, daemonVars
<1>3. ASSUME NEW c \in Clients, ClientStep(c) PROVE IInv'
  BY <1>1, <1>3, ConnectIInv, CleanUpIInv, SpawnClimpdIInv, RetryIInv, SendIInv, ResetIInv
  DEF ClientStep
<1>4. ASSUME NEW d \in Daemons, DaemonStep(d) PROVE IInv'
  BY <1>1, <1>4, StartsIInv, AcceptIInv, ExecuteIInv, ReplyIInv, LeavesIInv
  DEF DaemonStep
<1>5. ASSUME NEW d \in Daemons, Mishap(d) \/ Resume(d) PROVE IInv'
  BY <1>1, <1>5, MishapIInv, ResumeIInv
<1>6. QED
  BY <1>1, <1>2, <1>3, <1>4, <1>5 DEF Next

LEMMA Invariance == Spec => []IInv
<1>1. QED
  BY InitIInv, NextIInv, PTL DEF Spec

(* No step of a client or a daemon takes the system out of its types. *)
THEOREM TypeCorrect == Spec => []TypeOK
<1>1. IInv => TypeOK
  BY DEF IInv
<1>2. QED
  BY <1>1, Invariance, PTL

(* However many clients run and whichever daemons are killed: no command   *)
(* is executed twice, and a client that reports success had its command    *)
(* executed.                                                               *)
THEOREM ExecutedOnce == Spec => []DoneIsExecutedOnce
<1>1. IInv => DoneIsExecutedOnce
  BY DEF IInv, ClientInv, DoneIsExecutedOnce
<1>2. QED
  BY <1>1, Invariance, PTL

-----------------------------------------------------------------------------
(***************************************************************************)
(* Command lines given one after another, daemons that are not killed and  *)
(* get the socket and the descriptors they need, and a client that waits   *)
(* until its daemon is up: the setting in which a user expects that        *)
(* nothing is lost.  What remains concurrent is the end of one daemon and  *)
(* the start of the next.                                                  *)
(***************************************************************************)
CommandsInTurn ==
    /\ \A b, c \in Clients : b # c => <<b, c>> \in Before \/ <<c, b>> \in Before
    /\ Patient
    /\ Mishaps \subseteq {"INIT", "TERM"}

(* A daemon that has not given up its place, one whose socket is at the    *)
(* path, and one that knows what was commanded.                            *)
Up      == Starting \cup Serving \cup {"leaving", "saved"}
Holding == {"bound", "leaving", "saved"} \cup Serving
Knowing == {"loaded", "unlinked"} \cup Holding

Successes == {c \in Clients : cst[c] = "done"}

TurnsAreKept ==
    \A b, c \in Clients : <<b, c>> \in Before /\ cst[c] # "idle" => Returned(b)

(* One daemon at a time; one that starts is waited for, and a client that  *)
(* is about to start one has seen that there is none.                      *)
OneDaemon ==
    /\ \A d, e \in Daemons : dst[d] \in Up /\ dst[e] \in Up => d = e
    /\ \A d \in Daemons : dst[d] \in Holding <=> path = d
    /\ \A d \in Daemons : dst[d] \in Starting => cst[d] = "waiting"
    /\ \A c \in Clients, d \in Daemons : cst[c] \in {"refused", "cleaned"} => dst[d] \notin Up

(* The daemon knows all commands that succeeded, and the file knows them   *)
(* when there is none that does, or it is about to end.                    *)
Knowledge ==
    /\ \A d \in Daemons : dst[d] \in Knowing => Successes \subseteq list[d]
    /\ (\A d \in Daemons : dst[d] \notin Knowing \ {"saved"}) => Successes \subseteq saved
    /\ \A d \in Daemons : dst[d] \in Busy => current[d] \in list[d]
    /\ \A c \in Clients : peer[c] # None => dst[peer[c]] \in Serving \cup Leaving \cup {"dead"}

TurnInv == TurnsAreKept /\ OneDaemon /\ Knowledge /\ NothingIsForgotten /\ QuitQuits

NoneIsDeaf == \A d \in Daemons : dst[d] # "deaf"

LEMMA Stages ==
    /\ Holding \subseteq Knowing /\ Up = Knowing \cup {"loading"}
    /\ "loading" \notin Knowing /\ {"unborn", "gone", "dead"} \cap Up = {}
  BY DEF Up, Knowing, Holding, Starting, Serving

(* Only one client is between its start and its return. *)
LEMMA OneAtWork ==
    ASSUME CommandsInTurn, TurnsAreKept, NEW b \in Clients, NEW c \in Clients,
           cst[b] # "idle", cst[c] # "idle", ~ Returned(b), ~ Returned(c)
    PROVE  b = c
  BY DEF CommandsInTurn, TurnsAreKept

(* A step of a client that changes nothing but what the client does, and   *)
(* perhaps the daemon it is connected to.                                  *)
LEMMA ClientMoves ==
    ASSUME IInv, TurnInv,
           NEW c \in Clients, NEW s \in ClientStates \ {"idle", "done"},
           ~ Returned(c), cst' = [cst EXCEPT ![c] = s],
           cst[c] = "idle" => \A b \in Clients : <<b, c>> \in Before => Returned(b),
           cst[c] = "waiting" /\ s # "waiting" => dst[c] \notin Starting,
           s \in {"refused", "cleaned"} => \A d \in Daemons : dst[d] \notin Up,
           \/ peer' = peer
           \/ /\ peer' = [peer EXCEPT ![c] = path]
              /\ path \in Daemons /\ Listening(path) /\ executed[c] = 0,
           \A d \in Daemons : dst[d] \in Busy => current'[d] = current[d],
           UNCHANGED <<path, dst, list, saved, executed>>
    PROVE  TurnInv'
<1>1. TypeOK
  BY DEF IInv
<1>2. /\ \A b \in Clients : b # c => cst'[b] = cst[b]
      /\ cst'[c] = s /\ s \notin {"idle", "done"} /\ cst[c] \notin {"done", "failed"}
  BY <1>1 DEF TypeOK, Returned
<1>3. TurnsAreKept'
  <2>1. ASSUME NEW a \in Clients, NEW b \in Clients, <<a, b>> \in Before, cst'[b] # "idle"
        PROVE  Returned(a)'
    <3>1. Returned(a)
      BY <1>2, <2>1 DEF TurnInv, TurnsAreKept
    <3>2. a # c
      BY <3>1
    <3>3. QED
      BY <1>2, <3>1, <3>2 DEF Returned
  <2>2. QED
    BY <2>1 DEF TurnsAreKept
<1>4. OneDaemon'
  <2>1. OneDaemon
    BY DEF TurnInv
  <2>2. \A d \in Daemons : dst'[d] \in Starting => cst'[d] = "waiting"
    BY <1>2, <2>1 DEF OneDaemon, Daemons
  <2>3. \A b \in Clients, d \in Daemons : cst'[b] \in {"refused", "cleaned"} => dst'[d] \notin Up
    BY <1>2, <2>1 DEF OneDaemon
  <2>4. QED
    BY <2>1, <2>2, <2>3 DEF OneDaemon
<1>5. Successes' = Successes
  BY <1>2 DEF Successes
<1>6. Knowledge'
  <2>1. Knowledge
    BY DEF TurnInv
  <2>2. ASSUME NEW b \in Clients, peer'[b] # None
        PROVE  dst'[peer'[b]] \in Serving \cup Leaving \cup {"dead"}
    <3>1. CASE peer'[b] = peer[b]
      BY <2>1, <2>2, <3>1 DEF Knowledge
    <3>2. CASE peer'[b] # peer[b]
      <4>1. peer'[b] = path /\ Listening(path)
        BY <1>1, <3>2 DEF TypeOK
      <4>2. QED
        BY <4>1 DEF Listening
    <3>3. QED
      BY <3>1, <3>2
  <2>3. QED
    BY <1>5, <2>1, <2>2 DEF Knowledge
<1>7. NothingIsForgotten'
  <2>1. ASSUME NEW a \in Clients, NEW b \in Clients, NEW d \in Daemons,
               <<a, b>> \in Before, cst'[a] = "done", executed'[b] = 1, peer'[b] = d
        PROVE  a \in list'[d]
    <3>1. cst[a] = "done"
      BY <1>2, <2>1
    <3>2. peer[b] = d
      BY <1>1, <2>1 DEF TypeOK
    <3>3. QED
      BY <2>1, <3>1, <3>2 DEF TurnInv, NothingIsForgotten
  <2>2. QED
    BY <2>1 DEF NothingIsForgotten
<1>8. QuitQuits'
  <2>1. ASSUME NEW q \in Quitters, cst'[q] = "done",
               \A b \in Clients \ {q} : cst'[b] = "idle" \/ <<b, q>> \in Before
        PROVE  \A d \in Daemons : dst'[d] \notin Starting \cup Serving
    <3>1. q \in Clients /\ cst[q] = "done"
      BY <1>2, <2>1, RendezvousAssumption
    <3>2. \A b \in Clients \ {q} : cst[b] = "idle" \/ <<b, q>> \in Before
      BY <1>2, <2>1
    <3>3. QED
      BY <2>1, <3>1, <3>2 DEF TurnInv, QuitQuits
  <2>2. QED
    BY <2>1 DEF QuitQuits
<1>9. QED
  BY <1>3, <1>4, <1>6, <1>7, <1>8 DEF TurnInv

(* A step of a daemon that no client sees. *)
LEMMA DaemonMoves ==
    ASSUME IInv, TurnInv,
           NEW d \in Daemons, NEW s \in DaemonStates \ ({"unborn", "mute"} \cup Busy),
           dst[d] # "unborn", dst' = [dst EXCEPT ![d] = s],
           s \in Starting => dst[d] \in Starting,
           s \in Serving => dst[d] \in Starting \cup Serving,
           s \in Up => dst[d] \in Up,
           dst[d] \notin Starting => s \notin Starting,
           s \in Holding <=> path' = d,
           \A e \in Daemons \ {d} : path' = e <=> path = e,
           s \in Knowing => Successes \subseteq list'[d],
           s \notin Knowing \ {"saved"} =>
              \/ Successes \subseteq saved'
              \/ saved' = saved /\ dst[d] \notin Knowing \ {"saved"},
           \A e \in Daemons \ {d} : list'[e] = list[e],
           list'[d] = list[d] \/ dst[d] = "loading",
           UNCHANGED <<cst, peer, current, executed>>
    PROVE  TurnInv'
<1>1. TypeOK
  BY DEF IInv
<1>2. dst'[d] = s /\ \A e \in Daemons : e # d => dst'[e] = dst[e]
  BY <1>1 DEF TypeOK
<1>3. TurnsAreKept'
  BY DEF TurnInv, TurnsAreKept, Returned
<1>4. OneDaemon'
  <2>1. OneDaemon
    BY DEF TurnInv
  <2>2. \A e \in Daemons : dst'[e] \in Up => dst[e] \in Up
    BY <1>2
  <2>3. \A e, f \in Daemons : dst'[e] \in Up /\ dst'[f] \in Up => e = f
    BY <2>1, <2>2 DEF OneDaemon
  <2>4. \A e \in Daemons : dst'[e] \in Holding <=> path' = e
    BY <1>2, <2>1 DEF OneDaemon
  <2>5. \A e \in Daemons : dst'[e] \in Starting => cst'[e] = "waiting"
    BY <1>2, <2>1 DEF OneDaemon
  <2>6. \A c \in Clients, e \in Daemons : cst'[c] \in {"refused", "cleaned"} => dst'[e] \notin Up
    BY <2>1, <2>2 DEF OneDaemon
  <2>7. QED
    BY <2>3, <2>4, <2>5, <2>6 DEF OneDaemon
<1>5. Successes' = Successes
  BY DEF Successes
<1>6. Knowledge'
  <2>1. Knowledge
    BY DEF TurnInv
  <2>2. \A e \in Daemons : dst'[e] \in Knowing => Successes \subseteq list'[e]
    BY <1>2, <2>1 DEF Knowledge
  <2>3. (\A e \in Daemons : dst'[e] \notin Knowing \ {"saved"}) => Successes \subseteq saved'
    BY <1>2, <2>1 DEF Knowledge
  <2>4. \A e \in Daemons : dst'[e] \in Busy => current'[e] \in list'[e]
    BY <1>2, <2>1 DEF Knowledge
  <2>5. ASSUME NEW c \in Clients, peer'[c] # None
        PROVE  dst'[peer'[c]] \in Serving \cup Leaving \cup {"dead"}
    <3>1. dst[peer[c]] \in Serving \cup Leaving \cup {"dead"}
      BY <2>1, <2>5 DEF Knowledge
    <3>2. dst[peer[c]] \notin Starting
      BY <3>1 DEF Serving, Leaving, Starting
    <3>3. CASE peer[c] = d
      BY <1>2, <3>2, <3>3 DEF DaemonStates
    <3>4. CASE peer[c] # d
      BY <1>1, <1>2, <2>5, <3>1, <3>4 DEF TypeOK
    <3>5. QED
      BY <3>3, <3>4
  <2>6. QED
    BY <1>5, <2>2, <2>3, <2>4, <2>5 DEF Knowledge
<1>7. NothingIsForgotten'
  <2>1. ASSUME NEW a \in Clients, NEW b \in Clients, NEW e \in Daemons,
               <<a, b>> \in Before, cst'[a] = "done", executed'[b] = 1, peer'[b] = e
        PROVE  a \in list'[e]
    <3>1. a \in list[e]
      BY <2>1 DEF TurnInv, NothingIsForgotten
    <3>2. dst[e] \in Serving \cup Leaving \cup {"dead"}
      BY <2>1, RendezvousAssumption DEF TurnInv, Knowledge, Daemons
    <3>3. dst[e] # "loading"
      BY <3>2 DEF Serving, Leaving
    <3>4. QED
      BY <3>1, <3>3
  <2>2. QED
    BY <2>1 DEF NothingIsForgotten
<1>8. QuitQuits'
  <2>1. \A e \in Daemons : dst'[e] \in Starting \cup Serving => dst[e] \in Starting \cup Serving
    BY <1>2
  <2>2. QED
    BY <2>1 DEF TurnInv, QuitQuits
<1>9. QED
  BY <1>3, <1>4, <1>6, <1>7, <1>8 DEF TurnInv

-----------------------------------------------------------------------------
(* A client that is refused has seen that there is no daemon: one that     *)
(* starts is waited for by another client, which has not returned, and one *)
(* that serves or leaves would have been at the path.                      *)
LEMMA ConnectTurns ==
    ASSUME CommandsInTurn, IInv, TurnInv, NEW c \in Clients, Connect(c)
    PROVE  TurnInv'
<1>1. /\ TypeOK /\ OneDaemon /\ TurnsAreKept
      /\ cst[c] = "idle" /\ ~ Returned(c)
      /\ \A b \in Clients : <<b, c>> \in Before => Returned(b)
      /\ executed[c] = 0
  BY DEF IInv, TurnInv, Connect, ClientInv, Unconnected, Returned
<1>2. CASE Connects(c)
  <2>1. path \in Daemons /\ Listening(path)
    BY <1>1, <1>2 DEF Connects, IsRefused, TypeOK
  <2>2. "connected" \in ClientStates \ {"idle", "done"}
    BY DEF ClientStates
  <2>3. QED
    BY <1>1, <1>2, <2>1, <2>2, ClientMoves DEF Connects, Goes
<1>3. CASE IsRefused /\ Goes(c, "refused") /\
           UNCHANGED <<path, peer, attempts, daemonVars, saved, executed>>
  <2>1. ASSUME NEW d \in Daemons PROVE dst[d] \notin Up
    <3>1. dst[d] \notin Starting
      <4>1. SUFFICES ASSUME dst[d] \in Starting PROVE FALSE
        OBVIOUS
      <4>2. cst[d] = "waiting" /\ d \in Clients
        BY <1>1, <4>1 DEF OneDaemon, Daemons
      <4>3. <<d, c>> \in Before \/ <<c, d>> \in Before
        BY <1>1, <4>2 DEF CommandsInTurn
      <4>4. QED
        BY <1>1, <4>2, <4>3 DEF TurnsAreKept, Returned
    <3>2. dst[d] \notin Holding
      <4>1. SUFFICES ASSUME dst[d] \in Holding PROVE FALSE
        OBVIOUS
      <4>2. path = d
        BY <1>1, <4>1 DEF OneDaemon
      <4>3. Listening(d) \/ dst[d] \in Starting
        BY <4>1 DEF Listening, Holding, Leaving, Starting
      <4>4. QED
        BY <1>3, <3>1, <4>2, <4>3 DEF IsRefused
    <3>3. QED
      BY <3>1, <3>2 DEF Up, Holding
  <2>2. "refused" \in ClientStates \ {"idle", "done"}
    BY DEF ClientStates
  <2>3. QED
    BY <1>1, <1>3, <2>1, <2>2, ClientMoves DEF Goes, daemonVars
<1>4. QED
  BY <1>2, <1>3 DEF Connect

(* It removes nothing. *)
LEMMA CleanUpTurns ==
    ASSUME IInv, TurnInv, NEW c \in Clients, CleanUp(c)
    PROVE  TurnInv'
<1>1. /\ TypeOK /\ OneDaemon
      /\ cst[c] = "refused" /\ ~ Returned(c)
  BY DEF IInv, TurnInv, CleanUp, Returned
<1>2. \A d \in Daemons : dst[d] \notin Up
  BY <1>1 DEF OneDaemon
<1>3. path = None
  <2>1. \A d \in Daemons : dst[d] \notin Holding
    BY <1>2, Stages
  <2>2. QED
    BY <1>1, <2>1 DEF OneDaemon, TypeOK
<1>4. "cleaned" \in ClientStates \ {"idle", "done"}
  BY DEF ClientStates
<1>5. QED
  BY <1>1, <1>2, <1>3, <1>4, ClientMoves DEF CleanUp, Goes, daemonVars

LEMMA RetryTurns ==
    ASSUME CommandsInTurn, IInv, TurnInv, NEW c \in Clients, Retry(c)
    PROVE  TurnInv'
<1>1. /\ TypeOK /\ OneDaemon
      /\ cst[c] = "waiting" /\ ~ Returned(c)
      /\ executed[c] = 0 /\ c \in Daemons
  BY DEF IInv, TurnInv, Retry, ClientInv, Unconnected, Returned, Daemons
<1>2. CASE Connects(c)
  <2>1. path \in Daemons /\ Listening(path)
    BY <1>1, <1>2 DEF Connects, IsRefused, TypeOK
  <2>2. dst[c] \notin Starting
    <3>1. SUFFICES ASSUME dst[c] \in Starting PROVE FALSE
      OBVIOUS
    <3>2. dst[path] \in Holding
      BY <1>1, <2>1 DEF OneDaemon
    <3>3. path = c
      BY <1>1, <2>1, <3>1, <3>2 DEF OneDaemon, Up, Holding, Starting
    <3>4. QED
      BY <2>1, <3>1, <3>3 DEF Listening, Starting, Serving, Leaving
  <2>3. "connected" \in ClientStates \ {"idle", "done"}
    BY DEF ClientStates
  <2>4. QED
    BY <1>1, <1>2, <2>1, <2>2, <2>3, ClientMoves DEF Connects, Goes
<1>3. CASE IsRefused /\ (Patient => dst[c] \notin Starting) /\
           Goes(c, IF attempts[c] = 1 THEN "failed" ELSE "waiting") /\
           UNCHANGED <<path, peer, daemonVars, saved, executed>>
  <2>1. dst[c] \notin Starting
    BY <1>3 DEF CommandsInTurn
  <2>2. PICK s \in {"failed", "waiting"} : cst' = [cst EXCEPT ![c] = s]
    BY <1>3 DEF Goes
  <2>3. s \in ClientStates \ {"idle", "done"} /\ s \notin {"refused", "cleaned"}
    BY DEF ClientStates
  <2>4. QED
    BY <1>1, <1>3, <2>1, <2>2, <2>3, ClientMoves DEF daemonVars
<1>4. QED
  BY <1>2, <1>3 DEF Retry

LEMMA SendTurns ==
    ASSUME IInv, TurnInv, NEW c \in Clients, Send(c) \/ Reset(c)
    PROVE  TurnInv'
<1>1. PICK s \in {"sent", "failed"} : cst' = [cst EXCEPT ![c] = s]
  BY DEF Send, Reset, Goes
<1>2. /\ s \in ClientStates \ {"idle", "done"} /\ s \notin {"refused", "cleaned"}
      /\ cst[c] \in {"connected", "sent"} /\ ~ Returned(c)
      /\ UNCHANGED <<path, peer, daemonVars, saved, executed>>
  BY DEF Send, Reset, ClientStates, Returned
<1>3. QED
  BY <1>1, <1>2, ClientMoves DEF daemonVars

(* The new daemon is the only one. *)
LEMMA ForkTurns ==
    ASSUME CommandsInTurn, IInv, TurnInv, NEW c \in Clients, cst[c] = "cleaned",
           cst' = [cst EXCEPT ![c] = "waiting"],
           dst' = [dst EXCEPT ![c] = "loading"],
           UNCHANGED <<path, peer, attempts, queue, current, list, saved, executed>>
    PROVE  TurnInv'
<1>1. /\ TypeOK /\ OneDaemon /\ Knowledge
      /\ cst[c] = "cleaned" /\ c \in Daemons
      /\ cst' = [cst EXCEPT ![c] = "waiting"]
      /\ dst' = [dst EXCEPT ![c] = "loading"]
      /\ UNCHANGED <<path, peer, attempts, queue, current, list, saved, executed>>
  BY DEF IInv, TurnInv, Daemons
<1>2. /\ \A b \in Clients : b # c => cst'[b] = cst[b]
      /\ cst'[c] = "waiting"
      /\ \A d \in Daemons : d # c => dst'[d] = dst[d]
      /\ dst'[c] = "loading"
  BY <1>1 DEF TypeOK
<1>3. \A d \in Daemons : dst[d] \notin Up
  BY <1>1 DEF OneDaemon
<1>4. dst[c] = "unborn"
  BY <1>1 DEF IInv, ClientInv, Unconnected
<1>5. TurnsAreKept'
  <2>1. ASSUME NEW a \in Clients, NEW b \in Clients, <<a, b>> \in Before, cst'[b] # "idle"
        PROVE  Returned(a)'
    <3>1. Returned(a)
      BY <1>1, <1>2, <2>1 DEF TurnInv, TurnsAreKept
    <3>2. QED
      BY <1>1, <1>2, <3>1 DEF Returned
  <2>2. QED
    BY <2>1 DEF TurnsAreKept
<1>6. OneDaemon'
  <2>1. \A d \in Daemons : dst'[d] \in Up => d = c
    BY <1>2, <1>3
  <2>2. \A d \in Daemons : dst'[d] \in Holding <=> path' = d
    BY <1>1, <1>2, <1>3, Stages DEF OneDaemon
  <2>3. \A d \in Daemons : dst'[d] \in Starting => cst'[d] = "waiting"
    BY <1>2, <1>3 DEF Up
  <2>4. ASSUME NEW b \in Clients, cst'[b] \in {"refused", "cleaned"}, NEW d \in Daemons
        PROVE  dst'[d] \notin Up
    <3>1. b # c /\ cst[b] \in {"refused", "cleaned"}
      BY <1>2, <2>4
    <3>2. QED
      BY <1>1, <3>1, OneAtWork DEF TurnInv, Returned
  <2>5. QED
    BY <2>1, <2>2, <2>3, <2>4 DEF OneDaemon
<1>7. Successes' = Successes
  BY <1>1, <1>2 DEF Successes
<1>8. Knowledge'
  <2>1. dst'[c] \notin Knowing \cup Busy
    BY <1>2 DEF Knowing, Holding, Serving, Busy
  <2>2. \A d \in Daemons : dst[d] \notin Knowing \ {"saved"}
    BY <1>3 DEF Knowing, Holding, Up, Starting
  <2>3. ASSUME NEW b \in Clients, peer'[b] # None
        PROVE  dst'[peer'[b]] \in Serving \cup Leaving \cup {"dead"}
    <3>1. dst[peer[b]] \in Serving \cup Leaving \cup {"dead"}
      BY <1>1, <2>3 DEF Knowledge
    <3>2. peer[b] # c
      BY <1>4, <3>1 DEF Serving, Leaving
    <3>3. peer[b] \in Daemons
      BY <1>1, <2>3 DEF TypeOK
    <3>4. QED
      BY <1>1, <1>2, <3>1, <3>2, <3>3
  <2>4. QED
    BY <1>1, <1>2, <1>7, <2>1, <2>2, <2>3 DEF Knowledge
<1>9. NothingIsForgotten'
  BY <1>1, <1>2 DEF TurnInv, NothingIsForgotten
<1>10. QuitQuits'
  <2>1. ASSUME NEW q \in Quitters, cst'[q] = "done",
               \A b \in Clients \ {q} : cst'[b] = "idle" \/ <<b, q>> \in Before
        PROVE  FALSE
    <3>1. q \in Clients /\ q # c /\ cst[q] = "done"
      BY <1>2, <2>1, RendezvousAssumption
    <3>2. <<c, q>> \in Before
      BY <1>2, <2>1, <3>1
    <3>3. QED
      BY <1>1, <3>1, <3>2 DEF TurnInv, TurnsAreKept, Returned
  <2>2. QED
    BY <2>1 DEF QuitQuits
<1>11. QED
  BY <1>5, <1>6, <1>8, <1>9, <1>10 DEF TurnInv

LEMMA SpawnClimpdTurns ==
    ASSUME CommandsInTurn, IInv, TurnInv, NEW c \in Clients, SpawnClimpd(c)
    PROVE  TurnInv'
<1>1. /\ cst[c] = "cleaned" /\ ~ Returned(c)
      /\ UNCHANGED <<path, peer, attempts, queue, current, list, saved, executed>>
  BY DEF SpawnClimpd, Returned
<1>2. CASE Goes(c, "waiting") /\ dst' = [dst EXCEPT ![c] = "loading"]
  BY <1>1, <1>2, ForkTurns DEF Goes
<1>3. CASE Goes(c, "failed") /\ UNCHANGED dst
  <2>1. "failed" \in ClientStates \ {"idle", "done"}
    BY DEF ClientStates
  <2>2. QED
    BY <1>1, <1>3, <2>1, ClientMoves DEF Goes
<1>4. QED
  BY <1>2, <1>3 DEF SpawnClimpd

(* A daemon on its way to its main loop.  It finds nothing at the path,    *)
(* and its list is the file, which knows everything.                       *)
LEMMA LoadTurns ==
    ASSUME IInv, TurnInv, NEW d \in Daemons, Load(d)
    PROVE  TurnInv'
<1>1. /\ TypeOK /\ OneDaemon /\ Knowledge
      /\ dst[d] = "loading"
      /\ dst' = [dst EXCEPT ![d] = "loaded"]
      /\ list' = [list EXCEPT ![d] = saved]
      /\ UNCHANGED <<path, cst, peer, attempts, queue, current, saved, executed>>
  BY DEF IInv, TurnInv, Load, Becomes, clientVars
<1>2. \A e \in Daemons : dst[e] \notin Knowing
  BY <1>1, Stages DEF OneDaemon
<1>3. Successes \subseteq saved
  BY <1>1, <1>2 DEF Knowledge
<1>4. list'[d] = saved /\ \A e \in Daemons : e # d => list'[e] = list[e]
  BY <1>1 DEF TypeOK
<1>5. path # d
  BY <1>1, <1>2, Stages DEF OneDaemon
<1>6. /\ "loaded" \in DaemonStates \ ({"unborn", "mute"} \cup Busy)
      /\ "loaded" \in Starting /\ "loaded" \in Up /\ "loaded" \notin Serving \cup Holding
      /\ dst[d] \in Starting \cap Up /\ dst[d] # "unborn"
  BY <1>1 DEF Busy, DaemonStates, Starting, Serving, Up, Holding
<1>7. QED
  BY <1>1, <1>3, <1>4, <1>5, <1>6, DaemonMoves

LEMMA StartsTurns ==
    ASSUME CommandsInTurn, IInv, TurnInv, NEW d \in Daemons, UnlinkOld(d) \/ Bind(d) \/ Listen(d)
    PROVE  TurnInv'
<1>1. /\ TypeOK /\ OneDaemon /\ Knowledge
      /\ dst[d] \in {"loaded", "unlinked", "bound"}
      /\ UNCHANGED <<cst, peer, attempts, queue, current, list, saved, executed>>
  BY DEF IInv, TurnInv, UnlinkOld, Bind, Listen, clientVars
<1>2. /\ dst[d] \in Starting /\ dst[d] \in Up /\ dst[d] \in Knowing
      /\ dst[d] # "unborn" /\ dst[d] # "saved"
  BY <1>1 DEF Starting, Up, Knowing, Holding
<1>3. Successes \subseteq list[d]
  BY <1>1, <1>2 DEF Knowledge
<1>4. \A e \in Daemons : e # d => dst[e] \notin Up /\ path # e
  BY <1>1, <1>2, Stages DEF OneDaemon
<1>5. path = d \/ path = None
  BY <1>1, <1>4 DEF TypeOK
<1>6. path = d <=> dst[d] = "bound"
  BY <1>1 DEF OneDaemon, Holding, Serving
<1>7. d # None
  BY RendezvousAssumption DEF Daemons
<1>8. PICK s \in {"unlinked", "bound", "serving"} :
          dst' = [dst EXCEPT ![d] = s] /\ path' = IF s = "unlinked" THEN None ELSE d
  <2>1. CASE UnlinkOld(d)
    BY <2>1 DEF UnlinkOld, Becomes, CommandsInTurn
  <2>2. CASE Bind(d)
    BY <1>5, <1>6, <2>2 DEF Bind, Becomes
  <2>3. CASE Listen(d)
    BY <1>5, <1>6, <1>7, <2>3 DEF Listen, Becomes
  <2>4. QED
    BY <2>1, <2>2, <2>3
<1>9. /\ s \in DaemonStates \ ({"unborn", "mute"} \cup Busy) /\ s \in Up
      /\ s \in Knowing \ {"saved"}
      /\ s \in Holding <=> s # "unlinked"
  BY DEF DaemonStates, Starting, Serving, Up, Knowing, Holding, Busy
<1>10. s \in Holding <=> path' = d
  BY <1>7, <1>8, <1>9
<1>11. \A e \in Daemons \ {d} : path' = e <=> path = e
  BY <1>4, <1>7, <1>8, RendezvousAssumption DEF Daemons
<1>12. QED
  BY <1>1, <1>2, <1>3, <1>8, <1>9, <1>10, <1>11, DaemonMoves

(* A daemon that ends, or has ended, its main loop. *)
LEMMA LeavesTurns ==
    ASSUME IInv, TurnInv, NEW d \in Daemons, Save(d) \/ UnlinkOwn(d) \/ Exit(d)
    PROVE  TurnInv'
<1>1. /\ TypeOK /\ OneDaemon /\ Knowledge
      /\ dst[d] \in {"leaving", "saved", "gone"} /\ dst[d] \in Leaving
      /\ UNCHANGED <<cst, peer, attempts, queue, current, list, executed>>
  BY DEF IInv, TurnInv, Save, UnlinkOwn, Exit, clientVars, Leaving
<1>2. dst[d] \notin Starting \cup Serving /\ dst[d] # "unborn"
  BY <1>1 DEF Starting, Serving
<1>3. d # None
  BY RendezvousAssumption DEF Daemons
<1>4. CASE Save(d)
  <2>1. /\ dst[d] \in Holding /\ dst[d] \in Up /\ dst[d] \in Knowing
        /\ dst' = [dst EXCEPT ![d] = "saved"]
        /\ saved' = list[d] /\ path' = path
    BY <1>4 DEF Save, Becomes, Up, Knowing, Holding
  <2>2. Successes \subseteq list[d] /\ path = d
    BY <1>1, <2>1 DEF Knowledge, OneDaemon
  <2>3. /\ "saved" \in DaemonStates \ ({"unborn", "mute"} \cup Busy)
        /\ "saved" \notin Starting \cup Serving
        /\ "saved" \in Holding
    BY DEF DaemonStates, Leaving, Starting, Serving, Holding, Busy
  <2>4. QED
    BY <1>1, <1>2, <2>1, <2>2, <2>3, DaemonMoves
<1>5. CASE UnlinkOwn(d)
  <2>1. /\ dst[d] = "saved" /\ dst[d] \in Up /\ dst[d] \in Holding
        /\ dst' = [dst EXCEPT ![d] = "gone"]
        /\ saved' = saved /\ path' = None
    BY <1>5 DEF UnlinkOwn, Becomes, Up, Holding
  <2>2. path = d
    BY <1>1, <2>1 DEF OneDaemon
  <2>3. \A e \in Daemons : dst[e] \notin Knowing \ {"saved"}
    BY <1>1, <2>1, Stages DEF OneDaemon
  <2>4. Successes \subseteq saved
    BY <1>1, <2>3 DEF Knowledge
  <2>5. /\ "gone" \in DaemonStates \ ({"unborn", "mute"} \cup Busy)
        /\ "gone" \notin Starting \cup Serving
        /\ "gone" \notin Holding \cup Knowing \cup Up
    BY DEF DaemonStates, Leaving, Starting, Serving, Holding, Knowing, Up, Busy
  <2>6. \A e \in Daemons \ {d} : path' = e <=> path = e
    BY <2>1, <2>2, RendezvousAssumption DEF Daemons
  <2>7. QED
    BY <1>1, <1>2, <1>3, <2>1, <2>4, <2>5, <2>6, DaemonMoves
<1>6. CASE Exit(d)
  <2>1. /\ dst[d] = "gone" /\ dst[d] \notin Holding \cup Knowing \cup Up
        /\ dst' = [dst EXCEPT ![d] = "dead"]
        /\ saved' = saved /\ path' = path
    BY <1>6 DEF Exit, Becomes, Up, Knowing, Holding, Starting, Serving
  <2>2. path # d
    BY <1>1, <2>1 DEF OneDaemon
  <2>3. /\ "dead" \in DaemonStates \ ({"unborn", "mute"} \cup Busy)
        /\ "dead" \notin Starting \cup Serving
        /\ "dead" \notin Holding \cup Knowing \cup Up
    BY DEF DaemonStates, Starting, Serving, Holding, Knowing, Up, Busy
  <2>4. QED
    BY <1>1, <1>2, <2>1, <2>2, <2>3, DaemonMoves
<1>7. QED
  BY <1>4, <1>5, <1>6

(* No daemon is killed; one that cannot start had nothing. *)
LEMMA MishapTurns ==
    ASSUME CommandsInTurn, IInv, TurnInv, NoneIsDeaf, NEW d \in Daemons, Mishap(d)
    PROVE  TurnInv'
<1>1. /\ TypeOK /\ OneDaemon /\ Knowledge
      /\ UNCHANGED <<path, cst, peer, attempts, queue, current, list, saved, executed>>
  BY DEF IInv, TurnInv, Mishap, clientVars
<1>2. CASE dst[d] = "loading" /\ dst' = [dst EXCEPT ![d] = "dead"]
  <2>1. /\ dst[d] # "unborn" /\ dst[d] \notin Knowing \cup Holding
        /\ "dead" \in DaemonStates \ ({"unborn", "mute"} \cup Busy)
        /\ "dead" \notin Starting \cup Serving
        /\ "dead" \notin Holding \cup Knowing \cup Up
    BY <1>2 DEF DaemonStates, Starting, Serving, Holding, Knowing, Up, Busy
  <2>2. path # d
    BY <1>1, <2>1 DEF OneDaemon
  <2>3. QED
    BY <1>1, <1>2, <2>1, <2>2, DaemonMoves
<1>3. CASE dst[d] = "serving" /\ dst' = [dst EXCEPT ![d] = "leaving"]
  <2>1. /\ dst[d] \notin Starting \cup {"unborn"}
        /\ dst[d] \in Holding /\ dst[d] \in Knowing /\ dst[d] \in Up
        /\ "leaving" \in DaemonStates \ ({"unborn", "mute"} \cup Busy)
        /\ "leaving" \notin Starting \cup Serving
        /\ "leaving" \in Holding /\ "leaving" \in Knowing \ {"saved"}
    BY <1>3 DEF DaemonStates, Starting, Serving, Leaving, Holding, Knowing, Up, Busy
  <2>2. path = d /\ Successes \subseteq list[d]
    BY <1>1, <2>1 DEF OneDaemon, Knowledge
  <2>3. QED
    BY <1>1, <1>3, <2>1, <2>2, DaemonMoves
<1>4. QED
  BY <1>2, <1>3 DEF Mishap, Becomes, CommandsInTurn, NoneIsDeaf

LEMMA AcceptTurns ==
    ASSUME IInv, TurnInv, NEW d \in Daemons, Accept(d)
    PROVE  TurnInv'
<1> DEFINE c == Head(queue[d])
<1>1. /\ TypeOK
      /\ dst[d] = "serving" /\ queue[d] # <<>>
      /\ UNCHANGED <<path, peer, dst, list, saved, executed>>
  BY DEF IInv, Accept
<1>2. CASE current' = [current EXCEPT ![d] = c] /\ UNCHANGED cst
  <2>1. \A e \in Daemons : e # d => current'[e] = current[e]
    BY <1>1, <1>2 DEF TypeOK
  <2>2. TurnsAreKept' /\ OneDaemon'
    BY <1>1, <1>2 DEF TurnInv, TurnsAreKept, OneDaemon, Returned
  <2>3. Knowledge'
    BY <1>1, <1>2, <2>1 DEF TurnInv, Knowledge, Successes, Busy
  <2>4. NothingIsForgotten' /\ QuitQuits'
    BY <1>1, <1>2 DEF TurnInv, NothingIsForgotten, QuitQuits
  <2>5. QED
    BY <2>2, <2>3, <2>4 DEF TurnInv
<1>3. CASE cst' = [cst EXCEPT ![c] = "failed"] /\ UNCHANGED current
  <2>1. queue[d] \in Seq(Clients) /\ IsInjective(queue[d])
    BY <1>1 DEF IInv, TypeOK, DaemonInv
  <2>2. c \in Clients /\ c \in ToSet(queue[d])
    BY <1>1, <2>1, TailKeepsDistinct
  <2> HIDE DEF c
  <2>3. cst[c] \in Connected
    BY <1>1, <2>2 DEF IInv, MeetInv, Alive
  <2>4. ~ Returned(c) /\ cst[c] \notin {"idle", "waiting"}
    BY <2>3 DEF Connected, Returned
  <2>5. "failed" \in ClientStates \ {"idle", "done"}
    BY DEF ClientStates
  <2>6. QED
    BY <1>1, <1>3, <2>2, <2>4, <2>5, ClientMoves
<1>4. QED
  BY <1>2, <1>3 DEF Accept, Goes

(* The command that is executed comes after all that succeeded before it,  *)
(* and the daemon knows these.                                             *)
LEMMA ExecuteTurns ==
    ASSUME IInv, TurnInv, NEW d \in Daemons, Execute(d)
    PROVE  TurnInv'
<1> DEFINE c == current[d]
<1>1. /\ TypeOK /\ OneDaemon /\ Knowledge
      /\ dst[d] = "serving" /\ c # None /\ c \in Clients
      /\ cst[c] = "sent" /\ ~ Returned(c)
      /\ UNCHANGED <<path, peer, attempts, queue, saved>>
  BY DEF IInv, TurnInv, Execute, TypeOK, Returned
<1>2. peer[c] = d
  BY <1>1 DEF IInv, MeetInv, Alive
<1> HIDE DEF c
<1>3. CASE c \in Rejected
  <2>1. /\ cst' = [cst EXCEPT ![c] = "failed"]
        /\ current' = [current EXCEPT ![d] = None]
        /\ UNCHANGED <<dst, list, executed>>
    BY <1>3 DEF Execute, Goes, c
  <2>2. "failed" \in ClientStates \ {"idle", "done"}
    BY DEF ClientStates
  <2>3. \A e \in Daemons : dst[e] \in Busy => current'[e] = current[e]
    BY <1>1, <2>1 DEF TypeOK, Busy
  <2>4. QED
    BY <1>1, <2>1, <2>2, <2>3, ClientMoves
<1>4. CASE c \notin Rejected
  <2> PICK state \in Busy : dst' = [dst EXCEPT ![d] = state]
    BY <1>4 DEF Execute, Becomes, Busy, c
  <2>1. /\ dst' = [dst EXCEPT ![d] = state]
        /\ list' = [list EXCEPT ![d] = @ \cup {c}]
        /\ executed' = [executed EXCEPT ![c] = @ + 1]
        /\ UNCHANGED <<cst, current>>
    BY <1>4 DEF Execute, c
  <2>2. /\ dst'[d] = state /\ \A e \in Daemons : e # d => dst'[e] = dst[e]
        /\ list'[d] = list[d] \cup {c} /\ \A e \in Daemons : e # d => list'[e] = list[e]
        /\ \A b \in Clients : b # c => executed'[b] = executed[b]
    BY <1>1, <2>1 DEF TypeOK
  <2>3. /\ dst[d] \in Up /\ dst[d] \in Holding /\ dst[d] \in Knowing \ {"saved"}
        /\ dst'[d] \in Up /\ dst'[d] \in Holding /\ dst'[d] \in Knowing \ {"saved"}
        /\ dst'[d] \notin Starting /\ dst'[d] \in Serving
    BY <1>1, <2>2 DEF Up, Holding, Knowing, Serving, Starting, Busy
  <2>4. Successes' = Successes
    BY <2>1 DEF Successes
  <2>5. TurnsAreKept'
    BY <2>1 DEF TurnInv, TurnsAreKept, Returned
  <2>6. OneDaemon'
    <3>1. \A e \in Daemons : /\ dst'[e] \in Up => dst[e] \in Up
                             /\ dst'[e] \in Holding <=> dst[e] \in Holding
                             /\ dst'[e] \in Starting => dst[e] \in Starting
      BY <2>2, <2>3
    <3>2. QED
      BY <1>1, <2>1, <3>1 DEF OneDaemon
  <2>7. Knowledge'
    <3>1. \A e \in Daemons : dst'[e] \in Knowing => Successes \subseteq list'[e]
      BY <1>1, <2>2, <2>3 DEF Knowledge
    <3>2. ~ \A e \in Daemons : dst'[e] \notin Knowing \ {"saved"}
      BY <2>3
    <3>3. \A e \in Daemons : dst'[e] \in Busy => current'[e] \in list'[e]
      BY <1>1, <2>1, <2>2 DEF Knowledge, c
    <3>4. \A b \in Clients : peer'[b] # None =>
                               dst'[peer'[b]] \in Serving \cup Leaving \cup {"dead"}
      BY <1>1, <2>2, <2>3 DEF Knowledge, TypeOK
    <3>5. QED
      BY <2>4, <3>1, <3>2, <3>3, <3>4 DEF Knowledge
  <2>8. NothingIsForgotten'
    <3>1. ASSUME NEW a \in Clients, NEW b \in Clients, NEW e \in Daemons,
                 <<a, b>> \in Before, cst'[a] = "done", executed'[b] = 1, peer'[b] = e
          PROVE  a \in list'[e]
      <4>1. CASE b = c
        <5>1. e = d /\ a \in Successes
          BY <1>1, <1>2, <2>1, <3>1, <4>1 DEF Successes
        <5>2. QED
          BY <1>1, <2>2, <2>3, <5>1 DEF Knowledge
      <4>2. CASE b # c
        <5>1. a \in list[e]
          BY <1>1, <2>1, <2>2, <3>1, <4>2 DEF TurnInv, NothingIsForgotten
        <5>2. QED
          BY <2>2, <5>1
      <4>3. QED
        BY <4>1, <4>2
    <3>2. QED
      BY <3>1 DEF NothingIsForgotten
  <2>9. QuitQuits'
    <3>1. \A e \in Daemons : dst'[e] \in Starting \cup Serving => dst[e] \in Starting \cup Serving
      BY <1>1, <2>2 DEF Serving, Busy
    <3>2. QED
      BY <2>1, <3>1 DEF TurnInv, QuitQuits
  <2>10. QED
    BY <2>5, <2>6, <2>7, <2>8, <2>9 DEF TurnInv
<1>5. QED
  BY <1>3, <1>4

(* A handler that goes on makes no difference to anybody else. *)
LEMMA ResumeTurns ==
    ASSUME IInv, TurnInv, NEW d \in Daemons, Resume(d)
    PROVE  TurnInv'
<1>1. /\ TypeOK
      /\ dst[d] = "blocked" /\ dst' = [dst EXCEPT ![d] = "executed"]
      /\ UNCHANGED <<path, cst, peer, current, list, saved, executed>>
  BY DEF IInv, Resume, Becomes, clientVars
<1>2. /\ dst'[d] = "executed" /\ \A e \in Daemons : e # d => dst'[e] = dst[e]
      /\ \A e \in Daemons : /\ dst'[e] \in Busy <=> dst[e] \in Busy
                            /\ dst'[e] \in Up <=> dst[e] \in Up
                            /\ dst'[e] \in Holding <=> dst[e] \in Holding
                            /\ dst'[e] \in Knowing <=> dst[e] \in Knowing
                            /\ dst'[e] = "saved" <=> dst[e] = "saved"
                            /\ dst'[e] \in Starting <=> dst[e] \in Starting
                            /\ dst'[e] \in Serving <=> dst[e] \in Serving
                            /\ dst'[e] \in Leaving \cup {"dead"} <=> dst[e] \in Leaving \cup {"dead"}
  BY <1>1 DEF TypeOK, Busy, Up, Holding, Knowing, Starting, Serving, Leaving
<1>3. TurnsAreKept' /\ OneDaemon'
  BY <1>1, <1>2 DEF TurnInv, TurnsAreKept, OneDaemon, Returned
<1>4. Knowledge'
  <2>1. Knowledge
    BY DEF TurnInv
  <2>2. Successes' = Successes
    BY <1>1 DEF Successes
  <2>3. \A b \in Clients : peer'[b] # None =>
                             dst'[peer'[b]] \in Serving \cup Leaving \cup {"dead"}
    BY <1>1, <1>2, <2>1 DEF Knowledge, TypeOK
  <2>4. QED
    BY <1>1, <1>2, <2>1, <2>2, <2>3 DEF Knowledge
<1>5. NothingIsForgotten' /\ QuitQuits'
  BY <1>1, <1>2 DEF TurnInv, NothingIsForgotten, QuitQuits
<1>6. QED
  BY <1>3, <1>4, <1>5 DEF TurnInv

(* A command becomes a success when its daemon knows it; after --quit that *)
(* daemon leaves, and there is no other.                                   *)
LEMMA ReplyTurns ==
    ASSUME IInv, TurnInv, NEW d \in Daemons, Reply(d)
    PROVE  TurnInv'
<1> DEFINE c == current[d]
           next == IF c \in Quitters THEN "leaving" ELSE "serving"
<1>1. /\ TypeOK /\ OneDaemon /\ Knowledge
      /\ dst[d] = "executed" /\ dst[d] \in Busy
      /\ cst' = [cst EXCEPT ![c] = "done"]
      /\ current' = [current EXCEPT ![d] = None]
      /\ dst' = [dst EXCEPT ![d] = next]
      /\ UNCHANGED <<path, peer, attempts, queue, list, saved, executed>>
  BY DEF IInv, TurnInv, Reply, Goes, Becomes, Busy
<1>2. c \in Clients /\ cst[c] = "sent" /\ c \in list[d]
  BY <1>1 DEF IInv, DaemonInv, TypeOK, Knowledge
<1>3. next \in {"leaving", "serving"} /\ (c \in Quitters => next = "leaving")
  OBVIOUS
<1> HIDE DEF c, next
<1>4. /\ \A b \in Clients : b # c => cst'[b] = cst[b]
      /\ cst'[c] = "done"
      /\ \A e \in Daemons : e # d => dst'[e] = dst[e]
      /\ dst'[d] = next
      /\ \A e \in Daemons : e # d => current'[e] = current[e]
  BY <1>1, <1>2 DEF TypeOK
<1>5. /\ dst[d] \in Up /\ dst[d] \in Holding /\ dst[d] \in Knowing
      /\ next \in Up /\ next \in Holding /\ next \in Knowing \ {"saved"}
      /\ next \notin Starting /\ next \in Serving \cup Leaving /\ next \notin Busy
  BY <1>1, <1>3 DEF Up, Holding, Knowing, Serving, Starting, Leaving, Busy
<1>6. Successes' = Successes \cup {c}
  BY <1>2, <1>4 DEF Successes
<1>7. TurnsAreKept'
  <2>1. ASSUME NEW a \in Clients, NEW b \in Clients, <<a, b>> \in Before, cst'[b] # "idle"
        PROVE  Returned(a)'
    <3>1. cst[b] # "idle"
      BY <1>2, <1>4, <2>1
    <3>2. Returned(a)
      BY <2>1, <3>1 DEF TurnInv, TurnsAreKept
    <3>3. QED
      BY <1>4, <3>2 DEF Returned
  <2>2. QED
    BY <2>1 DEF TurnsAreKept
<1>8. \A e \in Daemons : /\ dst'[e] \in Up <=> dst[e] \in Up
                         /\ dst'[e] \in Holding <=> dst[e] \in Holding
                         /\ dst'[e] \in Starting => dst[e] \in Starting /\ e # d
  BY <1>4, <1>5
<1>9. OneDaemon'
  <2>1. \A e \in Daemons : dst'[e] \in Starting => cst'[e] = "waiting"
    BY <1>1, <1>2, <1>4, <1>8 DEF OneDaemon, Daemons
  <2>2. \A b \in Clients : cst'[b] \in {"refused", "cleaned"} => cst[b] = cst'[b]
    BY <1>4
  <2>3. QED
    BY <1>1, <1>8, <2>1, <2>2 DEF OneDaemon
<1>10. Knowledge'
  <2>1. \A e \in Daemons : dst'[e] \in Knowing => Successes' \subseteq list'[e]
    <3>1. ASSUME NEW e \in Daemons, dst'[e] \in Knowing PROVE Successes' \subseteq list'[e]
      <4>1. e = d
        BY <1>1, <1>5, <1>8, <3>1, Stages DEF OneDaemon
      <4>2. QED
        BY <1>1, <1>2, <1>5, <1>6, <4>1 DEF Knowledge
    <3>2. QED
      BY <3>1
  <2>2. ~ \A e \in Daemons : dst'[e] \notin Knowing \ {"saved"}
    BY <1>4, <1>5
  <2>3. \A e \in Daemons : dst'[e] \in Busy => current'[e] \in list'[e]
    BY <1>1, <1>4, <1>5 DEF Knowledge
  <2>4. \A b \in Clients : peer'[b] # None =>
                             dst'[peer'[b]] \in Serving \cup Leaving \cup {"dead"}
    BY <1>1, <1>4, <1>5 DEF Knowledge, TypeOK
  <2>5. QED
    BY <2>1, <2>2, <2>3, <2>4 DEF Knowledge
<1>11. NothingIsForgotten'
  <2>1. ASSUME NEW a \in Clients, NEW b \in Clients, NEW e \in Daemons,
               <<a, b>> \in Before, cst'[a] = "done", executed'[b] = 1, peer'[b] = e
        PROVE  a \in list'[e]
    <3>1. cst[b] # "idle"
      BY <1>1, <2>1 DEF IInv, ClientInv, Unconnected
    <3>2. Returned(a)
      BY <2>1, <3>1 DEF TurnInv, TurnsAreKept
    <3>3. cst[a] = "done"
      BY <1>2, <1>4, <2>1, <3>2 DEF Returned
    <3>4. QED
      BY <1>1, <2>1, <3>3 DEF TurnInv, NothingIsForgotten
  <2>2. QED
    BY <2>1 DEF NothingIsForgotten
<1>12. QuitQuits'
  <2>1. ASSUME NEW q \in Quitters, cst'[q] = "done",
               \A b \in Clients \ {q} : cst'[b] = "idle" \/ <<b, q>> \in Before,
               NEW e \in Daemons
        PROVE  dst'[e] \notin Starting \cup Serving
    <3>1. q \in Clients
      BY RendezvousAssumption
    <3>2. q = c
      <4>1. SUFFICES ASSUME q # c PROVE FALSE
        OBVIOUS
      <4>2. <<c, q>> \in Before /\ cst[q] = "done"
        BY <1>2, <1>4, <2>1, <3>1, <4>1
      <4>3. Returned(c)
        BY <1>2, <3>1, <4>2 DEF TurnInv, TurnsAreKept
      <4>4. QED
        BY <1>2, <4>3 DEF Returned
    <3>3. next = "leaving"
      BY <1>3, <2>1, <3>2
    <3>4. CASE e = d
      BY <1>4, <3>3, <3>4 DEF Starting, Serving
    <3>5. CASE e # d
      <4>1. dst[e] \notin Up
        BY <1>1, <1>5, <3>5 DEF OneDaemon
      <4>2. QED
        BY <1>4, <3>5, <4>1 DEF Up
    <3>6. QED
      BY <3>4, <3>5
  <2>2. QED
    BY <2>1 DEF QuitQuits
<1>13. QED
  BY <1>7, <1>9, <1>10, <1>11, <1>12 DEF TurnInv

-----------------------------------------------------------------------------
LEMMA InitTurns == Init => TurnInv
<1>1. SUFFICES ASSUME Init PROVE TurnInv
  OBVIOUS
<1>2. /\ \A c \in Clients : cst[c] = "idle" /\ peer[c] = None /\ executed[c] = 0
      /\ \A d \in Daemons : dst[d] = "unborn"
      /\ path = None
  BY <1>1 DEF Init
<1>3. TurnsAreKept
  BY <1>2 DEF TurnsAreKept
<1>4. OneDaemon
  BY <1>2, RendezvousAssumption DEF OneDaemon, Up, Holding, Starting, Serving, Daemons
<1>5. Knowledge
  BY <1>2 DEF Knowledge, Successes, Knowing, Holding, Serving, Busy
<1>6. NothingIsForgotten /\ QuitQuits
  BY <1>2, RendezvousAssumption DEF NothingIsForgotten, QuitQuits
<1>7. QED
  BY <1>3, <1>4, <1>5, <1>6 DEF TurnInv

LEMMA NextHears ==
    ASSUME CommandsInTurn
    PROVE  IInv /\ NoneIsDeaf /\ [Next]_vars => NoneIsDeaf'
<1>1. SUFFICES ASSUME IInv, NoneIsDeaf, [Next]_vars PROVE NoneIsDeaf'
  OBVIOUS
<1>2. dst' = dst \/ \E d \in Daemons, state \in DaemonStates \ {"deaf"} :
                        dst' = [dst EXCEPT ![d] = state]
  <2>1. CASE UNCHANGED vars
    BY <2>1 DEF vars, daemonVars
  <2>2. ASSUME NEW c \in Clients, ClientStep(c) PROVE <1>2!1 \/ <1>2!2
    BY <2>2 DEF ClientStep, Connect, Connects, CleanUp, SpawnClimpd, Retry, Send, Reset,
                daemonVars, Daemons, DaemonStates, Starting
  <2>3. ASSUME NEW d \in Daemons, Resume(d) \/ DaemonStep(d) PROVE <1>2!1 \/ <1>2!2
    <3>1. CASE Load(d) \/ UnlinkOld(d) \/ Bind(d) \/ Listen(d)
      BY <3>1 DEF Load, UnlinkOld, Bind, Listen, Becomes, DaemonStates, Starting, Serving
    <3>2. CASE Accept(d) \/ Execute(d) \/ Resume(d)
      BY <3>2 DEF Accept, Execute, Resume, Becomes, DaemonStates, Serving
    <3>3. CASE Reply(d) \/ Save(d) \/ UnlinkOwn(d) \/ Exit(d)
      BY <3>3 DEF Reply, Save, UnlinkOwn, Exit, Becomes, DaemonStates, Serving, Leaving
    <3>4. QED
      BY <2>3, <3>1, <3>2, <3>3 DEF DaemonStep
  <2>4. ASSUME NEW d \in Daemons, Mishap(d) PROVE <1>2!1 \/ <1>2!2
    BY <2>4 DEF Mishap, Becomes, CommandsInTurn, DaemonStates, Leaving
  <2>5. QED
    BY <1>1, <2>1, <2>2, <2>3, <2>4 DEF Next
<1>3. QED
  BY <1>1, <1>2 DEF NoneIsDeaf, IInv, TypeOK

LEMMA NextTurns ==
    ASSUME CommandsInTurn
    PROVE  IInv /\ NoneIsDeaf /\ TurnInv /\ [Next]_vars => TurnInv'
<1>1. SUFFICES ASSUME IInv, NoneIsDeaf, TurnInv, [Next]_vars PROVE TurnInv'
  OBVIOUS
<1>2. CASE UNCHANGED vars
  BY <1>1, <1>2
  DEF TurnInv, TurnsAreKept, OneDaemon, Knowledge, NothingIsForgotten, QuitQuits, Successes,
      Returned, vars, clientVars, daemonVars
<1>3. ASSUME NEW c \in Clients, ClientStep(c) PROVE TurnInv'
  BY <1>1, <1>3, ConnectTurns, CleanUpTurns, SpawnClimpdTurns, RetryTurns, SendTurns
  DEF ClientStep
<1>4. ASSUME NEW d \in Daemons, DaemonStep(d) PROVE TurnInv'
  BY <1>1, <1>4, LoadTurns, StartsTurns, LeavesTurns, AcceptTurns, ExecuteTurns, ReplyTurns
  DEF DaemonStep
<1>5. ASSUME NEW d \in Daemons, Mishap(d) \/ Resume(d) PROVE TurnInv'
  BY <1>1, <1>5, MishapTurns, ResumeTurns
<1>6. QED
  BY <1>1, <1>2, <1>3, <1>4, <1>5 DEF Next

LEMMA TurnInvariance ==
    ASSUME CommandsInTurn
    PROVE  Spec => []TurnInv
<1>1. IInv /\ NoneIsDeaf /\ [Next]_vars => NoneIsDeaf'
  BY NextHears
<1>2. IInv /\ NoneIsDeaf /\ TurnInv /\ [Next]_vars => TurnInv'
  BY NextTurns
<1>3. Init => NoneIsDeaf
  BY DEF Init, NoneIsDeaf
<1>4. QED
  BY <1>1, <1>2, <1>3, InitTurns, Invariance, PTL DEF Spec

(* While commands are given one after another the daemon that serves is    *)
(* the one at the path: no other daemon removes its socket, or is started. *)
THEOREM DaemonIsReachable ==
    ASSUME CommandsInTurn
    PROVE  Spec => []ServingIsReachable
<1>1. TurnInv => ServingIsReachable
  BY DEF TurnInv, OneDaemon, ServingIsReachable, Holding
<1>2. QED
  BY <1>1, TurnInvariance, PTL

(* What a command did is known to the daemon that answers the next one,    *)
(* although that may be another daemon, which was started while the first  *)
(* was still saving its playlist.                                          *)
THEOREM SuccessIsRemembered ==
    ASSUME CommandsInTurn
    PROVE  Spec => []NothingIsForgotten
<1>1. TurnInv => NothingIsForgotten
  BY DEF TurnInv
<1>2. QED
  BY <1>1, TurnInvariance, PTL

(* After --quit no daemon serves, or is on the way to it. *)
THEOREM QuitIsFinal ==
    ASSUME CommandsInTurn
    PROVE  Spec => []QuitQuits
<1>1. TurnInv => QuitQuits
  BY DEF TurnInv
<1>2. QED
  BY <1>1, TurnInvariance, PTL
=============================================================================
