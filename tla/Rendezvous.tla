------------------------------ MODULE Rendezvous ------------------------------
(***************************************************************************)
(* How climp clients find, start and stop the daemon: one process climp    *)
(* per command line (src/climp/main.c) and the daemons these start         *)
(* (src/climpd/main.c, src/climpd/ipc/socket-server.c), which meet at the  *)
(* path of one UNIX domain socket.  The processes run concurrently; each   *)
(* step is one system call on something they share: the path, a socket, or *)
(* the file in which daemons keep their playlist.                          *)
(*                                                                         *)
(* A client starts at most one daemon, which carries the client's name.    *)
(* Abstracted: what a command does to the playlist is its being in         *)
(* list[d]; forking, and the two forks of daemonize, are one step.         *)
(***************************************************************************)
EXTENDS Integers, Sequences, FiniteSets

CONSTANTS
    Clients,
    None,               \* no daemon, no client
    Quitters,           \* the clients that send --quit
    Rejected,           \* those whose command line it fails to receive
    Before,             \* <<b, c>>: c is started when b has returned
    Backlog,            \* connections the kernel queues for a listener
    MaxAttempts,        \* connection attempts after a daemon was spawned
    Patient,            \* a daemon is up before the attempts run out
    Mishaps             \* "KILL", "TERM": signals; "INIT": a daemon cannot start;
                        \* "SOCKET", "EMFILE": it gets no socket, or no descriptor

ASSUME RendezvousAssumption ==
    /\ None \notin Clients
    /\ Quitters \subseteq Clients /\ Rejected \subseteq Clients \ Quitters
    /\ Before \subseteq Clients \X Clients
    /\ Backlog \in Nat \ {0} /\ MaxAttempts \in Nat \ {0}
    /\ Patient \in BOOLEAN /\ Mishaps \subseteq {"KILL", "TERM", "INIT", "SOCKET", "EMFILE"}

VARIABLES
    path,               \* the daemon that bound the socket at the path
    cst,                \* what each client does
    peer,               \* the daemon a client is connected to
    attempts,           \* the attempts a client has left
    dst,                \* what each daemon does
    queue,              \* the connections a daemon has not accepted
    current,            \* the connection it is serving
    list,               \* its playlist: the commands that made it
    saved,              \* the playlist in __playlist.m3u
    executed            \* history: how often a client's command was executed

clientVars == <<cst, peer, attempts>>
daemonVars == <<dst, queue, current, list>>
vars == <<path, clientVars, daemonVars, saved, executed>>

Daemons == Clients

ClientStates == {"idle", "refused", "cleaned", "waiting", "connected", "sent",
                 "done", "failed"}
Starting     == {"loading", "loaded", "unlinked", "bound"}
Serving      == {"serving", "executed", "blocked", "deaf"}
Leaving      == {"leaving", "saved", "gone"}
DaemonStates == {"unborn", "mute", "dead"} \cup Starting \cup Serving \cup Leaving

Returned(c) == cst[c] \in {"done", "failed"}
Alive(d)    == dst[d] \notin {"unborn", "dead"}

(* Mutant: the socket is closed when the main loop ends. *)
ListeningUntilQuit(d) == dst[d] \in Serving

(* The listening socket stays open until the process exits: the main       *)
(* loop's watch on the channel keeps it when socket_server_destroy lets go.*)
Listening(d) == dst[d] \in Serving \cup Leaving

Init ==
    /\ path = None
    /\ cst = [c \in Clients |-> "idle"]
    /\ peer = [c \in Clients |-> None]
    /\ attempts = [c \in Clients |-> MaxAttempts]
    /\ dst = [d \in Daemons |-> "unborn"]
    /\ queue = [d \in Daemons |-> <<>>]
    /\ current = [d \in Daemons |-> None]
    /\ list = [d \in Daemons |-> {}]
    /\ saved = {}
    /\ executed = [c \in Clients |-> 0]

-----------------------------------------------------------------------------
(* Clients: climp/main.c *)

Goes(c, state) == cst' = [cst EXCEPT ![c] = state]

(* connect(): blocks while the backlog is full, and is refused where there *)
(* is no file (ENOENT) or nobody listens (ECONNREFUSED).                   *)
IsRefused == path \notin {d \in Daemons : Listening(d)}

Connects(c) ==
    /\ ~ IsRefused
    /\ Len(queue[path]) < Backlog
    /\ Goes(c, "connected")
    /\ peer' = [peer EXCEPT ![c] = path]
    /\ queue' = [queue EXCEPT ![path] = Append(@, c)]
    /\ UNCHANGED <<path, attempts, dst, current, list, saved, executed>>

Connect(c) ==
    /\ cst[c] = "idle"
    /\ \A b \in Clients : <<b, c>> \in Before => Returned(b)
    /\ \/ Connects(c)
       \/ /\ IsRefused
          /\ Goes(c, "refused")
          /\ UNCHANGED <<path, peer, attempts, daemonVars, saved, executed>>

(* The client removes what it takes for the socket of a dead daemon. *)
CleanUp(c) ==
    /\ cst[c] = "refused"
    /\ path' = None
    /\ Goes(c, "cleaned")
    /\ UNCHANGED <<peer, attempts, daemonVars, saved, executed>>

(* The new daemon, unless fork() fails. *)
SpawnClimpd(c) ==
    /\ cst[c] = "cleaned"
    /\ \/ Goes(c, "waiting") /\ dst' = [dst EXCEPT ![c] = "loading"]
       \/ Goes(c, "failed") /\ UNCHANGED dst
    /\ UNCHANGED <<path, peer, attempts, queue, current, list, saved, executed>>

(* Mutants: the attempts are counted one too far, and not at all. *)
RetryOnceMore(c) ==
    /\ cst[c] = "waiting"
    /\ \/ Connects(c)
       \/ /\ IsRefused
          /\ Patient => dst[c] \notin Starting
          /\ attempts' = [attempts EXCEPT ![c] = @ - 1]
          /\ Goes(c, IF attempts[c] = 0 THEN "failed" ELSE "waiting")
          /\ UNCHANGED <<path, peer, daemonVars, saved, executed>>

RetryForever(c) == cst[c] = "waiting" /\ Connects(c)

(* An attempt every 10 ms. *)
Retry(c) ==
    /\ cst[c] = "waiting"
    /\ \/ Connects(c)
       \/ /\ IsRefused
          /\ Patient => dst[c] \notin Starting
          /\ attempts' = [attempts EXCEPT ![c] = @ - 1]
          /\ Goes(c, IF attempts[c] = 1 THEN "failed" ELSE "waiting")
          /\ UNCHANGED <<path, peer, daemonVars, saved, executed>>

(* ipc_send_setup and ipc_send_argv *)
Send(c) ==
    /\ cst[c] = "connected"
    /\ Alive(peer[c])
    /\ Goes(c, "sent")
    /\ UNCHANGED <<path, peer, attempts, daemonVars, saved, executed>>

(* Mutant: a client that got no answer tries again. *)
ResetRetries(c) ==
    /\ cst[c] \in {"connected", "sent"}
    /\ ~ Alive(peer[c])
    /\ Goes(c, "waiting")
    /\ UNCHANGED <<path, peer, attempts, daemonVars, saved, executed>>

(* The daemon has closed the connection, or died with it, unanswered. *)
Reset(c) ==
    /\ cst[c] \in {"connected", "sent"}
    /\ ~ Alive(peer[c])
    /\ Goes(c, "failed")
    /\ UNCHANGED <<path, peer, attempts, daemonVars, saved, executed>>

-----------------------------------------------------------------------------
(* Daemons: main of climpd/main.c and socket-server.c *)

Becomes(d, state) == dst' = [dst EXCEPT ![d] = state]

(* main: the last playlist is loaded before there is a socket. *)
Load(d) ==
    /\ dst[d] = "loading"
    /\ Becomes(d, "loaded")
    /\ list' = [list EXCEPT ![d] = saved]
    /\ UNCHANGED <<path, clientVars, queue, current, saved, executed>>

(* socket_server_init: unlink, bind and listen.  Where strdup or socket    *)
(* fails it returns what err was set to last, which is negative only when  *)
(* there was nothing to unlink: otherwise main goes on to its loop, and    *)
(* the daemon is mute, without a socket.                                   *)
UnlinkOld(d) ==
    /\ dst[d] = "loaded"
    /\ \/ path' = None /\ Becomes(d, "unlinked")
       \/ /\ "SOCKET" \in Mishaps
          /\ \/ path' = None /\ Becomes(d, IF path = None THEN "dead" ELSE "mute")
             \/ UNCHANGED path /\ Becomes(d, "mute")
    /\ UNCHANGED <<clientVars, queue, current, list, saved, executed>>

Bind(d) ==
    /\ dst[d] = "unlinked"
    /\ IF path = None THEN path' = d /\ Becomes(d, "bound")
                      ELSE Becomes(d, "dead") /\ UNCHANGED path
    /\ UNCHANGED <<clientVars, queue, current, list, saved, executed>>

Listen(d) ==
    /\ dst[d] = "bound"
    /\ Becomes(d, "serving")
    /\ UNCHANGED <<path, clientVars, queue, current, list, saved, executed>>

(* handle_socket: the next connection; then the one loop of the daemon     *)
(* waits until the client has sent its command.  Whose credentials cannot  *)
(* be read, or are another user's, is hung up on unanswered.  Where accept *)
(* fails in passing nothing has changed: the watch calls again.            *)
Accept(d) ==
    LET c == Head(queue[d])
    IN  /\ dst[d] = "serving" /\ current[d] = None
        /\ queue[d] # <<>>
        /\ queue' = [queue EXCEPT ![d] = Tail(@)]
        /\ \/ current' = [current EXCEPT ![d] = c] /\ UNCHANGED cst
           \/ Goes(c, "failed") /\ UNCHANGED current
        /\ UNCHANGED <<path, peer, attempts, dst, list, saved, executed>>

(* handle_connection.  A client whose command line cannot be received gets *)
(* no status; any other gets one, whatever the handlers report.  A handler *)
(* may block on a descriptor of the client: --stdin on a pipe that nobody  *)
(* closes, one that prints on a pipe that nobody reads.                    *)
Execute(d) ==
    LET c == current[d]
    IN  /\ dst[d] = "serving" /\ c # None
        /\ cst[c] = "sent"
        /\ IF c \in Rejected
           THEN /\ Goes(c, "failed")
                /\ current' = [current EXCEPT ![d] = None]
                /\ UNCHANGED <<dst, list, executed>>
           ELSE /\ Becomes(d, "executed") \/ Becomes(d, "blocked")
                /\ list' = [list EXCEPT ![d] = @ \cup {c}]
                /\ executed' = [executed EXCEPT ![c] = @ + 1]
                /\ UNCHANGED <<cst, current>>
        /\ UNCHANGED <<path, peer, attempts, queue, saved>>

(* Whoever has the other end of the descriptor closes it, or goes on. *)
Resume(d) ==
    /\ dst[d] = "blocked"
    /\ Becomes(d, "executed")
    /\ UNCHANGED <<path, clientVars, queue, current, list, saved, executed>>

(* Mutant: --quit does not end the main loop. *)
ReplyStays(d) ==
    /\ dst[d] = "executed"
    /\ Goes(current[d], "done")
    /\ current' = [current EXCEPT ![d] = None]
    /\ Becomes(d, "serving")
    /\ UNCHANGED <<path, peer, attempts, queue, list, saved, executed>>

(* ipc_send_status, and the main loop, which a --quit makes end. *)
Reply(d) ==
    LET c == current[d]
    IN  /\ dst[d] = "executed"
        /\ Goes(c, "done")
        /\ current' = [current EXCEPT ![d] = None]
        /\ Becomes(d, IF c \in Quitters THEN "leaving" ELSE "serving")
        /\ UNCHANGED <<path, peer, attempts, queue, list, saved, executed>>

(* main after the main loop; the save is taken to succeed. *)
Save(d) ==
    /\ dst[d] = "leaving"
    /\ saved' = list[d]
    /\ Becomes(d, "saved")
    /\ UNCHANGED <<path, clientVars, queue, current, list, executed>>

(* Mutant: the socket may be removed before the playlist is saved. *)
UnlinkOwnEarly(d) ==
    /\ \/ dst[d] = "saved" /\ Becomes(d, "gone") /\ path' = IF path = d THEN None ELSE path
       \/ dst[d] = "leaving" /\ path = d /\ path' = None /\ UNCHANGED dst
    /\ UNCHANGED <<clientVars, queue, current, list, saved, executed>>

(* socket_server_destroy removes whatever is at the path. *)
UnlinkOwn(d) ==
    /\ dst[d] = "saved"
    /\ path' = None
    /\ Becomes(d, "gone")
    /\ UNCHANGED <<clientVars, queue, current, list, saved, executed>>

Exit(d) ==
    /\ dst[d] = "gone"
    /\ Becomes(d, "dead")
    /\ UNCHANGED <<path, clientVars, queue, current, list, saved, executed>>

(* What can happen to a daemon: die_error on the way to its main loop,     *)
(* killall -9, and killall -15, which ends the main loop; and descriptors  *)
(* that have run out, so that accept fails for ever and the daemon is deaf *)
(* (it cannot open the file of its playlist either).  What a mute daemon   *)
(* does when its main loop ends is left out.                               *)
Mishap(d) ==
    /\ \/ "INIT" \in Mishaps /\ dst[d] = "loading" /\ Becomes(d, "dead")
       \/ "KILL" \in Mishaps /\ Alive(d) /\ Becomes(d, "dead")
       \/ /\ "TERM" \in Mishaps /\ current[d] = None
          /\ \/ dst[d] = "serving" /\ Becomes(d, "leaving")
             \/ dst[d] = "deaf" /\ Becomes(d, "saved")
       \/ "EMFILE" \in Mishaps /\ dst[d] = "serving" /\ current[d] = None
                               /\ Becomes(d, "deaf")
    /\ UNCHANGED <<path, clientVars, queue, current, list, saved, executed>>

-----------------------------------------------------------------------------
ClientStep(c) ==
    Connect(c) \/ CleanUp(c) \/ SpawnClimpd(c) \/ Retry(c) \/ Send(c) \/ Reset(c)

DaemonStep(d) ==
    \/ Load(d) \/ UnlinkOld(d) \/ Bind(d) \/ Listen(d)
    \/ Accept(d) \/ Execute(d) \/ Reply(d)
    \/ Save(d) \/ UnlinkOwn(d) \/ Exit(d)

Next ==
    \/ \E c \in Clients : ClientStep(c)
    \/ \E d \in Daemons : DaemonStep(d) \/ Resume(d) \/ Mishap(d)

(* The scheduler lets every process go on that can.  Nothing makes the     *)
(* other end of a client's descriptors go on: Resume is not fair.          *)
Fairness ==
    /\ \A c \in Clients : WF_vars(ClientStep(c))
    /\ \A d \in Daemons : WF_vars(DaemonStep(d))

Spec == Init /\ [][Next]_vars /\ Fairness

-----------------------------------------------------------------------------
TypeOK ==
    /\ path \in Daemons \cup {None}
    /\ cst \in [Clients -> ClientStates]
    /\ peer \in [Clients -> Daemons \cup {None}]
    /\ attempts \in [Clients -> 0 .. MaxAttempts]
    /\ dst \in [Daemons -> DaemonStates]
    /\ queue \in [Daemons -> Seq(Clients)]
    /\ current \in [Daemons -> Clients \cup {None}]
    /\ list \in [Daemons -> SUBSET Clients]
    /\ saved \subseteq Clients
    /\ executed \in [Clients -> Nat]

(* A command is executed at most once, however often its client had to     *)
(* try and whichever daemons were killed, and exactly once if climp        *)
(* reports success.                                                        *)
DoneIsExecutedOnce ==
    \A c \in Clients :
        /\ executed[c] <= 1
        /\ cst[c] = "done" => executed[c] = 1

(* A climp hangs only behind a daemon that is blocked for ever by one of   *)
(* the clients, or that has run out of descriptors: while there is none of *)
(* these, and whichever daemons are killed or cannot start, every client   *)
(* returns.                                                                *)
EveryClientReturns ==
    (\A d \in Daemons : []<>(dst[d] \notin {"blocked", "deaf"}))
        => \A c \in Clients : <>Returned(c)

(* A daemon that serves can be reached: its socket is the one at the path. *)
ServingIsReachable == \A d \in Daemons : dst[d] \in Serving => path = d

(* Nothing is forgotten: a daemon that has answered a client knows what    *)
(* was commanded, with success, before that client was started, even where *)
(* another daemon was told.                                                *)
NothingIsForgotten ==
    \A b, c \in Clients, d \in Daemons :
        /\ <<b, c>> \in Before /\ cst[b] = "done" /\ executed[c] = 1
        /\ peer[c] = d
        => b \in list[d]

(* Once --quit has succeeded, and until another command is given, climpd   *)
(* has quit or is about to.                                                *)
QuitQuits ==
    \A q \in Quitters :
        /\ cst[q] = "done"
        /\ \A c \in Clients \ {q} : cst[c] = "idle" \/ <<c, q>> \in Before
        => \A d \in Daemons : dst[d] \notin Starting \cup Serving
=============================================================================
