------------------------------ MODULE Connection ------------------------------
(***************************************************************************)
(* One command line on its way from climp to the handlers: the framing of  *)
(* src/shared/ipc.c, handle_connection of src/climpd/main.c and the loop of *)
(* src/climpd/core/argument-parser.c.  Clients come one after another; how *)
(* several compete for the daemon is module Rendezvous.                    *)
(*                                                                         *)
(* The client writes a fixed stream of units to its socket: 1 is the       *)
(* working directory with the descriptors, 2 is argc and the size, and     *)
(* 2 + p is the word argv[p].  What is on the wire are the units read + 1  *)
(* to sent.  The kernel passes on what one send() writes in segments, so   *)
(* that a recv() finds only the first ones of a long command line.         *)
(***************************************************************************)
EXTENDS Integers, Sequences

CONSTANTS
    Options,            \* the words that name a handler
    Switches,           \* those whose handler reads argv[0] in any case
    Arguments,          \* the other words
    Help,               \* --help
    Segment,            \* units that arrive together
    Capacity,           \* units that the socket holds
    Paddings,           \* the four bytes behind the three descriptors: "none",
                        \*    or taken for a descriptor that is "open" or "bad"
    MaxWords,           \* bound on the words of a command line
    MaxLeaked           \* descriptors that may leak before the table is full

Words == Options \cup Arguments

ASSUME ConnectionAssumption ==
    /\ Switches \subseteq Options /\ Options \cap Arguments = {}
    /\ Help \in Options
    /\ Segment \in Nat \ {0, 1} /\ Capacity \in Nat /\ Segment <= Capacity
    /\ Paddings \subseteq {"none", "open", "bad"} /\ Paddings # {}
    /\ MaxWords \in Nat /\ MaxLeaked \in Nat

VARIABLES
    client,             \* what the client does
    line,               \* the words it was started with, or --help
    link,               \* the connection
    sent, read,         \* units written to, and read from the socket
    answered,           \* the status is on its way
    daemon,             \* what the daemon does
    argv,               \* the words it works on
    i,                  \*    and the one that is next
    calls,              \* history: the calls of handlers, as slices of argv
    open,               \* how many it has open: of each that it has a name
                        \*    for, and of those the padding was taken for
    cwd                 \* its working directory

clientVars == <<client, line>>
wireVars   == <<sent, read, answered>>
parserVars == <<argv, i, calls>>
vars == <<clientVars, link, wireVars, daemon, parserVars, open, cwd>>

Gone == {"away", "success", "failed", "killed"}

Fds   == {"in", "out", "err"}
Named == {"socket"} \cup Fds
Full  == open["padding"] = MaxLeaked

Total == Len(line) + 2

(* The words come in the segment of their count, and the daemon has them   *)
(* all when it has the count.                                              *)
Fits == Len(line) + 1 <= Segment

Init ==
    /\ client = "away" /\ line = <<>>
    /\ link = "none"
    /\ sent = 0 /\ read = 0 /\ answered = FALSE
    /\ daemon = "idle"
    /\ argv = <<>> /\ i = 1 /\ calls = <<>>
    /\ open = [f \in Named \cup {"padding"} |-> 0] /\ cwd = "/"

-----------------------------------------------------------------------------
(* The client: climp/main.c *)

Connect ==
    /\ client \in Gone /\ link \in {"none", "closed"}
    /\ daemon \in {"idle", "deaf"}
    /\ client' = "setup"
    /\ \E n \in 0 .. MaxWords : \E words \in [1 .. n -> Words] :
          line' = IF words = <<>> THEN <<Help>> ELSE words
    /\ link' = "backlog"
    /\ sent' = 0 /\ read' = 0 /\ answered' = FALSE
    /\ argv' = <<>> /\ i' = 1 /\ calls' = <<>>
    /\ UNCHANGED <<daemon, open, cwd>>

Fails == client' = "failed" /\ UNCHANGED sent

(* ipc_send_setup: cmsg_len takes the padding for a fourth descriptor. *)
SendSetup ==
    /\ client = "setup"
    /\ \/ link # "closed" /\ Paddings # {"bad"} /\ client' = "argv" /\ sent' = 1
       \/ (link = "closed" \/ "bad" \in Paddings) /\ Fails
    /\ UNCHANGED <<line, link, read, answered, daemon, parserVars, open, cwd>>

(* One segment of the send() in ipc_send_argv, which blocks while the      *)
(* socket is full.  If the daemon hangs up in between, what was sent by    *)
(* then counts as success.                                                 *)
SendArgv ==
    /\ client = "argv"
    /\ \E end \in (sent + 1) .. Total :
          /\ end = sent + Segment \/ (end = Total /\ end < sent + Segment)
          /\ \/ /\ link # "closed" /\ end - read <= Capacity
                /\ sent' = end
                /\ client' = IF end = Total THEN "status" ELSE "argv"
             \/ link = "closed" /\ sent = 1 /\ Fails
             \/ link = "closed" /\ sent > 1 /\ client' = "status" /\ UNCHANGED sent
    /\ UNCHANGED <<line, link, read, answered, daemon, parserVars, open, cwd>>

(* ipc_recv_status: a status that was sent is found, also after the end. *)
RecvStatus ==
    /\ client = "status"
    /\ \/ answered /\ client' = "success"
       \/ ~ answered /\ link = "closed" /\ client' = "failed"
    /\ UNCHANGED <<line, link, wireVars, daemon, parserVars, open, cwd>>

(* Ctrl-C, or SIGKILL *)
Kill ==
    /\ client \notin Gone
    /\ client' = "killed"
    /\ UNCHANGED <<line, link, wireVars, daemon, parserVars, open, cwd>>

-----------------------------------------------------------------------------
(* The daemon: handle_socket and handle_connection *)

(* A client whose credentials cannot be read, or are another user's, is    *)
(* hung up on.                                                             *)
Accept ==
    /\ daemon = "idle" /\ link = "backlog"
    /\ \/ /\ daemon' = "setup" /\ link' = "open"
          /\ open' = [open EXCEPT !["socket"] = 1]
       \/ link' = "closed" /\ UNCHANGED <<daemon, open>>
    /\ UNCHANGED <<clientVars, wireVars, parserVars, cwd>>

(* The player has the last descriptors, and accept() fails for ever. *)
Exhausted ==
    /\ daemon = "idle" /\ Full
    /\ daemon' = "deaf"
    /\ UNCHANGED <<clientVars, link, wireVars, parserVars, open, cwd>>

(* The end of handle_connection and handle_socket.  A descriptor that did  *)
(* not arrive has got whatever number was on the stack: closing it changes *)
(* nothing, or closes one that had leaked, or one of the daemon's own, and *)
(* the daemon is lost.                                                     *)
Strays == {f \in Fds : daemon # "setup" /\ open[f] = 0}

Closed(leaked) == [f \in Named \cup {"padding"} |-> IF f = "padding" THEN leaked ELSE 0]

Closes ==
    \/ Strays = {} /\ daemon' = "idle" /\ open' = Closed(open["padding"])
    \/ /\ Strays # {}
       /\ daemon' \in {"idle", "lost"}
       /\ \E leaked \in 0 .. open["padding"] : open' = Closed(leaked)

(* Mutant: the socket stays open after a failure. *)
HangUpAfter(status) ==
    /\ Closes
    /\ link' = IF status THEN "closed" ELSE link
    /\ UNCHANGED <<clientVars, sent, read, parserVars>>

HangUp(status) ==
    /\ Closes
    /\ link' = "closed"
    /\ UNCHANGED <<clientVars, sent, read, parserVars>>

(* What a recv() finds, and when it returns 0. *)
Arrived == sent > read
Ended   == ~ Arrived /\ client \in Gone

(* Mutant: the descriptors stay open when the command line is lost. *)
RecvFailsLeaking ==
    /\ daemon' = "idle" /\ link' = "closed"
    /\ open' = [open EXCEPT !["socket"] = 0]
    /\ UNCHANGED <<clientVars, wireVars, parserVars, cwd>>

(* ipc_recv_setup or ipc_recv_argv fails: cleanup1 of handle_connection. *)
RecvFails ==
    /\ HangUp(FALSE)
    /\ UNCHANGED <<answered, cwd>>

(* ipc_recv_setup: the fourth descriptor has no name in the daemon.  Where *)
(* the table is full only the first ones arrive, which nobody looks at.    *)
Arriving == {Fds} \cup IF Full THEN {{}, {"in"}, {"in", "out"}} ELSE {}

RecvSetup ==
    /\ daemon = "setup"
    /\ \/ /\ Arrived
          /\ read' = 1
          /\ \E fds \in Arriving, padding \in Paddings \ {"bad"} :
                open' = [f \in Named \cup {"padding"} |->
                           IF f \in fds \/ (f = "padding" /\ padding = "open" /\ ~ Full)
                           THEN open[f] + 1 ELSE open[f]]
          /\ daemon' = "header"
          /\ UNCHANGED <<clientVars, link, sent, answered, parserVars, cwd>>
       \/ Ended /\ RecvFails

(* argc and the size, which are always in the same segment.  No client has *)
(* more than ARG_MAX words.                                                *)
RecvHeader ==
    /\ daemon = "header"
    /\ \/ /\ Arrived
          /\ read' = 2
          /\ daemon' = "words"
          /\ UNCHANGED <<clientVars, link, sent, answered, parserVars, open, cwd>>
       \/ Ended /\ RecvFails

(* malloc fails for the working directory, or for the words. *)
NoMemory ==
    /\ daemon = "setup" \/ (daemon = "header" /\ Arrived)
    /\ RecvFails

(* The words, as many of them as have arrived.  The others are whatever    *)
(* the memory holds, and the search for their ends may run out of it.      *)
RecvWords ==
    /\ daemon = "words"
    /\ \/ /\ Arrived
          /\ read' = sent
          /\ \E words \in [1 .. Len(line) -> Words] :
                /\ \A p \in 1 .. sent - 2 : words[p] = line[p]
                /\ argv' = words
          /\ cwd' \in {"/", "client's"}
          /\ daemon' = "run"
          /\ UNCHANGED <<clientVars, link, sent, answered, i, calls, open>>
       \/ /\ Arrived /\ sent < Total
          /\ daemon' = "crashed" /\ link' = "closed" /\ open' = Closed(0)
          /\ UNCHANGED <<clientVars, wireVars, parserVars, cwd>>
       \/ Ended /\ RecvFails

-----------------------------------------------------------------------------
(* The loop of argument_parser_run *)

(* Mutant: the search for the next option goes to the last word. *)
EndsAtLast(p, j) ==
    /\ \A k \in p + 1 .. j - 1 : argv[k] \notin Options
    /\ j < Len(argv) => argv[j] \in Options

(* argv[p] is given the words before argv[j]. *)
EndsAt(p, j) ==
    /\ \A k \in p + 1 .. j - 1 : argv[k] \notin Options
    /\ j <= Len(argv) => argv[j] \in Options

(* Every handler may block on a descriptor of the client, with the only    *)
(* loop of the daemon: --stdin on a pipe that nobody closes, and whichever *)
(* prints, as the one for invalid words does, on one that nobody reads.    *)
MayBlock == daemon' \in {"run", "blocked"}

Resume ==
    /\ daemon = "blocked"
    /\ daemon' = "run"
    /\ UNCHANGED <<clientVars, link, wireVars, parserVars, open, cwd>>

Skip ==
    /\ daemon = "run" /\ i <= Len(argv)
    /\ argv[i] \notin Options
    /\ i' = i + 1
    /\ MayBlock
    /\ UNCHANGED <<clientVars, link, wireVars, argv, calls, open, cwd>>

(* Mutant: what follows a handler that failed is not run. *)
RunUntilFailure ==
    /\ daemon = "run" /\ i <= Len(argv)
    /\ argv[i] \in Options
    /\ \E j \in i + 1 .. Len(argv) + 1 :
          /\ EndsAt(i, j)
          /\ calls' = Append(calls, [cmd |-> i, argc |-> j - (i + 1)])
          /\ i' \in {j, Len(argv) + 1}
    /\ MayBlock
    /\ UNCHANGED <<clientVars, link, wireVars, argv, open, cwd>>

(* Mutant: the loop counts on from the next option. *)
RunCountingOn ==
    /\ daemon = "run" /\ i <= Len(argv)
    /\ argv[i] \in Options
    /\ \E j \in i + 1 .. Len(argv) + 1 :
          /\ EndsAt(i, j)
          /\ calls' = Append(calls, [cmd |-> i, argc |-> j - (i + 1)])
          /\ i' = j + 1
    /\ MayBlock
    /\ UNCHANGED <<clientVars, link, wireVars, argv, open, cwd>>

(* Whether the handler fails makes no difference here. *)
Run ==
    /\ daemon = "run" /\ i <= Len(argv)
    /\ argv[i] \in Options
    /\ \E j \in i + 1 .. Len(argv) + 1 :
          /\ EndsAt(i, j)
          /\ calls' = Append(calls, [cmd |-> i, argc |-> j - (i + 1)])
          /\ i' = j
    /\ MayBlock
    /\ UNCHANGED <<clientVars, link, wireVars, argv, open, cwd>>

(* handle_repeat and handle_shuffle at the end of the line take the bytes  *)
(* behind the array for a pointer to their argument.                       *)
Crash ==
    /\ daemon = "run" /\ i = Len(argv)
    /\ argv[i] \in Switches
    /\ daemon' = "crashed" /\ link' = "closed" /\ open' = Closed(0)
    /\ UNCHANGED <<clientVars, wireVars, parserVars, cwd>>

(* The rest of handle_connection: the status goes out when all is done,    *)
(* to whom it may concern.                                                 *)
Answer ==
    /\ daemon = "run" /\ i > Len(argv)
    /\ HangUp(TRUE)
    /\ answered' = TRUE
    /\ cwd' = "/"

Next ==
    \/ Connect \/ SendSetup \/ SendArgv \/ RecvStatus \/ Kill
    \/ Accept \/ Exhausted \/ RecvSetup \/ RecvHeader \/ RecvWords \/ NoMemory
    \/ Skip \/ Run \/ Resume \/ Crash \/ Answer

(* The client sends and receives without waiting for anything else, unless *)
(* somebody stops it; the daemon's main loop comes round.  Nothing makes   *)
(* the other end of the client's descriptors go on: Resume is not fair.    *)
Fairness ==
    /\ WF_vars(SendSetup \/ SendArgv \/ RecvStatus)
    /\ WF_vars(Accept \/ RecvSetup \/ RecvHeader \/ RecvWords \/ Skip \/ Run \/ Answer)

Spec == Init /\ [][Next]_vars /\ Fairness

-----------------------------------------------------------------------------
TypeOK ==
    /\ client \in Gone \cup {"setup", "argv", "status"}
    /\ line \in Seq(Words)
    /\ link \in {"none", "backlog", "open", "closed"}
    /\ read \in 0 .. sent /\ sent \in 0 .. Total
    /\ answered \in BOOLEAN
    /\ daemon \in {"idle", "setup", "header", "words", "run", "blocked",
                   "deaf", "lost", "crashed"}
    /\ argv \in Seq(Words)
    /\ i \in 1 .. Len(argv) + 1
    /\ calls \in Seq([cmd : Nat \ {0}, argc : Nat])
    /\ open \in [Named \cup {"padding"} -> Nat]
    /\ open["padding"] <= MaxLeaked
    /\ cwd \in {"/", "client's"}

After(call) == call.cmd + call.argc + 1

(* The handlers are given slices of the command line that was typed, in    *)
(* its order, and only what precedes the first option is left out: each    *)
(* handler is named by its own word, gets no option of another, and none   *)
(* of the words after the first option is lost or given twice.             *)
HandlersGetTheLine ==
    Fits =>
        /\ \A k \in DOMAIN calls :
              /\ After(calls[k]) <= Len(line) + 1
              /\ line[calls[k].cmd] \in Options
              /\ \A p \in calls[k].cmd + 1 .. After(calls[k]) - 1 : line[p] \notin Options
        /\ \A k \in DOMAIN calls : k + 1 \in DOMAIN calls =>
              calls[k + 1].cmd = After(calls[k])
        /\ calls # <<>> => After(calls[Len(calls)]) = i
        /\ calls # <<>> => \A p \in 1 .. calls[1].cmd - 1 : line[p] \notin Options

(* When climp returns successfully every option of its command line has    *)
(* been run, whatever became of the ones before it.                        *)
SuccessMeansRun ==
    client = "success" /\ Fits =>
        \A p \in DOMAIN line : line[p] \in Options =>
            \E k \in DOMAIN calls : calls[k].cmd = p

(* Whichever step failed, between two connections the daemon has closed    *)
(* the connection and all descriptors it has a name for, and is back in    *)
(* the root directory.  What it keeps open are those the padding behind    *)
(* the three was taken for, and nothing else.                              *)
OnlyPaddingIsKept ==
    daemon \in {"idle", "deaf"} => cwd = "/" /\ \A f \in DOMAIN open \ {"padding"} : open[f] = 0

(* No exchange lasts: not when the command line does not fit into the      *)
(* socket, not when the daemon has read too little of it, and not when     *)
(* either side is gone.  But a handler may be blocked for ever, and        *)
(* descriptors may run out.                                                *)
EveryExchangeEnds ==
    []<>(daemon # "blocked") =>
        /\ (client \notin Gone) ~> (client \in Gone \/ daemon = "deaf")
        /\ (daemon \in {"setup", "header", "words", "run"}) ~> (daemon \in {"idle", "lost", "crashed"})
=============================================================================
