------------------------------ MODULE Discoverer ------------------------------
(***************************************************************************)
(* climp-discoverer (src/climp-discoverer/main.c): it scans the directories *)
(* it is given and prints a URI for each file that can be played, for      *)
(* climp --stdin to read.  The recursion of recursive_scan is a stack of   *)
(* frames; all of them share one buffer, _rpath, which each extends for    *)
(* its subdirectories and cuts back to its own length afterwards.          *)
(*                                                                         *)
(* A path is the sequence of its nodes from the argument down, its length  *)
(* that of the string, with a '/' before each name.                        *)
(*                                                                         *)
(* What every such module has is named with a D in front here, so that     *)
(* FilesProofs can extend this one together with Settings and PlaylistFile.*)
(***************************************************************************)
EXTENDS Integers, Sequences, SequencesExt

CONSTANTS
    Dirs, Regular,      \* DT_DIR and DT_REG
    Others,             \* sockets, symbolic links, ...
    Playable,           \* the files that are audio
    Parent,             \* the directory of each node below an argument
    Length,             \* strlen of each name
    Args,               \* the command line: directories
    PathMax             \* PATH_MAX

Nodes == Dirs \cup Regular \cup Others

(* No directory is below itself: going up from any node comes to an end. *)
ParentsEnd ==
    \A S \in SUBSET Nodes :
        S # {} => \E n \in S : n \in DOMAIN Parent => Parent[n] \notin S

ASSUME DiscovererAssumption ==
    /\ Dirs \cap Regular = {} /\ Dirs \cap Others = {} /\ Regular \cap Others = {}
    /\ Playable \subseteq Regular
    /\ DOMAIN Parent \subseteq Nodes
    /\ \A n \in DOMAIN Parent : Parent[n] \in Dirs
    /\ ParentsEnd
    /\ Length \in [Nodes -> Nat \ {0}]
    /\ Args \in Seq(Dirs \ DOMAIN Parent)
    /\ PathMax \in Nat

VARIABLES
    arg,                \* the argument that is scanned, or the next one
    stack,              \* the calls of recursive_scan with an open directory
    rpath,              \* _rpath
    printed,            \* the lines printed, with the argument they are for
    lost                \* history: what could not be opened, read or tested

dvars == <<arg, stack, rpath, printed, lost>>

Strlen(path) ==
    LET Sum[k \in 0 .. Len(path)] ==
            IF k = 0 THEN 0 ELSE Sum[k - 1] + 1 + Length[path[k]]
    IN  Sum[Len(path)]

Children(dir) == {n \in DOMAIN Parent : Parent[n] = dir}

Exists(path) ==
    \A k \in 1 .. Len(path) - 1 : path[k + 1] \in Children(path[k])

Frame(dir, len) == [dir |-> dir, len |-> len, todo |-> Children(dir)]

Top == Last(stack)

(* What is left when the entry n has been dealt with. *)
Rest(n) == [stack EXCEPT ![Len(stack)].todo = @ \ {n}]

(* _rpath[len] = '\0' *)
Cut(path, len) == CHOOSE p \in Prefixes(path) : Strlen(p) = len

Loses(node, why) == lost' = lost \cup {[arg |-> arg, node |-> node, why |-> why]}

(* Mutant: the failure of a subdirectory is handed on to every caller. *)
ReturnsAll ==
    /\ stack' = <<>>
    /\ arg' = arg + 1
    /\ rpath' = rpath

(* recursive_scan returns 0, to main or to the caller that goes on. *)
Returns ==
    /\ stack' = Front(stack)
    /\ IF Len(stack) > 1
       THEN arg' = arg /\ rpath' = Cut(rpath, stack[Len(stack) - 1].len)
       ELSE arg' = arg + 1 /\ rpath' = rpath

-----------------------------------------------------------------------------
DInit ==
    /\ arg = 1
    /\ stack = <<>>
    /\ rpath = <<>>
    /\ printed = {}
    /\ lost = {}

(* The loop of main: an argument, which realpath makes absolute. *)
Scan ==
    /\ stack = <<>> /\ arg <= Len(Args)
    /\ LET path == <<Args[arg]>>
       IN  /\ Strlen(path) < PathMax
           /\ rpath' = path
           /\ stack' = <<Frame(Args[arg], Strlen(path))>>
    /\ UNCHANGED <<arg, printed, lost>>

(* It is too long, realpath fails, or opendir does. *)
ScanFails ==
    /\ stack = <<>> /\ arg <= Len(Args)
    /\ arg' = arg + 1
    /\ Loses(Args[arg], "open")
    /\ UNCHANGED <<stack, rpath, printed>>

(* Mutant: no room is kept for the zero at the end. *)
TooLongByOne(n) == Top.len + 1 + Length[n] > PathMax

(* The test for a subdirectory, and in set_uri for a file. *)
TooLong(n) == Top.len + 1 + 1 + Length[n] > PathMax

SkipEntry(n) ==
    /\ n \in Others \/ TooLong(n)
    /\ stack' = Rest(n)
    /\ UNCHANGED <<arg, rpath, printed, lost>>

(* Mutant: the name is put into the buffer, as that of a directory is. *)
VisitFileInBuffer(n) ==
    /\ n \in Regular /\ ~ TooLong(n)
    /\ rpath' = Append(rpath, n)
    /\ stack' = Rest(n)
    /\ UNCHANGED <<arg, printed, lost>>

(* A file is tested and printed by the name that the buffer gives it. *)
VisitFile(n) ==
    /\ n \in Regular /\ ~ TooLong(n)
    /\ LET uri == Append(rpath, n)
       IN  \/ /\ n \in Playable /\ Exists(uri)
              /\ printed' = printed \cup {[arg |-> arg, uri |-> uri]}
              /\ UNCHANGED lost
           \/ /\ ~ (n \in Playable /\ Exists(uri))
              /\ UNCHANGED <<printed, lost>>
           \/ Loses(n, "test") /\ UNCHANGED printed
    /\ stack' = Rest(n)
    /\ UNCHANGED <<arg, rpath>>

EnterDir(n) ==
    /\ n \in Dirs /\ ~ TooLong(n)
    /\ LET path == Append(rpath, n)
       IN  /\ Exists(path)
           /\ rpath' = path
           /\ stack' = Append(Rest(n), Frame(n, Strlen(path)))
    /\ UNCHANGED <<arg, printed, lost>>

(* opendir fails: the directory that n is in is given up as well. *)
EnterFails(n) ==
    /\ n \in Dirs /\ ~ TooLong(n)
    /\ Loses(n, "open")
    /\ Returns
    /\ UNCHANGED printed

ReadFails ==
    /\ Loses(Top.dir, "read")
    /\ Returns
    /\ UNCHANGED printed

EndOfDir ==
    /\ Top.todo = {}
    /\ Returns
    /\ UNCHANGED <<printed, lost>>

Ended == stack = <<>> /\ arg > Len(Args)

DNext ==
    \/ Scan \/ ScanFails
    \/ /\ stack # <<>>
       /\ \/ \E n \in Top.todo : SkipEntry(n) \/ VisitFile(n) \/ EnterDir(n) \/ EnterFails(n)
          \/ ReadFails \/ EndOfDir
    \/ Ended /\ UNCHANGED dvars

DSpec == DInit /\ [][DNext]_dvars

-----------------------------------------------------------------------------
PathOf[n \in Nodes] ==
    IF n \in DOMAIN Parent THEN Append(PathOf[Parent[n]], n) ELSE <<n>>

Below(dir, n) == n # dir /\ dir \in ToSet(PathOf[n])

DTypeOK ==
    /\ arg \in 1 .. Len(Args) + 1
    /\ \A k \in DOMAIN stack :
          stack[k].dir \in Dirs /\ stack[k].len \in Nat /\ stack[k].todo \subseteq Nodes
    /\ rpath \in Seq(Dirs)
    /\ printed \subseteq [arg : DOMAIN Args, uri : Seq(Nodes)]
    /\ lost \subseteq [arg : DOMAIN Args, node : Nodes, why : {"open", "read", "test"}]

(* Whatever the recursion has come back from, successfully or not, the     *)
(* shared buffer holds the path of the directory that is being read, and   *)
(* never more than it has room for (_rpath, PATH_MAX).                     *)
BufferIsTheDirectory ==
    stack # <<>> => /\ rpath = PathOf[Top.dir]
                    /\ Strlen(rpath) = Top.len
                    /\ Strlen(rpath) < PathMax

(* What a failure costs file f: only a file that cannot be tested, the     *)
(* files of a directory that cannot be read, and, where a directory cannot *)
(* be opened, also those around it.                                        *)
Costs(l, f) ==
    CASE l.why = "test" -> l.node = f
      [] l.why = "read" -> Below(l.node, f)
      [] l.why = "open" -> \/ Below(l.node, f)
                           \/ l.node \in DOMAIN Parent /\ Below(Parent[l.node], f)

(* When climp-discoverer has ended, every file below its arguments that    *)
(* can be played and named has been printed for its argument, but for what *)
(* a failure costs.                                                        *)
FailuresAreLocal ==
    Ended => \A a \in DOMAIN Args, f \in Playable :
        /\ Below(Args[a], f) /\ Strlen(PathOf[f]) < PathMax
        /\ \A l \in lost : l.arg = a => ~ Costs(l, f)
        => [arg |-> a, uri |-> PathOf[f]] \in printed
=============================================================================
