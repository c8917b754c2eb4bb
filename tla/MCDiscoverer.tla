------------------------------ MODULE MCDiscoverer ------------------------------
(***************************************************************************)
(* Two arguments.  In one a directory with a subdirectory lies among other *)
(* entries; at its bottom the path of one file just fits, another one is   *)
(* one byte too long, and so is that of a directory.                       *)
(*                                                                         *)
(*    top     a  song                                                      *)
(*               b  last                                                   *)
(*                  long                                                   *)
(*                  deep  never                                            *)
(*            c  other                                                     *)
(*            text                                                         *)
(*            link                                                         *)
(*    shelf   single                                                       *)
(***************************************************************************)
EXTENDS Discoverer

MCDirs    == {"top", "a", "b", "c", "deep", "shelf"}
MCAudio   == {"song", "last", "long", "never", "other", "single"}
MCRegular == MCAudio \cup {"text"}
MCOthers  == {"link"}

MCParent ==
    [n \in {"a", "c", "text", "link"} |-> "top"] @@ [n \in {"song", "b"} |-> "a"]
    @@ [n \in {"last", "long", "deep"} |-> "b"] @@ [n \in {"never"} |-> "deep"]
    @@ [n \in {"other"} |-> "c"] @@ [n \in {"single"} |-> "shelf"]

MCLength ==
    [n \in MCDirs \cup MCRegular \cup MCOthers |-> IF n \in {"long", "deep"} THEN 2 ELSE 1]

MCArgs == <<"top", "shelf">>
=============================================================================
