------------------------------- MODULE MCClimpd -------------------------------
(***************************************************************************)
(* Climpd for TLC: playlists of at most two of two tracks, and argument    *)
(* lists of every kind the handlers tell apart.                            *)
(***************************************************************************)
EXTENDS Climpd

Media(t)  == [is |-> "media", track |-> t]
List(l)   == [is |-> "list", lines |-> l]
Number(i) == [is |-> "int", val |-> i]
Unknown   == [is |-> "unknown"]
Overflow  == [is |-> "overflow"]

(* Not a path and not a URI. *)
Malformed == 99

MCPlayArgs == {<<Number(0)>>, <<Number(-1)>>, <<Overflow>>,
               <<Media(1), Media(2)>>, <<Media(2), Unknown>>, <<Number(1), Media(2)>>,
               <<List(<<2, 1>>)>>}

MCLoadArgs == {<<Unknown, Media(2)>>, <<List(<<1, Malformed>>)>>}

MCRemoveArgs == {<<0>>, <<-1>>}
=============================================================================
