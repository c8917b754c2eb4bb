------------------------------ MODULE MCSettings ------------------------------
(***************************************************************************)
(* Settings for TLC: an int of four bits, volumes up to 4, and pitches and *)
(* speeds below, in, between and above what the file can tell apart.       *)
(***************************************************************************)
EXTENDS Settings

MCLow      == [k \in Floats |-> 3]
MCHigh     == [k \in Floats |-> IF k = "pitch" THEN 6 ELSE 9]
MCDefaults == [k \in Keys |-> CASE k = "volume" -> 3
                                 [] k \in Floats -> 3
                                 [] OTHER -> k = "repeat"]

MCVolumes == {-1, 2, 6}

Line(k, val) == [key \in {k} |-> val]

(* Empty, keeping changes, and with numbers out of range. *)
MCFiles == {[key \in {} |-> 0], Line("keep", TRUE), Line("volume", 6),
            [key \in Floats |-> IF key = "pitch" THEN 0 ELSE 10]}
=============================================================================
