------------------------------- MODULE Settings -------------------------------
(***************************************************************************)
(* The settings of climpd: what the configuration file says, what struct   *)
(* climpd_config holds, and what the player does                           *)
(* (src/climpd/core/climpd-config.c, the handlers of src/climpd/main.c and *)
(* the setters of gst-engine.c), over any number of restarts.              *)
(*                                                                         *)
(* A setting is one of Keys.  A file is a function on the keys for which   *)
(* it has a line that can be parsed; a line that cannot be is the same as  *)
(* none.  Pitch and speed are counted in steps, of which the file can tell *)
(* only every Grain-th apart ("%.2f").  An infinity, which strtof reads,   *)
(* is a number out of range; "nan", which it reads as well, is left out:   *)
(* whether min and max return it or the limit is up to libvci.  The width  *)
(* of a column, which is only for printing, is left out.                   *)
(***************************************************************************)
EXTENDS Integers, FiniteSetsExt

CONSTANTS
    IntMax,             \* INT_MAX
    MaxVolume,          \* 100
    Low, High,          \* the ranges of pitch and speed
    Grain,              \* steps between two numbers that "%.2f" tells apart
    Defaults,           \* what climpd_config_init sets
    Volumes, Numbers,   \* the arguments of --volume, and of --pitch and --speed
    Files               \* the files a user writes

Floats   == {"pitch", "speed"}
Switches == {"repeat", "shuffle"}
Keys     == {"volume", "keep"} \cup Floats \cup Switches

(* What a line or an argument for a setting is taken for.  str_to_int      *)
(* reads a long; a line that is not of the kind counts as none.            *)
Value(k) == IF k = "volume" \/ k \in Floats THEN Int ELSE BOOLEAN

ASSUME SettingsAssumption ==
    /\ IntMax \in Nat /\ MaxVolume \in 0 .. IntMax
    /\ Grain \in Nat \ {0}
    /\ Low \in [Floats -> Nat] /\ High \in [Floats -> Nat]
    /\ \A k \in Floats : /\ Low[k] <= High[k]
                         /\ Low[k] % Grain = 0 /\ High[k] % Grain = 0
    /\ Defaults = [k \in Keys |-> Defaults[k]]
    /\ \A k \in Keys : Defaults[k] \in Value(k)
    /\ Defaults["volume"] \in 0 .. MaxVolume
    /\ Volumes \subseteq Int /\ Numbers \subseteq Int
    /\ \A f \in Files : /\ DOMAIN f \subseteq Keys
                        /\ \A k \in DOMAIN f : f[k] \in Value(k)

VARIABLES
    file,               \* climpd.conf
    conf,               \* struct climpd_config
    player,             \* what the engine and the playlist are set to
    running,            \* whether the daemon is there
    kept                \* history: the player that the file was written for

vars == <<file, conf, player, running, kept>>

-----------------------------------------------------------------------------
UIntRange == 2 * IntMax + 2
ToUInt(i) == i % UIntRange
ToInt(u)  == IF u > IntMax THEN u - UIntRange ELSE u

Smaller(a, b) == Min({a, b})
Larger(a, b)  == Max({a, b})

(* parse_volume and its siblings.  A volume is cut down to an int. *)
Parsed(k, val) ==
    CASE k = "volume" -> Larger(Smaller(ToInt(ToUInt(val)), MaxVolume), 0)
      [] k \in Floats -> Larger(Smaller(val, High[k]), Low[k])
      [] OTHER        -> val

(* climpd_config_load: a setting without a line keeps its value. *)
ConfigLoad(c) ==
    [k \in Keys |-> IF k \in DOMAIN file THEN Parsed(k, file[k]) ELSE c[k]]

(* gst_engine_set_volume; the volume is unsigned. *)
SetVolume(vol) == Smaller(vol, MaxVolume)

(* gst_engine_set_pitch, gst_engine_set_speed *)
SetFloat(k, val) == Smaller(Larger(val, Low[k]), High[k])

(* What main and handle_config do with what they have loaded. *)
Applied(c, mute) ==
    [volume |-> SetVolume(c["volume"]),
     pitch  |-> SetFloat("pitch", c["pitch"]), speed |-> SetFloat("speed", c["speed"]),
     repeat |-> c["repeat"], shuffle |-> c["shuffle"], mute |-> mute]

(* write_config.  A number in the middle is rounded to either side. *)
Rounded(val) ==
    {r \in {val - (val % Grain), val - (val % Grain) + Grain} :
        2 * (val - r) \in -Grain .. Grain}

(* Mutant: the speed is written for the pitch. *)
WrittenTwice(c) ==
    {[c EXCEPT !["pitch"] = r, !["speed"] = r] : r \in Rounded(c["speed"])}

Written(c) ==
    {[c EXCEPT !["pitch"] = p, !["speed"] = r] :
        p \in Rounded(c["pitch"]), r \in Rounded(c["speed"])}

Nothing == <<>>

-----------------------------------------------------------------------------
(* climpd_config_init and main. *)
Init ==
    /\ file \in Files
    /\ conf = Defaults
    /\ player = Applied(Defaults, FALSE)
    /\ running = FALSE
    /\ kept = Nothing

Start ==
    /\ ~ running
    /\ conf' = ConfigLoad(Defaults)
    /\ player' = Applied(conf', FALSE)
    /\ running' = TRUE
    /\ UNCHANGED <<file, kept>>

Changes(k, confValue, playerValue) ==
    /\ running
    /\ conf' = [conf EXCEPT ![k] = confValue]
    /\ player' = [player EXCEPT ![k] = playerValue]
    /\ UNCHANGED <<file, running, kept>>

(* Mutant: the configuration gets the number, not its conversion. *)
HandleVolumeInt(val) == Changes("volume", val, SetVolume(ToUInt(val)))

(* The configuration gets what was asked for, the player what is possible. *)
HandleVolume(val) == Changes("volume", ToUInt(val), SetVolume(ToUInt(val)))

(* handle_pitch, handle_speed *)
HandleFloat(k, val) == Changes(k, val, SetFloat(k, val))

(* Mutant: the configuration is not told. *)
HandleSwitchPlayer(k, b) == Changes(k, conf[k], b)

(* handle_repeat, handle_shuffle *)
HandleSwitch(k, b) == Changes(k, b, b)

HandleMute ==
    /\ running
    /\ \E b \in BOOLEAN : player' = [player EXCEPT !.mute = b]
    /\ UNCHANGED <<file, conf, running, kept>>

(* --config reads the file again, over whatever was changed since, or      *)
(* cannot open it.                                                         *)
HandleConfig ==
    /\ running
    /\ \/ conf' = ConfigLoad(conf) /\ player' = Applied(conf', player.mute)
       \/ UNCHANGED <<conf, player>>
    /\ UNCHANGED <<file, running, kept>>

(* main after the main loop: the file is truncated and written in one go.  *)
(* It may be missing or read-only (nothing happens), or the disk is full.  *)
Save ==
    \/ file' \in Written(conf) /\ kept' = player
    \/ UNCHANGED <<file, kept>>
    \/ file' = [k \in {} |-> 0] /\ kept' = Nothing

Quit ==
    /\ running
    /\ running' = FALSE
    /\ IF conf["keep"] THEN Save ELSE UNCHANGED <<file, kept>>
    /\ UNCHANGED <<conf, player>>

(* SIGKILL *)
Killed ==
    /\ running
    /\ running' = FALSE
    /\ UNCHANGED <<file, conf, player, kept>>

(* The user edits the file, whether climpd runs or not. *)
Edit ==
    /\ file' \in Files
    /\ kept' = Nothing
    /\ UNCHANGED <<conf, player, running>>

Next ==
    \/ Start \/ Quit \/ Killed \/ Edit
    \/ \E val \in Volumes : HandleVolume(val)
    \/ \E k \in Floats, val \in Numbers : HandleFloat(k, val)
    \/ \E k \in Switches, b \in BOOLEAN : HandleSwitch(k, b)
    \/ HandleMute \/ HandleConfig

Spec == Init /\ [][Next]_vars

-----------------------------------------------------------------------------
(* The volume is an unsigned int in the configuration; what the player is  *)
(* set to is always within its range.                                      *)
TypeOK ==
    /\ DOMAIN file \subseteq Keys
    /\ DOMAIN conf = Keys
    /\ conf["volume"] \in 0 .. UIntRange - 1
    /\ \A k \in Switches \cup {"keep"} : conf[k] \in BOOLEAN
    /\ player.volume \in 0 .. MaxVolume
    /\ \A k \in Floats : player[k] \in Low[k] .. High[k]
    /\ player.repeat \in BOOLEAN /\ player.shuffle \in BOOLEAN /\ player.mute \in BOOLEAN
    /\ running \in BOOLEAN

(* The configuration, which is what will be saved, and the player, which   *)
(* is what is heard, say the same whatever was set, loaded or reloaded in  *)
(* whichever order; only numbers out of range are kept as they were given. *)
PlayerMatchesConfig ==
    running => player = Applied(conf, player.mute)

(* The difference that "%.2f" makes. *)
RoundedAlike(x, y) == 2 * (x - y) \in -Grain .. Grain

AsKept ==
    /\ player'.volume = kept.volume
    /\ \A k \in Floats : RoundedAlike(player'[k], kept[k])
    /\ \A k \in Switches : player'[k] = kept[k]

(* Once the settings have been saved a new daemon, and --config, bring     *)
(* them back, whatever was changed since by a daemon that did not save.    *)
(* This excludes a volume that was given as a negative number: it is heard *)
(* as MaxVolume, written as an unsigned number, and comes back as 0.       *)
KeptSettingsSurvive ==
    [][ (Start \/ HandleConfig) /\ kept # Nothing /\ file["volume"] <= IntMax => AsKept ]_vars
=============================================================================
