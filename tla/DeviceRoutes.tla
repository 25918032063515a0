---------------------------- MODULE DeviceRoutes ----------------------------
(***************************************************************************)
(* The routing state of the audio HAL (audio/audio_hw.c): which output and *)
(* input devices are wanted, which are active, and which device sections   *)
(* of the tiny_hw XML file currently have their "on" path applied.         *)
(*                                                                         *)
(* A device word of the code is an int of flag bits.  It is modelled as    *)
(* the set of its bit positions, so that `word & mask` is an intersection  *)
(* and the words of the output and of the input space share their low bits *)
(* exactly as they do in the code.                                         *)
(***************************************************************************)
EXTENDS Naturals

CONSTANT DevCfgs      \* the <device> sections the XML file declares

-----------------------------------------------------------------------------
(* Bit positions of the flags of the platform's audio device enumeration.  *)

EARPIECE          == 0
SPEAKER           == 1
WIRED_HEADSET     == 2
WIRED_HEADPHONE   == 3
BLUETOOTH_SCO     == 4
SCO_HEADSET       == 5
SCO_CARKIT        == 6
AUX_DIGITAL       == 10
ANLG_DOCK_HEADSET == 11
DGTL_DOCK_HEADSET == 12
BIT_IN            == 31

ALL_SCO    == {BLUETOOTH_SCO, SCO_HEADSET, SCO_CARKIT}
OutBits    == {EARPIECE, SPEAKER, WIRED_HEADSET, WIRED_HEADPHONE, AUX_DIGITAL,
               ANLG_DOCK_HEADSET, DGTL_DOCK_HEADSET} \cup ALL_SCO

\* Input words as the HAL stores them, with BIT_IN masked out.
IN_BUILTIN_MIC   == {2}
IN_SCO_HEADSET   == {3}
IN_WIRED_HEADSET == {4}
IN_BACK_MIC      == {7}
InDevices        == {IN_BUILTIN_MIC, IN_SCO_HEADSET, IN_WIRED_HEADSET, IN_BACK_MIC}

CfgNames == {"speaker", "headphone", "earpiece", "sco-out", "dock",
             "builtin-mic", "back-mic", "headset-in", "sco-in"}

ASSUME DevCfgsAssumption == DevCfgs \subseteq CfgNames

\* dev_names: the mask a section of the XML file gets.  The masks of the
\* input sections keep BIT_IN next to their low bit.  Two rows are named "dock":
\* the parser allocates a section for each and gives both paths to the second,
\* so the section with a route is the digital dock's.
Mask(cfg) ==
    CASE cfg = "speaker"     -> {SPEAKER}
      [] cfg = "headphone"   -> {WIRED_HEADSET, WIRED_HEADPHONE}
      [] cfg = "earpiece"    -> {EARPIECE}
      [] cfg = "sco-out"     -> ALL_SCO
      [] cfg = "dock"        -> {DGTL_DOCK_HEADSET}
      [] cfg = "builtin-mic" -> IN_BUILTIN_MIC \cup {BIT_IN}
      [] cfg = "back-mic"    -> IN_BACK_MIC \cup {BIT_IN}
      [] cfg = "headset-in"  -> IN_WIRED_HEADSET \cup {BIT_IN}
      [] cfg = "sco-in"      -> IN_SCO_HEADSET \cup {BIT_IN}

OutCfgs == {"speaker", "headphone", "earpiece", "sco-out", "dock"}

Touched(word) == {cfg \in DevCfgs : word \cap Mask(cfg) # {}}

-----------------------------------------------------------------------------
Routes == [out : SUBSET OutBits, in : SUBSET (0 .. 31), on : SUBSET DevCfgs,
           active_out : SUBSET OutBits, active_in : SUBSET (0 .. 31)]

\* Mutant of the next definition: only the old output device is powered down.
BugSelectOutputsOff(r) ==
    LET new == (Touched(r.out) \ Touched(r.active_out))
                   \cup (Touched(r.in) \ Touched(r.active_in))
        old == Touched(r.active_out) \ Touched(r.out)
    IN  [r EXCEPT !.on = (@ \cup new) \ old,
                  !.active_out = r.out, !.active_in = r.in]

\* select_devices: the new devices' sections are switched on first, the old
\* devices' sections off last; a section is touched by an output word and by
\* an input word alike.
SelectDevices(r) ==
    LET new == (Touched(r.out) \ Touched(r.active_out))
                   \cup (Touched(r.in) \ Touched(r.active_in))
        old == (Touched(r.active_out) \ Touched(r.out))
                   \cup (Touched(r.active_in) \ Touched(r.in))
    IN  IF r.active_out = r.out /\ r.active_in = r.in
        THEN r
        ELSE [r EXCEPT !.on = (@ \cup new) \ old,
                       !.active_out = r.out, !.active_in = r.in]

\* adev_open: the default route, selected before any PCM is opened.
DefaultRoute ==
    SelectDevices([out |-> {SPEAKER}, in |-> IN_BUILTIN_MIC, on |-> {},
                   active_out |-> {}, active_in |-> {}])
=============================================================================
