---------------------------- MODULE CaptureEffects ----------------------------
(***************************************************************************)
(* The pre-processing effects of the capture stream, audio/audio_hw.c: the *)
(* slots of struct espresso_stream_in, and the auxiliary channels that are *)
(* negotiated between the table of the driver, the capture device and all  *)
(* effects of the list each time one of them changes.                      *)
(*                                                                         *)
(* Every call below holds the device's and the stream's lock, so each is   *)
(* one action.  An effect is code of another library: it remembers the     *)
(* channels it was last given, and may fail any command (those of Failing, *)
(* a parameter that only bounds TLC's runs).                               *)
(***************************************************************************)
EXTENDS Naturals, FiniteSets

CONSTANTS
    Effects, NoEffect,  \* effect handles, and the NULL handle
    ConfigsOf,          \* the channel configurations an effect reports
    Aec,                \* the effects that are echo cancellers
    Failing,            \* the effects that may fail a command
    MaxPreprocessors,   \* slots of the stream
    Devices, Mics       \* capture devices, and the ones with two microphones

\* in_aux_cnl_configs, and the one channel mask adev_open_input_stream takes.
InAuxConfigs == {[main |-> {"FRONT"}, aux |-> {"BACK"}],
                 [main |-> {"LEFT", "RIGHT"}, aux |-> {"RIGHT"}]}
MainChannels == {"LEFT", "RIGHT"}
NoAux == {}
AuxSets == {NoAux} \cup {c.aux : c \in InAuxConfigs}

ASSUME EffectsAssumption ==
    /\ NoEffect \notin Effects /\ Aec \subseteq Effects /\ Failing \subseteq Effects
    /\ ConfigsOf \in [Effects -> SUBSET InAuxConfigs]
ASSUME SlotsAssumption == MaxPreprocessors \in Nat \ {0}
ASSUME DevicesAssumption == Mics \subseteq Devices

VARIABLES
    slots,                  \* preprocessors[]: an effect and its configurations
    num_preprocessors,
    aux_channels, aux_channels_changed,
    need_echo_reference, device, standby,
    opened,                 \* the auxiliary channels the PCM was opened with
    fx,                     \* the auxiliary channels each effect was last given
    unsettled               \* effects that refused their last command, or left
                            \* the list with auxiliary channels set

list_vars   == <<slots, num_preprocessors, need_echo_reference>>
stream_vars == <<aux_channels, aux_channels_changed, device, standby, opened>>
effect_vars == <<list_vars, stream_vars, fx, unsettled>>

-----------------------------------------------------------------------------
Slots     == 1 .. MaxPreprocessors
EmptySlot == [effect |-> NoEffect, configs |-> {}]
SlotTypes == [effect : Effects \cup {NoEffect}, configs : SUBSET InAuxConfigs]

Listed(s, n) == {s[i].effect : i \in 1 .. n}

\* Mutant of the next definition: only the last effect is asked.
BugCommonLast(s, n) ==
    {c \in InAuxConfigs : c.main = MainChannels /\ n > 0 /\ c \in s[n].configs}

\* in_get_aux_channels: the rows of the table every effect of the list supports.
Common(s, n) ==
    {c \in InAuxConfigs : c.main = MainChannels /\ \A i \in 1 .. n : c \in s[i].configs}

MostComplex(C) ==
    CHOOSE c \in C : \A d \in C : Cardinality(d.aux) <= Cardinality(c.aux)

GetAuxChannels(s, n, dev) ==
    IF n = 0 \/ dev \notin Mics \/ Common(s, n) = {}
    THEN NoAux
    ELSE MostComplex(Common(s, n)).aux

\* in_configure_effect_channels on the effects of E, of which refused keep
\* what they had.  A later command (enable) may fail as well: that is an
\* error without a refusal.
Configured(f, E, aux, refused) ==
    [e \in Effects |-> IF e \in E \ refused THEN aux ELSE f[e]]

\* Mutant of the next definition: an effect added later is not told.
BugToConfigure(s, n, e, aux) == IF aux # aux_channels THEN Listed(s, n) ELSE {}

\* in_reconfigure_channels: all effects if the configuration changed, else
\* only the one being added, if there is anything to tell it.
ToConfigure(s, n, e, aux) ==
    IF aux # aux_channels THEN Listed(s, n)
    ELSE IF e # NoEffect /\ aux # NoAux THEN {e} ELSE {}

\* The end of in_update_aux_channels: a change stops the stream.  Some callers
\* stop it in any case.
ApplyAux(aux, stop) ==
    /\ aux_channels' = aux
    /\ aux_channels_changed' = (aux_channels_changed \/ aux # aux_channels)
    /\ standby' = (standby \/ aux # aux_channels \/ stop)

\* in_update_aux_channels with the list s, n on device dev, after the effect e
\* was added to it (NoEffect: after another change).  Any error in telling the
\* effects takes the auxiliary channels from all of them, errors ignored.
UpdateAuxChannels(s, n, dev, e, stop) ==
    LET aux == GetAuxChannels(s, n, dev)
        E   == ToConfigure(s, n, e, aux)
        left == {x \in Listed(slots, num_preprocessors) \ Listed(s, n) : fx[x] # NoAux}
    IN  \/ /\ fx' = Configured(fx, E, aux, {})
           /\ unsettled' = (unsettled \ E) \cup left
           /\ ApplyAux(aux, stop)
        \/ /\ E \cap Failing # {}
           /\ \E first \in SUBSET (E \cap Failing),
                 refused \in SUBSET (Listed(s, n) \cap Failing) :
                 /\ fx' = Configured(Configured(fx, E, aux, first),
                                     Listed(s, n), NoAux, refused)
                 /\ unsettled' = (unsettled \ Listed(s, n)) \cup refused \cup left
           /\ ApplyAux(NoAux, stop)

-----------------------------------------------------------------------------
EffectsInit ==
    /\ slots = [i \in Slots |-> EmptySlot] /\ num_preprocessors = 0
    /\ aux_channels = NoAux /\ aux_channels_changed = FALSE
    /\ need_echo_reference = FALSE
    /\ device \in Devices /\ standby = TRUE /\ opened = NoAux
    /\ fx = [e \in Effects |-> NoAux] /\ unsettled = {}

Appended(e, configs) ==
    [slots EXCEPT ![num_preprocessors + 1] = [effect |-> e, configs |-> configs]]

\* in_add_audio_effect.  An effect that cannot list its configurations, for
\* whatever reason, counts as one that supports none.
AddAudioEffect(e) ==
    /\ num_preprocessors < MaxPreprocessors
    /\ e \notin Listed(slots, num_preprocessors)
    /\ num_preprocessors' = num_preprocessors + 1
    /\ \E configs \in {ConfigsOf[e]} \cup (IF e \in Failing THEN {{}} ELSE {}) :
          /\ slots' = Appended(e, configs)
          /\ UpdateAuxChannels(Appended(e, configs), num_preprocessors + 1,
                               device, e, e \in Aec)
    /\ need_echo_reference' = (need_echo_reference \/ e \in Aec)
    /\ UNCHANGED <<device, opened>>

\* Mutant of the next definition: the last slot is not cleared.
BugWithoutUncleared(k) ==
    [i \in Slots |-> IF i < k \/ i >= num_preprocessors THEN slots[i] ELSE slots[i + 1]]

\* The loop of in_remove_audio_effect: the slots after the k-th move down.
Without(k) ==
    [i \in Slots |-> IF i < k \/ i > num_preprocessors THEN slots[i]
                     ELSE IF i = num_preprocessors THEN EmptySlot
                     ELSE slots[i + 1]]

\* in_remove_audio_effect.  The effect removed keeps the channels it was given.
\* It is asked what it is only afterwards, and may not answer.
RemoveAudioEffect(e) ==
    \E k \in 1 .. num_preprocessors, described \in BOOLEAN :
        /\ slots[k].effect = e
        /\ slots' = Without(k)
        /\ num_preprocessors' = num_preprocessors - 1
        /\ UpdateAuxChannels(Without(k), num_preprocessors - 1, device, NoEffect,
                             e \in Aec /\ described)
        /\ need_echo_reference' = (need_echo_reference /\ ~(e \in Aec /\ described))
        /\ UNCHANGED <<device, opened>>

\* in_set_parameters with a new routing word.
SetInDevice(dev) ==
    /\ dev # device
    /\ device' = dev
    /\ UpdateAuxChannels(slots, num_preprocessors, dev, NoEffect, TRUE)
    /\ UNCHANGED <<list_vars, opened>>

\* do_input_standby: in_standby, a new source, or a change of the mode.
DoInputStandby ==
    /\ standby' = TRUE
    /\ UNCHANGED <<list_vars, aux_channels, aux_channels_changed, device, opened,
                   fx, unsettled>>

\* start_input_stream, whose pcm_open may fail.
StartInputStream ==
    /\ standby
    /\ aux_channels_changed' = FALSE
    /\ opened' = aux_channels
    /\ standby' \in BOOLEAN
    /\ UNCHANGED <<list_vars, aux_channels, device, fx, unsettled>>

Control ==
    \/ \E e \in Effects : AddAudioEffect(e) \/ RemoveAudioEffect(e)
    \/ \E dev \in Devices : SetInDevice(dev)
    \/ DoInputStandby

EffectsNext == Control \/ StartInputStream
EffectsSpec == EffectsInit /\ [][EffectsNext]_effect_vars

-----------------------------------------------------------------------------
EffectsTypeOK ==
    /\ slots \in [Slots -> SlotTypes]
    /\ num_preprocessors \in 0 .. MaxPreprocessors
    /\ aux_channels \in AuxSets /\ opened \in AuxSets
    /\ aux_channels_changed \in BOOLEAN
    /\ need_echo_reference \in BOOLEAN /\ standby \in BOOLEAN
    /\ device \in Devices
    /\ fx \in [Effects -> AuxSets] /\ unsettled \subseteq Effects

\* in_read_audio_effect_channel_configs asserts that the slot it fills was
\* cleared.  Removals move slots down, so every slot past the list is empty,
\* and the list itself never holds an effect twice.
SlotsCleared ==
    /\ \A i \in Slots : i > num_preprocessors <=> slots[i].effect = NoEffect
    /\ \A i \in Slots : i > num_preprocessors => slots[i].configs = {}
    /\ \A i, j \in 1 .. num_preprocessors :
          slots[i].effect = slots[j].effect => i = j

\* Auxiliary channels are in use only while the device has a second microphone
\* and every effect of the list supports them, whatever was added, removed or
\* rerouted, and a running PCM is one opened with the channels in use.
AuxNegotiated ==
    /\ aux_channels # NoAux =>
          /\ num_preprocessors > 0 /\ device \in Mics
          /\ \E c \in InAuxConfigs :
                /\ c.main = MainChannels /\ c.aux = aux_channels
                /\ \A i \in 1 .. num_preprocessors : c \in slots[i].configs
    /\ ~standby => opened = aux_channels /\ ~aux_channels_changed

\* Every effect of the list works with the channels of the stream, through
\* additions, removals and refused commands that make all fall back.  Left out
\* are an effect that refused its last command, and one that had left the list
\* with auxiliary channels set: added again to a stream without them, it is not
\* told.
EffectsAgree ==
    \A e \in Listed(slots, num_preprocessors) \ unsettled : fx[e] = aux_channels
=============================================================================
