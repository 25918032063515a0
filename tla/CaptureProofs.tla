---------------------------- MODULE CaptureProofs ----------------------------
(***************************************************************************)
(* Proofs about the capture stream, for any effects, devices, number of    *)
(* slots, period and requests: the list of effects and the negotiation of  *)
(* the auxiliary channels first, then the buffers of in_read, whose steps  *)
(* are steps of the list or leave it alone, and last the frames in them.   *)
(***************************************************************************)
EXTENDS CapturePipeline, FiniteSetTheorems, SequenceTheorems, TLAPS

-----------------------------------------------------------------------------
(* The table of auxiliary channel configurations.                          *)

LEMMA AuxSetsType == NoAux \in AuxSets /\ \A c \in InAuxConfigs : c.aux \in AuxSets
BY DEF AuxSets

\* MostComplex picks a row: the rows all have one auxiliary channel.
LEMMA MostComplexPicks ==
    ASSUME NEW C \in SUBSET InAuxConfigs, C # {} PROVE MostComplex(C) \in C
<1>1. \A c \in InAuxConfigs : c.aux = {"BACK"} \/ c.aux = {"RIGHT"}
    BY DEF InAuxConfigs
<1>2. \A c \in InAuxConfigs : Cardinality(c.aux) = 1
    BY <1>1, FS_Singleton, Zenon
<1>3. PICK c \in C : TRUE
    OBVIOUS
<1>4. \A d \in C : Cardinality(d.aux) <= Cardinality(c.aux)
    BY <1>2, <1>3
<1>5. QED BY <1>3, <1>4 DEF MostComplex

\* Auxiliary channels come from a row that every effect of the list reports,
\* for a device with a second microphone.
LEMMA GetAuxChannelsIsCommon ==
    ASSUME NEW s, NEW n \in Nat, NEW dev \in Devices
    PROVE  /\ GetAuxChannels(s, n, dev) \in AuxSets
           /\ GetAuxChannels(s, n, dev) # NoAux =>
                /\ n > 0 /\ dev \in Mics
                /\ \E c \in InAuxConfigs :
                      /\ c.main = MainChannels /\ c.aux = GetAuxChannels(s, n, dev)
                      /\ \A i \in 1 .. n : c \in s[i].configs
<1>1. CASE n = 0 \/ dev \notin Mics \/ Common(s, n) = {}
    BY <1>1, AuxSetsType DEF GetAuxChannels
<1>2. CASE ~(n = 0 \/ dev \notin Mics \/ Common(s, n) = {})
    <2>1. MostComplex(Common(s, n)) \in Common(s, n)
        BY <1>2, MostComplexPicks DEF Common
    <2>2. GetAuxChannels(s, n, dev) = MostComplex(Common(s, n)).aux
        BY <1>2 DEF GetAuxChannels
    <2>3. PICK c \in InAuxConfigs : /\ c = MostComplex(Common(s, n))
                                    /\ c.main = MainChannels
                                    /\ \A i \in 1 .. n : c \in s[i].configs
        BY <2>1 DEF Common
    <2>4. GetAuxChannels(s, n, dev) = c.aux /\ c.aux \in AuxSets
        BY <2>2, <2>3, AuxSetsType
    <2>5. n > 0 /\ dev \in Mics
        BY <1>2
    <2>6. QED BY <2>3, <2>4, <2>5, Zenon
<1>3. QED BY <1>1, <1>2

-----------------------------------------------------------------------------
(* The inductive invariant of the list.  An effect outside the list has no *)
(* auxiliary channels set, unless it left the list with some or refused to *)
(* give them up: that is why adding it without telling it is enough.       *)

Current  == Listed(slots, num_preprocessors)
Unlisted == \A e \in Effects \ Current : e \in unsettled \/ fx[e] = NoAux

EInv ==
    /\ EffectsTypeOK
    /\ SlotsCleared
    /\ AuxNegotiated
    /\ EffectsAgree
    /\ Unlisted

LEMMA EffectsInitEInv == EffectsInit => EInv
<1> SUFFICES ASSUME EffectsInit PROVE EInv
    OBVIOUS
<1>1. EffectsTypeOK
    <2>1. EmptySlot \in SlotTypes
        BY DEF EmptySlot, SlotTypes
    <2>2. slots \in [Slots -> SlotTypes] /\ fx \in [Effects -> AuxSets]
        BY <2>1, AuxSetsType DEF EffectsInit
    <2>3. num_preprocessors \in 0 .. MaxPreprocessors
        BY SlotsAssumption DEF EffectsInit
    <2>4. QED BY <2>2, <2>3, AuxSetsType DEF EffectsInit, EffectsTypeOK
<1>2. 1 .. num_preprocessors = {} /\ Current = {}
    BY DEF EffectsInit, Current, Listed
<1>3. SlotsCleared
    BY <1>2 DEF EffectsInit, SlotsCleared, Slots, EmptySlot
<1>4. QED
    BY <1>1, <1>2, <1>3 DEF EInv, EffectsInit, AuxNegotiated, EffectsAgree, Unlisted, Current

\* What in_update_aux_channels leaves, for a list that lost effects or gained
\* the effect e: an agreed set of channels, and a stream that runs on only if
\* nothing changed.
LEMMA UpdateKeeps ==
    ASSUME EInv,
           NEW s \in [Slots -> SlotTypes], NEW n \in 0 .. MaxPreprocessors,
           NEW dev \in Devices, NEW e, NEW stop \in BOOLEAN,
           \/ e = NoEffect /\ Listed(s, n) \subseteq Current
           \/ e \in Effects /\ Listed(s, n) = Current \cup {e},
           Listed(s, n) \subseteq Effects,
           UpdateAuxChannels(s, n, dev, e, stop)
    PROVE  /\ aux_channels' \in AuxSets /\ aux_channels_changed' \in BOOLEAN
           /\ standby' \in BOOLEAN
           /\ fx' \in [Effects -> AuxSets] /\ unsettled' \subseteq Effects
           /\ aux_channels' # NoAux =>
                 /\ n > 0 /\ dev \in Mics
                 /\ \E c \in InAuxConfigs :
                       /\ c.main = MainChannels /\ c.aux = aux_channels'
                       /\ \A i \in 1 .. n : c \in s[i].configs
           /\ ~standby' => /\ ~standby /\ aux_channels' = aux_channels
                           /\ aux_channels_changed' = aux_channels_changed
           /\ \A x \in Listed(s, n) \ unsettled' : fx'[x] = aux_channels'
           /\ \A x \in Effects \ Listed(s, n) : x \in unsettled' \/ fx'[x] = NoAux
<1> DEFINE aux  == GetAuxChannels(s, n, dev)
           E    == ToConfigure(s, n, e, aux)
           left == {x \in Current \ Listed(s, n) : fx[x] # NoAux}
<1>1. /\ aux \in AuxSets
      /\ aux # NoAux =>
            /\ n > 0 /\ dev \in Mics
            /\ \E c \in InAuxConfigs : /\ c.main = MainChannels /\ c.aux = aux
                                       /\ \A i \in 1 .. n : c \in s[i].configs
    BY GetAuxChannelsIsCommon, SlotsAssumption
<1>2. /\ E \subseteq Listed(s, n)
      /\ aux # aux_channels => E = Listed(s, n)
      /\ aux = aux_channels /\ e \in Effects /\ aux # NoAux => E = {e}
    BY EffectsAssumption DEF ToConfigure
<1>3. /\ Current \subseteq Effects /\ fx \in [Effects -> AuxSets] /\ unsettled \subseteq Effects
      /\ aux_channels_changed \in BOOLEAN /\ standby \in BOOLEAN /\ aux_channels \in AuxSets
    <2>1. Current \subseteq Effects
        BY SlotsAssumption DEF EInv, EffectsTypeOK, SlotsCleared, Current, Listed, Slots, SlotTypes
    <2>2. QED BY <2>1 DEF EInv, EffectsTypeOK
<1>4. ASSUME NEW a \in AuxSets, ApplyAux(a, stop)
      PROVE  /\ aux_channels' = a /\ aux_channels_changed' \in BOOLEAN /\ standby' \in BOOLEAN
             /\ ~standby' => /\ ~standby /\ aux_channels' = aux_channels
                             /\ aux_channels_changed' = aux_channels_changed
    BY <1>3, <1>4 DEF ApplyAux
<1>5. left \subseteq Effects
    BY <1>3
<1>6. CASE /\ fx' = Configured(fx, E, aux, {})
           /\ unsettled' = (unsettled \ E) \cup left
           /\ ApplyAux(aux, stop)
    <2>1. \A x \in Effects : fx'[x] = IF x \in E THEN aux ELSE fx[x]
        BY <1>6 DEF Configured
    <2>2. fx' \in [Effects -> AuxSets]
        BY <1>1, <1>3, <1>6 DEF Configured
    <2>3. unsettled' \subseteq Effects
        BY <1>3, <1>5, <1>6
    <2>4. ASSUME NEW x \in Listed(s, n), x \notin unsettled' PROVE fx'[x] = aux
        <3>1. CASE x \in E
            BY <2>1, <3>1
        <3>2. CASE x \notin E /\ x \in Current
            BY <1>2, <1>3, <1>6, <2>1, <2>4, <3>2 DEF EInv, EffectsAgree, Current
        <3>3. CASE x \notin E /\ x \notin Current
            <4>1. x = e /\ e \in Effects /\ aux = NoAux
                BY <1>2, <2>4, <3>3
            <4>2. QED BY <1>6, <2>1, <2>4, <3>3, <4>1 DEF EInv, Unlisted
        <3>4. QED BY <3>1, <3>2, <3>3
    <2>5. ASSUME NEW x \in Effects \ Listed(s, n) PROVE x \in unsettled' \/ fx'[x] = NoAux
        <3>1. x \notin E /\ fx'[x] = fx[x]
            BY <1>2, <2>1
        <3>2. QED BY <1>6, <3>1 DEF EInv, Unlisted
    <2>6. QED BY <1>1, <1>4, <1>6, <2>2, <2>3, <2>4, <2>5
<1>7. CASE /\ E \cap Failing # {}
           /\ \E first \in SUBSET (E \cap Failing),
                 refused \in SUBSET (Listed(s, n) \cap Failing) :
                 /\ fx' = Configured(Configured(fx, E, aux, first),
                                     Listed(s, n), NoAux, refused)
                 /\ unsettled' = (unsettled \ Listed(s, n)) \cup refused \cup left
           /\ ApplyAux(NoAux, stop)
    <2>1. PICK first \in SUBSET (E \cap Failing),
               refused \in SUBSET (Listed(s, n) \cap Failing) :
                 /\ fx' = Configured(Configured(fx, E, aux, first),
                                     Listed(s, n), NoAux, refused)
                 /\ unsettled' = (unsettled \ Listed(s, n)) \cup refused \cup left
        BY <1>7
    <2>2. \A x \in Effects : fx'[x] = IF x \in Listed(s, n) \ refused THEN NoAux
                                      ELSE IF x \in E \ first THEN aux ELSE fx[x]
        BY <2>1 DEF Configured
    <2>3. fx' \in [Effects -> AuxSets]
        BY <1>1, <1>3, <2>1, AuxSetsType DEF Configured
    <2>4. unsettled' \subseteq Effects
        BY <1>3, <1>5, <2>1
    <2>5. \A x \in Listed(s, n) \ unsettled' : fx'[x] = NoAux
        BY <2>1, <2>2
    <2>6. ASSUME NEW x \in Effects \ Listed(s, n) PROVE x \in unsettled' \/ fx'[x] = NoAux
        <3>1. fx'[x] = fx[x]
            BY <1>2, <2>2
        <3>2. QED BY <2>1, <3>1 DEF EInv, Unlisted
    <2>7. QED BY <1>4, <1>7, <2>3, <2>4, <2>5, <2>6, AuxSetsType
<1>8. QED BY <1>6, <1>7 DEF UpdateAuxChannels, Current

\* The list after an addition: cleared past its end, and one effect longer.
LEMMA AppendedList ==
    ASSUME EInv, NEW e \in Effects, e \notin Current,
           num_preprocessors < MaxPreprocessors, NEW configs \in SUBSET InAuxConfigs
    PROVE  LET s == Appended(e, configs)
               n == num_preprocessors + 1
           IN  /\ s \in [Slots -> SlotTypes] /\ n \in 0 .. MaxPreprocessors
               /\ Listed(s, n) = Current \cup {e}
               /\ \A i \in Slots : i > n <=> s[i].effect = NoEffect
               /\ \A i \in Slots : i > n => s[i].configs = {}
               /\ \A i, j \in 1 .. n : s[i].effect = s[j].effect => i = j
<1> DEFINE s == Appended(e, configs)
           n == num_preprocessors + 1
<1>1. /\ num_preprocessors \in Nat /\ n \in 1 .. MaxPreprocessors /\ n \in Slots
      /\ slots \in [Slots -> SlotTypes] /\ MaxPreprocessors \in Nat
    BY SlotsAssumption DEF EInv, EffectsTypeOK, Slots
<1>2. [effect |-> e, configs |-> configs] \in SlotTypes
    BY DEF SlotTypes
<1>3. s \in [Slots -> SlotTypes]
    BY <1>1, <1>2 DEF Appended
<1>4. /\ s[n].effect = e /\ s[n].configs = configs
      /\ \A i \in Slots : i # n => s[i] = slots[i]
    BY <1>1 DEF Appended
<1>5. \A i \in 1 .. num_preprocessors : i \in Slots /\ i # n
    BY <1>1 DEF Slots
<1>6. Listed(s, n) = Current \cup {e}
    <2>1. 1 .. n = 1 .. num_preprocessors \cup {n}
        BY <1>1
    <2>2. QED BY <1>4, <1>5, <2>1 DEF Listed, Current
<1>7. ASSUME NEW i \in Slots PROVE /\ i > n <=> s[i].effect = NoEffect
                                   /\ i > n => s[i].configs = {}
    <2>1. i \in Nat /\ (i > n <=> i # n /\ i > num_preprocessors)
        BY <1>1 DEF Slots
    <2>2. QED BY <1>4, <2>1, EffectsAssumption DEF EInv, SlotsCleared
<1>8. ASSUME NEW i \in 1 .. n, NEW j \in 1 .. n, s[i].effect = s[j].effect PROVE i = j
    <2>1. \A k \in 1 .. n : k = n \/ k \in 1 .. num_preprocessors
        BY <1>1
    <2>2. \A k \in 1 .. num_preprocessors : s[k].effect # e
        BY <1>4, <1>5 DEF Current, Listed
    <2>3. QED BY <1>4, <1>5, <1>8, <2>1, <2>2 DEF EInv, SlotsCleared
<1>9. QED BY <1>1, <1>3, <1>6, <1>7, <1>8

\* The list after a removal: the same, and without the effect removed.
LEMMA RemovedList ==
    ASSUME EInv, NEW k \in 1 .. num_preprocessors
    PROVE  LET s == Without(k)
               n == num_preprocessors - 1
           IN  /\ s \in [Slots -> SlotTypes] /\ n \in 0 .. MaxPreprocessors
               /\ Listed(s, n) \subseteq Current
               /\ \A i \in Slots : i > n <=> s[i].effect = NoEffect
               /\ \A i \in Slots : i > n => s[i].configs = {}
               /\ \A i, j \in 1 .. n : s[i].effect = s[j].effect => i = j
<1> DEFINE s == Without(k)
           n == num_preprocessors - 1
<1>1. /\ num_preprocessors \in Nat /\ n \in Nat /\ n \in 0 .. MaxPreprocessors /\ k \in Nat
      /\ slots \in [Slots -> SlotTypes] /\ MaxPreprocessors \in Nat
      /\ num_preprocessors <= MaxPreprocessors
    BY SlotsAssumption DEF EInv, EffectsTypeOK
<1>2. EmptySlot \in SlotTypes /\ EmptySlot.effect = NoEffect /\ EmptySlot.configs = {}
    BY DEF EmptySlot, SlotTypes
<1>3. \A i \in Slots : i < num_preprocessors => i + 1 \in Slots
    BY <1>1 DEF Slots
<1>4. ASSUME NEW i \in Slots
      PROVE  /\ i > num_preprocessors => s[i] = slots[i]
             /\ i = num_preprocessors => s[i] = EmptySlot
             /\ i < num_preprocessors => s[i] = IF i < k THEN slots[i] ELSE slots[i + 1]
    BY <1>1 DEF Slots, Without
<1>5. s \in [Slots -> SlotTypes]
    <2>1. ASSUME NEW i \in Slots PROVE s[i] \in SlotTypes
        <3>1. i \in Nat
            BY DEF Slots
        <3>2. QED BY <1>1, <1>2, <1>3, <1>4, <3>1
    <2>2. QED BY <2>1 DEF Without
<1>6. ASSUME NEW i \in 1 .. n
      PROVE  LET old == IF i < k THEN i ELSE i + 1
             IN  old \in 1 .. num_preprocessors /\ old \in Slots /\ s[i] = slots[old]
    BY <1>1, <1>4 DEF Slots
<1>7. Listed(s, n) \subseteq Current
    BY <1>6 DEF Listed, Current
<1>8. ASSUME NEW i \in Slots PROVE /\ i > n <=> s[i].effect = NoEffect
                                   /\ i > n => s[i].configs = {}
    <2>1. i \in Nat /\ (i < num_preprocessors \/ i = num_preprocessors \/ i > num_preprocessors)
        BY <1>1 DEF Slots
    <2>2. CASE i < num_preprocessors
        <3>1. i \in 1 .. n /\ ~(i > n)
            BY <1>1, <2>1, <2>2 DEF Slots
        <3>2. PICK old \in 1 .. num_preprocessors : old \in Slots /\ s[i] = slots[old]
            BY <1>6, <3>1
        <3>3. ~(old > num_preprocessors)
            BY <1>1
        <3>4. QED BY <3>1, <3>2, <3>3 DEF EInv, SlotsCleared
    <2>3. CASE i = num_preprocessors
        BY <1>1, <1>2, <1>4, <2>3
    <2>4. CASE i > num_preprocessors
        <3>1. i > n
            BY <1>1, <2>1, <2>4
        <3>2. QED BY <1>4, <2>4, <3>1 DEF EInv, SlotsCleared
    <2>5. QED BY <2>1, <2>2, <2>3, <2>4
<1>9. ASSUME NEW i \in 1 .. n, NEW j \in 1 .. n, s[i].effect = s[j].effect PROVE i = j
    <2> DEFINE old(x) == IF x < k THEN x ELSE x + 1
    <2>1. old(i) \in 1 .. num_preprocessors /\ s[i] = slots[old(i)]
        BY <1>6
    <2>2. old(j) \in 1 .. num_preprocessors /\ s[j] = slots[old(j)]
        BY <1>6
    <2>3. old(i) = old(j)
        BY <1>9, <2>1, <2>2 DEF EInv, SlotsCleared
    <2>4. QED BY <1>1, <2>3
<1>10. QED BY <1>1, <1>5, <1>7, <1>8, <1>9

\* The other calls on the stream leave the list alone.
LEMMA SetInDeviceKeeps == ASSUME EInv, NEW dev \in Devices, SetInDevice(dev) PROVE EInv'
<1>1. /\ UNCHANGED list_vars /\ opened' = opened /\ device' = dev
      /\ UpdateAuxChannels(slots, num_preprocessors, dev, NoEffect, TRUE)
    BY DEF SetInDevice
<1>2. /\ slots \in [Slots -> SlotTypes] /\ num_preprocessors \in 0 .. MaxPreprocessors
      /\ Current \subseteq Effects
    BY SlotsAssumption DEF EInv, EffectsTypeOK, SlotsCleared, Current, Listed, Slots, SlotTypes
<1>3. UNCHANGED <<slots, num_preprocessors, need_echo_reference, Current>>
    BY <1>1 DEF list_vars, Current, Listed
<1>4. /\ aux_channels' \in AuxSets /\ aux_channels_changed' \in BOOLEAN /\ standby' \in BOOLEAN
      /\ fx' \in [Effects -> AuxSets] /\ unsettled' \subseteq Effects
      /\ aux_channels' # NoAux =>
            /\ num_preprocessors > 0 /\ dev \in Mics
            /\ \E c \in InAuxConfigs :
                  /\ c.main = MainChannels /\ c.aux = aux_channels'
                  /\ \A i \in 1 .. num_preprocessors : c \in slots[i].configs
      /\ ~standby' => /\ ~standby /\ aux_channels' = aux_channels
                      /\ aux_channels_changed' = aux_channels_changed
      /\ \A x \in Current \ unsettled' : fx'[x] = aux_channels'
      /\ \A x \in Effects \ Current : x \in unsettled' \/ fx'[x] = NoAux
    BY <1>1, <1>2, UpdateKeeps DEF Current
<1>5. EffectsTypeOK' /\ SlotsCleared'
    BY <1>1, <1>3, <1>4 DEF EInv, EffectsTypeOK, SlotsCleared
<1>6. AuxNegotiated'
    BY <1>1, <1>3, <1>4 DEF EInv, AuxNegotiated
<1>7. EffectsAgree' /\ Unlisted'
    BY <1>3, <1>4 DEF EffectsAgree, Unlisted, Current
<1>8. QED BY <1>5, <1>6, <1>7 DEF EInv

LEMMA AddKeeps == ASSUME EInv, NEW e \in Effects, AddAudioEffect(e) PROVE EInv'
<1>1. PICK configs \in {ConfigsOf[e]} \cup (IF e \in Failing THEN {{}} ELSE {}) :
          /\ slots' = Appended(e, configs)
          /\ UpdateAuxChannels(Appended(e, configs), num_preprocessors + 1,
                               device, e, e \in Aec)
    BY DEF AddAudioEffect
<1>2. /\ num_preprocessors < MaxPreprocessors /\ e \notin Current
      /\ num_preprocessors' = num_preprocessors + 1
      /\ need_echo_reference' \in BOOLEAN
      /\ device' = device /\ opened' = opened
    BY DEF AddAudioEffect, EInv, EffectsTypeOK, Current
<1>3. configs \in SUBSET InAuxConfigs
    BY <1>1, EffectsAssumption
<1>4. /\ slots' \in [Slots -> SlotTypes] /\ num_preprocessors' \in 0 .. MaxPreprocessors
      /\ Listed(slots', num_preprocessors') = Current \cup {e}
      /\ \A i \in Slots : i > num_preprocessors' <=> slots'[i].effect = NoEffect
      /\ \A i \in Slots : i > num_preprocessors' => slots'[i].configs = {}
      /\ \A i, j \in 1 .. num_preprocessors' :
            slots'[i].effect = slots'[j].effect => i = j
    BY <1>1, <1>2, <1>3, AppendedList
<1>5. Current' = Listed(slots', num_preprocessors') /\ Current' \subseteq Effects
    <2>1. Current \subseteq Effects
        BY SlotsAssumption DEF EInv, EffectsTypeOK, SlotsCleared, Current, Listed, Slots, SlotTypes
    <2>2. QED BY <1>4, <2>1 DEF Current, Listed
<1>6. /\ aux_channels' \in AuxSets /\ aux_channels_changed' \in BOOLEAN /\ standby' \in BOOLEAN
      /\ fx' \in [Effects -> AuxSets] /\ unsettled' \subseteq Effects
      /\ aux_channels' # NoAux =>
            /\ num_preprocessors' > 0 /\ device \in Mics
            /\ \E c \in InAuxConfigs :
                  /\ c.main = MainChannels /\ c.aux = aux_channels'
                  /\ \A i \in 1 .. num_preprocessors' : c \in slots'[i].configs
      /\ ~standby' => /\ ~standby /\ aux_channels' = aux_channels
                      /\ aux_channels_changed' = aux_channels_changed
      /\ \A x \in Current' \ unsettled' : fx'[x] = aux_channels'
      /\ \A x \in Effects \ Current' : x \in unsettled' \/ fx'[x] = NoAux
    <2>1. PICK stop \in BOOLEAN :
              UpdateAuxChannels(slots', num_preprocessors', device, e, stop)
        <3>1. UpdateAuxChannels(slots', num_preprocessors', device, e, e \in Aec)
            BY <1>1, <1>2, Zenon
        <3>2. (e \in Aec) \in BOOLEAN
            OBVIOUS
        <3>3. QED BY <3>1, <3>2, Zenon
    <2>2. device \in Devices
        BY DEF EInv, EffectsTypeOK
    <2>3. QED BY <1>4, <1>5, <2>1, <2>2, UpdateKeeps
<1>7. EffectsTypeOK' /\ SlotsCleared'
    BY <1>2, <1>4, <1>6 DEF EInv, EffectsTypeOK, SlotsCleared
<1>8. AuxNegotiated'
    BY <1>2, <1>6 DEF EInv, AuxNegotiated
<1>9. EffectsAgree' /\ Unlisted'
    BY <1>6 DEF EffectsAgree, Unlisted, Current
<1>10. QED BY <1>7, <1>8, <1>9 DEF EInv

LEMMA RemoveKeeps == ASSUME EInv, NEW e \in Effects, RemoveAudioEffect(e) PROVE EInv'
<1>1. PICK k \in 1 .. num_preprocessors, described \in BOOLEAN :
        /\ slots' = Without(k)
        /\ num_preprocessors' = num_preprocessors - 1
        /\ UpdateAuxChannels(Without(k), num_preprocessors - 1, device, NoEffect,
                             e \in Aec /\ described)
        /\ need_echo_reference' = (need_echo_reference /\ ~(e \in Aec /\ described))
        /\ UNCHANGED <<device, opened>>
    BY DEF RemoveAudioEffect
<1>2. /\ slots' \in [Slots -> SlotTypes] /\ num_preprocessors' \in 0 .. MaxPreprocessors
      /\ Listed(slots', num_preprocessors') \subseteq Current
      /\ \A i \in Slots : i > num_preprocessors' <=> slots'[i].effect = NoEffect
      /\ \A i \in Slots : i > num_preprocessors' => slots'[i].configs = {}
      /\ \A i, j \in 1 .. num_preprocessors' :
            slots'[i].effect = slots'[j].effect => i = j
    BY <1>1, RemovedList
<1>3. Current' = Listed(slots', num_preprocessors') /\ Current' \subseteq Effects
    <2>1. Current \subseteq Effects
        BY SlotsAssumption DEF EInv, EffectsTypeOK, SlotsCleared, Current, Listed, Slots, SlotTypes
    <2>2. QED BY <1>2, <2>1 DEF Current, Listed
<1>4. /\ aux_channels' \in AuxSets /\ aux_channels_changed' \in BOOLEAN /\ standby' \in BOOLEAN
      /\ fx' \in [Effects -> AuxSets] /\ unsettled' \subseteq Effects
      /\ aux_channels' # NoAux =>
            /\ num_preprocessors' > 0 /\ device \in Mics
            /\ \E c \in InAuxConfigs :
                  /\ c.main = MainChannels /\ c.aux = aux_channels'
                  /\ \A i \in 1 .. num_preprocessors' : c \in slots'[i].configs
      /\ ~standby' => /\ ~standby /\ aux_channels' = aux_channels
                      /\ aux_channels_changed' = aux_channels_changed
      /\ \A x \in Current' \ unsettled' : fx'[x] = aux_channels'
      /\ \A x \in Effects \ Current' : x \in unsettled' \/ fx'[x] = NoAux
    <2>1. PICK stop \in BOOLEAN :
              UpdateAuxChannels(slots', num_preprocessors', device, NoEffect, stop)
        BY <1>1
    <2>2. device \in Devices
        BY DEF EInv, EffectsTypeOK
    <2>3. QED BY <1>2, <1>3, <2>1, <2>2, UpdateKeeps
<1>5. EffectsTypeOK' /\ SlotsCleared'
    BY <1>1, <1>2, <1>4 DEF EInv, EffectsTypeOK, SlotsCleared
<1>6. AuxNegotiated'
    BY <1>1, <1>4 DEF EInv, AuxNegotiated
<1>7. EffectsAgree' /\ Unlisted'
    BY <1>4 DEF EffectsAgree, Unlisted, Current
<1>8. QED BY <1>5, <1>6, <1>7 DEF EInv

LEMMA NextEInv == EInv /\ [EffectsNext]_effect_vars => EInv'
<1> SUFFICES ASSUME EInv, [EffectsNext]_effect_vars PROVE EInv'
    OBVIOUS
<1> USE DEF list_vars
<1>1. CASE DoInputStandby
    BY <1>1 DEF DoInputStandby, EInv, EffectsTypeOK, SlotsCleared, AuxNegotiated,
       EffectsAgree, Unlisted, Current
<1>2. CASE StartInputStream
    BY <1>2 DEF StartInputStream, EInv, EffectsTypeOK, SlotsCleared, AuxNegotiated,
       EffectsAgree, Unlisted, Current
<1>3. CASE UNCHANGED effect_vars
    BY <1>3 DEF effect_vars, stream_vars, EInv, EffectsTypeOK, SlotsCleared, AuxNegotiated,
       EffectsAgree, Unlisted, Current
<1>4. QED BY <1>1, <1>2, <1>3, SetInDeviceKeeps, AddKeeps, RemoveKeeps DEF EffectsNext, Control

LEMMA EffectsSpecEInv == EffectsSpec => []EInv
BY EffectsInitEInv, NextEInv, PTL DEF EffectsSpec

-----------------------------------------------------------------------------
(* in_read only uses the list: its steps are steps of it or stutters.      *)

\* Whatever in_read does, at whatever point of a transfer, the list of effects
\* and the stream's channels change only as CaptureEffects says.
THEOREM PipelineKeepsList == Spec => EffectsSpec
<1>1. Init => EffectsInit
    BY DEF Init
<1>2. [Next]_vars => [EffectsNext]_effect_vars
    <2> SUFFICES ASSUME [Next]_vars PROVE [EffectsNext]_effect_vars
        OBVIOUS
    <2>1. CASE UNCHANGED vars
        BY <2>1 DEF vars
    <2>2. CASE ReadDirect \/ NextBuffer \/ ReadFails \/ Process
        BY <2>2 DEF ReadDirect, NextBuffer, ReadFails, Process
    <2>3. ASSUME NEW frames \in Requests, ReadStarting(frames) \/ ReadRunning(frames)
          PROVE  [EffectsNext]_effect_vars
        BY <2>3 DEF ReadStarting, ReadRunning, EffectsNext
    <2>4. CASE ControlCall
        BY <2>4 DEF ControlCall, EffectsNext
    <2>5. QED BY <2>1, <2>2, <2>3, <2>4 DEF Next
<1>3. QED BY <1>1, <1>2, PTL DEF Spec, EffectsSpec

LEMMA SpecEInv == Spec => []EInv
BY PipelineKeepsList, EffectsSpecEInv, PTL

-----------------------------------------------------------------------------
(* The buffers.                                                            *)

Pcs == {"idle", "direct", "read", "fill", "process"}

PInv ==
    /\ pc \in Pcs
    /\ next_frame \in Nat
    /\ read_buf \in Seq(Nat) /\ read_buf_frames \in 0 .. Len(read_buf)
    /\ proc_buf \in Seq(Nat) /\ proc_buf_size \in Nat
    /\ filled \in Seq(Nat) /\ held \in Seq(Nat) /\ out \in Seq(Nat)
    /\ request \in Nat
    /\ pc = "idle" => out = <<>> /\ filled = <<>>
    /\ pc = "fill" => /\ Len(proc_buf) + Len(filled) <= request
                      /\ request <= proc_buf_size
    /\ Len(out) <= request

LEMMA EmptySeqType == <<>> \in Seq(Nat) /\ Len(<<>>) = 0
OBVIOUS

LEMMA SubSeqType ==
    ASSUME NEW s \in Seq(Nat), NEW a \in Nat, NEW b \in Nat, a > 0, b <= Len(s)
    PROVE  /\ SubSeq(s, a, b) \in Seq(Nat)
           /\ Len(SubSeq(s, a, b)) = IF a <= b THEN b - a + 1 ELSE 0
<1>1. \A i \in a .. b : s[i] \in Nat
    <2>1. \A i \in a .. b : i \in 1 .. Len(s)
        OBVIOUS
    <2>2. QED BY <2>1, ElementOfSeq
<1>2. a \in Int /\ b \in Int
    OBVIOUS
<1>3. QED BY <1>1, <1>2, SubSeqProperties, Zenon

LEMMA ConcatType ==
    ASSUME NEW s \in Seq(Nat), NEW t \in Seq(Nat)
    PROVE  s \o t \in Seq(Nat) /\ Len(s \o t) = Len(s) + Len(t)
BY ConcatProperties

LEMMA FramesType ==
    ASSUME NEW a \in Nat, NEW n \in Nat PROVE Frames(a, n) \in Seq(Nat) /\ Len(Frames(a, n)) = n
<1>1. \A i \in 1 .. n : a + i - 1 \in Nat
    OBVIOUS
<1>2. Frames(a, n) \in [1 .. n -> Nat]
    BY <1>1 DEF Frames
<1>3. QED BY <1>2

LEMMA InitPInv == Init => PInv
BY EmptySeqType DEF Init, PInv, Pcs

\* Return and Begin, which end most steps.
LEMMA ReturnKeeps ==
    ASSUME PInv, NEW frames, NEW given_up, Return(frames, given_up)
    PROVE  /\ pc' = "idle" /\ out' = <<>> /\ filled' = <<>> /\ request' = request
           /\ Len(out') <= request'
BY EmptySeqType DEF Return, PInv

LEMMA BeginKeeps ==
    ASSUME NEW frames \in Nat, NEW kept \in Seq(Nat), NEW size \in Nat,
           Begin(frames, kept, size)
    PROVE  /\ pc' \in Pcs \ {"idle"} /\ request' = frames /\ proc_buf_size' \in Nat
           /\ pc' = "fill" => Len(kept) < frames /\ frames <= proc_buf_size'
BY DEF Begin, PathOf, SizeFor, Pcs

LEMMA StartingKeeps ==
    ASSUME PInv, NEW frames \in Requests, ReadStarting(frames) PROVE PInv'
<1>1. frames \in Nat
    BY PipelineAssumption
<1>2. UNCHANGED <<next_frame, filled, held, out>> /\ pc = "idle"
    BY DEF ReadStarting
<1>3. CASE ~standby' /\ DropBuffers /\ Begin(frames, <<>>, 0)
    <2>1. /\ pc' \in Pcs \ {"idle"} /\ request' = frames /\ proc_buf_size' \in Nat
          /\ pc' = "fill" => 0 < frames /\ frames <= proc_buf_size'
        BY <1>1, <1>3, BeginKeeps, EmptySeqType
    <2>2. read_buf' = <<>> /\ read_buf_frames' = 0 /\ proc_buf' = <<>>
        BY <1>3 DEF DropBuffers
    <2>3. Len(out) = 0 /\ Len(filled) = 0
        BY <1>2, EmptySeqType DEF PInv
    <2>4. QED BY <1>1, <1>2, <2>1, <2>2, <2>3, EmptySeqType DEF PInv
<1>4. CASE UNCHANGED <<pc, request, read_buf, read_buf_frames, proc_buf, proc_buf_size>>
    BY <1>2, <1>4 DEF PInv
<1>5. QED BY <1>3, <1>4 DEF ReadStarting

LEMMA RunningKeeps ==
    ASSUME PInv, NEW frames \in Requests, ReadRunning(frames) PROVE PInv'
<1>1. frames \in Nat /\ pc = "idle"
    BY PipelineAssumption DEF ReadRunning
<1>2. UNCHANGED <<next_frame, read_buf, read_buf_frames, proc_buf, filled, held, out>>
    BY DEF ReadRunning
<1>3. /\ pc' \in Pcs \ {"idle"} /\ request' = frames /\ proc_buf_size' \in Nat
      /\ pc' = "fill" => Len(proc_buf) < frames /\ frames <= proc_buf_size'
    BY <1>1, BeginKeeps DEF ReadRunning, PInv
<1>4. Len(out) = 0 /\ Len(filled) = 0
    BY <1>1, EmptySeqType DEF PInv
<1>5. QED BY <1>1, <1>2, <1>3, <1>4 DEF PInv

LEMMA DirectKeeps == ASSUME PInv, ReadDirect PROVE PInv'
<1>1. UNCHANGED <<read_buf, read_buf_frames, proc_buf, proc_buf_size, held>>
    BY DEF ReadDirect
<1>2. /\ next_frame' = next_frame \/ next_frame' = next_frame + request
      /\ \E frames, given_up : Return(frames, given_up)
    BY DEF ReadDirect
<1>3. /\ pc' = "idle" /\ out' = <<>> /\ filled' = <<>> /\ request' = request
      /\ Len(out') <= request'
    BY <1>2, ReturnKeeps
<1>4. QED BY <1>1, <1>2, <1>3, EmptySeqType DEF PInv, Pcs

\* One round of read_frames copies what the period has, up to what is wanted.
LEMMA NextBufferKeeps == ASSUME PInv, NextBuffer PROVE PInv'
<1>1. UNCHANGED <<proc_buf, proc_buf_size, held>> /\ pc \in {"read", "fill"}
    BY DEF NextBuffer
<1>2. PICK fresh \in BOOLEAN :
        /\ next_frame' = IF fresh THEN next_frame + Period ELSE next_frame
        /\ read_buf' = IF fresh THEN Frames(next_frame, Period) ELSE read_buf
        /\ LET rest == IF fresh THEN Period ELSE read_buf_frames
               n    == Smaller(Wanted, rest)
           IN  /\ Copied(SubSeq(Unread(read_buf', rest), 1, n))
               /\ read_buf_frames' = rest - n
    BY DEF NextBuffer
<1> DEFINE rest   == IF fresh THEN Period ELSE read_buf_frames
           n      == Smaller(Wanted, rest)
           frames == SubSeq(Unread(read_buf', rest), 1, n)
<1>3. /\ next_frame' \in Nat /\ read_buf' \in Seq(Nat)
      /\ rest \in Nat /\ rest <= Len(read_buf')
    BY <1>2, FramesType, PipelineAssumption DEF PInv
<1>4. Wanted \in Nat /\ n \in Nat /\ n <= Wanted /\ n <= rest
    BY <1>1, <1>3 DEF Wanted, Smaller, PInv
<1>5. frames \in Seq(Nat) /\ Len(frames) = n
    <2>1. Unread(read_buf', rest) \in Seq(Nat) /\ Len(Unread(read_buf', rest)) = rest
        <3>1. Len(read_buf') \in Nat /\ Len(read_buf') - rest + 1 \in Nat
            BY <1>3
        <3>2. QED BY <1>3, <3>1, SubSeqType DEF Unread
    <2>2. QED BY <1>3, <1>4, <2>1, SubSeqType
<1>6. read_buf_frames' \in 0 .. Len(read_buf')
    BY <1>2, <1>3, <1>4
<1>7. CASE pc = "read"
    <2>1. out \o frames \in Seq(Nat) /\ Len(out \o frames) <= request
        BY <1>4, <1>5, <1>7, ConcatType DEF Wanted, PInv
    <2>2. CASE Return(out \o frames, {})
        <3>1. /\ pc' = "idle" /\ out' = <<>> /\ filled' = <<>> /\ request' = request
              /\ Len(out') <= request'
            BY <2>2, ReturnKeeps
        <3>2. QED BY <1>1, <1>3, <1>6, <3>1, EmptySeqType DEF PInv, Pcs
    <2>3. CASE out' = out \o frames /\ UNCHANGED <<pc, request, filled>>
        BY <1>1, <1>3, <1>6, <1>7, <2>1, <2>3 DEF PInv, Pcs
    <2>4. QED BY <1>2, <1>7, <2>2, <2>3 DEF Copied
<1>8. CASE pc = "fill"
    <2>1. /\ filled' = filled \o frames /\ UNCHANGED <<request, out>>
          /\ pc' = IF Len(frames) = Wanted THEN "process" ELSE pc
        BY <1>2, <1>8 DEF Copied
    <2>2. filled' \in Seq(Nat) /\ Len(filled') = Len(filled) + n
        BY <1>5, <2>1, ConcatType DEF PInv
    <2>3. Len(proc_buf) + Len(filled) + n <= request /\ request <= proc_buf_size
        BY <1>4, <1>8 DEF Wanted, PInv
    <2>4. pc' \in {"process", "fill"}
        BY <1>8, <2>1
    <2>5. Len(proc_buf') + Len(filled') <= request' /\ request' <= proc_buf_size'
        <3>1. Len(proc_buf) \in Nat /\ Len(filled) \in Nat /\ n \in Nat
            BY <1>4 DEF PInv
        <3>2. QED BY <1>1, <2>1, <2>2, <2>3, <3>1
    <2>6. QED BY <1>1, <1>3, <1>6, <2>1, <2>2, <2>4, <2>5 DEF PInv, Pcs
<1>9. QED BY <1>1, <1>7, <1>8

LEMMA ReadFailsKeeps == ASSUME PInv, ReadFails PROVE PInv'
<1>1. UNCHANGED <<next_frame, read_buf, read_buf_frames, proc_buf, proc_buf_size, held>>
    BY DEF ReadFails
<1>2. /\ pc' = "idle" /\ out' = <<>> /\ filled' = <<>> /\ request' = request
      /\ Len(out') <= request'
    BY ReturnKeeps DEF ReadFails
<1>3. QED BY <1>1, <1>2, EmptySeqType DEF PInv, Pcs

\* One round of process_frames produces no more than is still asked for.
LEMMA ProcessKeeps == ASSUME PInv, Process PROVE PInv'
<1> DEFINE input == proc_buf \o filled
<1>1. UNCHANGED <<next_frame, read_buf, read_buf_frames>>
    BY DEF Process
<1>2a. PICK consumed \in 0 .. Len(input) :
        \E produced \in 0 .. Smaller(Len(held) + consumed, request - Len(out)) :
        LET inside == held \o SubSeq(input, 1, consumed)
            frames == out \o SubSeq(inside, 1, produced)
        IN  /\ proc_buf' = LeftOver(input, consumed)
            /\ held' = SubSeq(inside, produced + 1, Len(inside))
            /\ IF Len(frames) = request
               THEN Return(frames, {}) /\ UNCHANGED proc_buf_size
               ELSE /\ out' = frames /\ filled' = <<>>
                    /\ Begin(request, proc_buf', proc_buf_size)
                    /\ UNCHANGED <<last, lost, bypassed>>
    BY DEF Process
<1>2. PICK produced \in 0 .. Smaller(Len(held) + consumed, request - Len(out)) :
        LET inside == held \o SubSeq(input, 1, consumed)
            frames == out \o SubSeq(inside, 1, produced)
        IN  /\ proc_buf' = LeftOver(input, consumed)
            /\ held' = SubSeq(inside, produced + 1, Len(inside))
            /\ IF Len(frames) = request
               THEN Return(frames, {}) /\ UNCHANGED proc_buf_size
               ELSE /\ out' = frames /\ filled' = <<>>
                    /\ Begin(request, proc_buf', proc_buf_size)
                    /\ UNCHANGED <<last, lost, bypassed>>
    BY <1>2a
<1> DEFINE inside == held \o SubSeq(input, 1, consumed)
           shown  == SubSeq(inside, 1, produced)
           frames == out \o shown
<1>3. input \in Seq(Nat) /\ consumed \in Nat /\ consumed <= Len(input) /\ Len(input) \in Nat
    BY ConcatType DEF PInv
<1>4. SubSeq(input, 1, consumed) \in Seq(Nat) /\ Len(SubSeq(input, 1, consumed)) = consumed
    BY <1>3, SubSeqType
<1>4a. /\ held \in Seq(Nat) /\ out \in Seq(Nat) /\ Len(held) \in Nat /\ Len(out) \in Nat
       /\ request \in Nat /\ Len(out) <= request
    BY DEF PInv
<1>5. inside \in Seq(Nat) /\ Len(inside) = Len(held) + consumed
    BY <1>4, <1>4a, ConcatType, Zenon
<1> HIDE DEF input, inside
<1>6. /\ produced \in Nat /\ produced <= Len(inside) /\ produced <= request - Len(out)
    BY <1>3, <1>4a, <1>5 DEF Smaller
<1>7. shown \in Seq(Nat) /\ Len(shown) = produced
    BY <1>5, <1>6, SubSeqType
<1> HIDE DEF shown
<1>8. frames \in Seq(Nat) /\ Len(frames) <= request
    <2>1. frames \in Seq(Nat) /\ Len(frames) = Len(out) + Len(shown)
        BY <1>4a, <1>7, ConcatType, Zenon
    <2>2. QED BY <1>4a, <1>6, <1>7, <2>1
<1>9. proc_buf' \in Seq(Nat) /\ held' \in Seq(Nat)
    <2>1. LeftOver(input, consumed) \in Seq(Nat)
        BY <1>3, SubSeqType DEF LeftOver
    <2>2. SubSeq(inside, produced + 1, Len(inside)) \in Seq(Nat)
        <3>1. produced + 1 \in Nat /\ produced + 1 > 0 /\ Len(inside) \in Nat
            BY <1>5, <1>6
        <3>2. QED BY <1>5, <3>1, SubSeqType
    <2>3. QED BY <1>2, <2>1, <2>2 DEF input, inside
<1>10. CASE Return(frames, {}) /\ UNCHANGED proc_buf_size
    <2>1. /\ pc' = "idle" /\ out' = <<>> /\ filled' = <<>> /\ request' = request
          /\ Len(out') <= request'
        BY <1>10, ReturnKeeps
    <2>2. QED BY <1>1, <1>9, <1>10, <2>1, EmptySeqType DEF PInv, Pcs
<1>11. CASE out' = frames /\ filled' = <<>> /\ Begin(request, proc_buf', proc_buf_size)
    <2>1. /\ pc' \in Pcs \ {"idle"} /\ request' = request /\ proc_buf_size' \in Nat
          /\ pc' = "fill" => Len(proc_buf') < request /\ request <= proc_buf_size'
        BY <1>9, <1>11, BeginKeeps DEF PInv
    <2>2. Len(filled') = 0 /\ filled' \in Seq(Nat) /\ Len(proc_buf') \in Nat
        BY <1>9, <1>11, EmptySeqType
    <2>3. pc' = "fill" => Len(proc_buf') + Len(filled') <= request'
        BY <1>4a, <2>1, <2>2
    <2>4. out' \in Seq(Nat) /\ Len(out') <= request'
        BY <1>8, <1>11, <2>1
    <2>5. QED BY <1>1, <1>4a, <1>9, <2>1, <2>2, <2>3, <2>4 DEF PInv
<1>12. QED BY <1>2, <1>10, <1>11 DEF input, inside, shown

LEMMA ControlKeeps == ASSUME PInv, ControlCall PROVE PInv'
<1>1. /\ UNCHANGED <<pc, next_frame, read_buf, read_buf_frames, proc_buf,
                     proc_buf_size, filled, request, out>>
      /\ held' = <<>> \/ held' = held
    BY DEF ControlCall, buffer_vars
<1>2. QED BY <1>1, EmptySeqType DEF PInv

LEMMA SpecPInv == Spec => []PInv
<1>1. PInv /\ [Next]_vars => PInv'
    <2> SUFFICES ASSUME PInv, [Next]_vars PROVE PInv'
        OBVIOUS
    <2>1. CASE UNCHANGED vars
        BY <2>1 DEF vars, frame_vars, buffer_vars, PInv
    <2>2. QED BY <2>1, StartingKeeps, RunningKeeps, DirectKeeps, NextBufferKeeps,
             ReadFailsKeeps, ProcessKeeps, ControlKeeps DEF Next
<1>2. QED BY <1>1, InitPInv, PTL DEF Spec

-----------------------------------------------------------------------------
(* Sequences of frames: what is conserved when frames are read, handed to  *)
(* the caller or given up.                                                 *)

Ordered(s) == \A i, j \in 1 .. Len(s) : i < j => s[i] < s[j]

\* FramesConserved of the frames s, all of which are later than l and before n.
Conserved(s, l, n, g) == Ordered(s) /\ Range(s) = (l + 1 .. n - 1) \ g

LEMMA RangeType ==
    ASSUME NEW s \in Seq(Nat)
    PROVE  Range(s) \subseteq Nat /\ \A x : x \in Range(s) <=> \E i \in 1 .. Len(s) : s[i] = x
<1>1. Range(s) = {s[i] : i \in 1 .. Len(s)}
    BY RangeEquality
<1>2. QED BY <1>1, RangeOfSeq

LEMMA RangeOfEmpty == Range(<<>>) = {}
<1>1. <<>> \in Seq(Nat) /\ 1 .. Len(<<>>) = {}
    OBVIOUS
<1>2. QED BY <1>1, RangeType

LEMMA RangeOfConcat ==
    ASSUME NEW s \in Seq(Nat), NEW t \in Seq(Nat)
    PROVE  Range(s \o t) = Range(s) \cup Range(t)
BY RangeConcatenation

LEMMA RangeOfThree ==
    ASSUME NEW s \in Seq(Nat), NEW t \in Seq(Nat), NEW u \in Seq(Nat)
    PROVE  Range(s \o (t \o u)) = Range(s) \cup (Range(t) \cup Range(u))
<1>1. t \o u \in Seq(Nat) /\ Range(t \o u) = Range(t) \cup Range(u)
    BY ConcatType, RangeOfConcat
<1>2. Range(s \o (t \o u)) = Range(s) \cup Range(t \o u)
    BY <1>1, RangeOfConcat
<1>3. QED BY <1>1, <1>2, Zenon

LEMMA ConcatItems ==
    ASSUME NEW s \in Seq(Nat), NEW t \in Seq(Nat)
    PROVE  /\ Len(s) \in Nat /\ Len(t) \in Nat /\ Len(s \o t) = Len(s) + Len(t)
           /\ \A i \in 1 .. Len(s) : (s \o t)[i] = s[i]
           /\ \A i \in 1 .. Len(t) : (s \o t)[Len(s) + i] = t[i]
<1> DEFINE u == s \o t
<1>1. Len(s) \in Nat /\ Len(t) \in Nat
    OBVIOUS
<1>2. /\ Len(u) = Len(s) + Len(t)
      /\ \A i \in 1 .. Len(s) + Len(t) : u[i] = IF i <= Len(s) THEN s[i] ELSE t[i - Len(s)]
    BY ConcatProperties, Zenon
<1> HIDE DEF u
<1>3. ASSUME NEW i \in 1 .. Len(t) PROVE u[Len(s) + i] = t[i]
    <2>1. /\ Len(s) + i \in 1 .. Len(s) + Len(t) /\ ~(Len(s) + i <= Len(s))
          /\ (Len(s) + i) - Len(s) = i
        BY <1>1
    <2>2. QED BY <1>2, <2>1
<1>4. ASSUME NEW i \in 1 .. Len(s) PROVE u[i] = s[i]
    <2>1. i \in 1 .. Len(s) + Len(t) /\ i <= Len(s)
        BY <1>1
    <2>2. QED BY <1>2, <2>1
<1>5. QED BY <1>1, <1>2, <1>3, <1>4 DEF u

LEMMA ConcatOrdered ==
    ASSUME NEW s \in Seq(Nat), NEW t \in Seq(Nat)
    PROVE  Ordered(s \o t) <=>
              Ordered(s) /\ Ordered(t) /\ \A x \in Range(s), y \in Range(t) : x < y
<1> DEFINE u == s \o t
<1>1. /\ Len(s) \in Nat /\ Len(t) \in Nat /\ Len(u) = Len(s) + Len(t)
      /\ \A i \in 1 .. Len(s) : u[i] = s[i]
      /\ \A i \in 1 .. Len(t) : u[Len(s) + i] = t[i]
    BY ConcatItems, Zenon
<1> HIDE DEF u
<1>2. ASSUME Ordered(u)
      PROVE  Ordered(s) /\ Ordered(t) /\ \A x \in Range(s), y \in Range(t) : x < y
    <2>1. ASSUME NEW i \in 1 .. Len(s), NEW j \in 1 .. Len(s), i < j PROVE s[i] < s[j]
        <3>1. u[i] = s[i] /\ u[j] = s[j]
            BY <1>1, Zenon
        <3>2. 1 .. Len(s) \subseteq 1 .. Len(u)
            BY <1>1
        <3>3. i \in 1 .. Len(u) /\ j \in 1 .. Len(u)
            BY <3>2
        <3>4. QED BY <1>2, <2>1, <3>1, <3>3 DEF Ordered
    <2>2. ASSUME NEW i \in 1 .. Len(t), NEW j \in 1 .. Len(t), i < j PROVE t[i] < t[j]
        <3>1. u[Len(s) + i] = t[i] /\ u[Len(s) + j] = t[j]
            BY <1>1
        <3>2. /\ Len(s) + i \in 1 .. Len(u) /\ Len(s) + j \in 1 .. Len(u)
              /\ Len(s) + i < Len(s) + j
            BY <1>1, <2>2
        <3>3. QED BY <1>2, <3>1, <3>2 DEF Ordered
    <2>3. ASSUME NEW x \in Range(s), NEW y \in Range(t) PROVE x < y
        <3>1. PICK i \in 1 .. Len(s) : s[i] = x
            BY RangeType
        <3>2. PICK j \in 1 .. Len(t) : t[j] = y
            BY RangeType
        <3>3. u[i] = x /\ u[Len(s) + j] = y
            BY <1>1, <3>1, <3>2
        <3>4. i \in 1 .. Len(u) /\ Len(s) + j \in 1 .. Len(u) /\ i < Len(s) + j
            BY <1>1
        <3>5. QED BY <1>2, <3>3, <3>4 DEF Ordered
    <2>4. QED BY <2>1, <2>2, <2>3 DEF Ordered
<1>3. ASSUME Ordered(s), Ordered(t), \A x \in Range(s), y \in Range(t) : x < y,
             NEW i \in 1 .. Len(u), NEW j \in 1 .. Len(u), i < j
      PROVE  u[i] < u[j]
    <2>1. CASE j <= Len(s)
        <3>1. i \in 1 .. Len(s) /\ j \in 1 .. Len(s)
            BY <1>1, <1>3, <2>1
        <3>2. QED BY <1>1, <1>3, <3>1 DEF Ordered
    <2>2. CASE i <= Len(s) /\ j > Len(s)
        <3>1. /\ i \in 1 .. Len(s) /\ j - Len(s) \in 1 .. Len(t)
              /\ j = Len(s) + (j - Len(s))
            BY <1>1, <2>2
        <3>2. s[i] \in Range(s) /\ t[j - Len(s)] \in Range(t)
            BY <3>1, RangeType
        <3>3. u[i] = s[i] /\ u[j] = t[j - Len(s)]
            BY <1>1, <3>1
        <3>4. QED BY <1>3, <3>2, <3>3
    <2>3. CASE i > Len(s)
        <3>1. /\ i - Len(s) \in 1 .. Len(t) /\ j - Len(s) \in 1 .. Len(t)
              /\ i - Len(s) < j - Len(s)
              /\ i = Len(s) + (i - Len(s)) /\ j = Len(s) + (j - Len(s))
            BY <1>1, <1>3, <2>3
        <3>2. u[i] = t[i - Len(s)] /\ u[j] = t[j - Len(s)]
            BY <1>1, <3>1
        <3>3. QED BY <1>3, <3>1, <3>2 DEF Ordered
    <2>4. QED BY <1>1, <2>1, <2>2, <2>3
<1>4. QED BY <1>2, <1>3 DEF Ordered, u

LEMMA FramesAre ==
    ASSUME NEW a \in Nat, NEW n \in Nat
    PROVE  /\ Frames(a, n) \in Seq(Nat) /\ Len(Frames(a, n)) = n
           /\ Ordered(Frames(a, n)) /\ Range(Frames(a, n)) = a .. a + n - 1
<1>1. Frames(a, n) \in Seq(Nat) /\ Len(Frames(a, n)) = n
    BY FramesType
<1>2. \A i \in 1 .. n : Frames(a, n)[i] = a + i - 1
    BY DEF Frames
<1>3. Ordered(Frames(a, n))
    BY <1>1, <1>2 DEF Ordered
<1>4. \A x : x \in Range(Frames(a, n)) <=> \E i \in 1 .. n : Frames(a, n)[i] = x
    BY <1>1, RangeType
<1>5. \A x \in a .. a + n - 1 : x - a + 1 \in 1 .. n /\ a + (x - a + 1) - 1 = x
    OBVIOUS
<1>6. Range(Frames(a, n)) \subseteq a .. a + n - 1
    BY <1>2, <1>4
<1>7. a .. a + n - 1 \subseteq Range(Frames(a, n))
    BY <1>2, <1>4, <1>5
<1>8. QED BY <1>1, <1>3, <1>6, <1>7

LEMMA LastIsLargest ==
    ASSUME NEW s \in Seq(Nat), s # <<>>, Ordered(s)
    PROVE  Last(s) \in Range(s) /\ \A x \in Range(s) : x <= Last(s)
<1>1. Len(s) \in Nat \ {0}
    BY EmptySeq
<1>2. Last(s) \in Range(s)
    BY <1>1, RangeType DEF Last
<1>3. ASSUME NEW x \in Range(s) PROVE x <= Last(s)
    <2>1. PICK i \in 1 .. Len(s) : s[i] = x
        BY RangeType
    <2>2. x \in Nat /\ Last(s) \in Nat
        BY <1>2, RangeType
    <2>3. i < Len(s) => s[i] < s[Len(s)]
        BY <1>1 DEF Ordered
    <2>4. QED BY <1>1, <2>1, <2>2, <2>3 DEF Last
<1>4. QED BY <1>2, <1>3

\* A part handed to the caller.
LEMMA DeliverFirst ==
    ASSUME NEW a \in Seq(Nat), NEW b \in Seq(Nat), NEW n \in Nat, NEW l \in 0 .. n - 1,
           NEW g, Conserved(a \o b, l, n, g)
    PROVE  Conserved(b, IF a = <<>> THEN l ELSE Last(a), n, g)
<1>1. /\ Ordered(a) /\ Ordered(b) /\ \A x \in Range(a), y \in Range(b) : x < y
      /\ Range(a) \cup Range(b) = (l + 1 .. n - 1) \ g
    BY ConcatOrdered, RangeOfConcat DEF Conserved
<1>2. CASE a = <<>>
    BY <1>1, <1>2, RangeOfEmpty DEF Conserved
<1>3. CASE a # <<>>
    <2>1. Last(a) \in Range(a) /\ \A x \in Range(a) : x <= Last(a)
        BY <1>1, <1>3, LastIsLargest
    <2>2. Last(a) \in Nat /\ Last(a) > l /\ Last(a) < n
        BY <1>1, <2>1
    <2>3. \A y \in Range(b) : y \in (Last(a) + 1 .. n - 1) \ g
        BY <1>1, <2>1, <2>2
    <2>4. ASSUME NEW y \in (Last(a) + 1 .. n - 1) \ g PROVE y \in Range(b)
        <3>1. y \in (l + 1 .. n - 1) \ g
            BY <2>2
        <3>2. y \notin Range(a)
            BY <2>1, <2>2
        <3>3. QED BY <1>1, <3>1, <3>2
    <2>5. QED BY <1>1, <1>3, <2>3, <2>4 DEF Conserved
<1>4. QED BY <1>2, <1>3

\* A part given up.
LEMMA GiveUpMiddle ==
    ASSUME NEW a \in Seq(Nat), NEW b \in Seq(Nat), NEW c \in Seq(Nat), NEW l, NEW n, NEW g,
           Conserved(a \o (b \o c), l, n, g)
    PROVE  Conserved(a \o c, l, n, g \cup Range(b))
<1>1. b \o c \in Seq(Nat) /\ Range(b \o c) = Range(b) \cup Range(c)
    BY ConcatType, RangeOfConcat
<1>2. /\ Ordered(a) /\ Ordered(b \o c) /\ \A x \in Range(a), y \in Range(b \o c) : x < y
      /\ Range(a) \cup Range(b \o c) = (l + 1 .. n - 1) \ g
    BY <1>1, ConcatOrdered, RangeOfConcat DEF Conserved
<1>3. Ordered(c) /\ \A x \in Range(b), y \in Range(c) : x < y
    BY <1>2, ConcatOrdered
<1>4. Ordered(a \o c) /\ Range(a \o c) = Range(a) \cup Range(c)
    BY <1>1, <1>2, <1>3, ConcatOrdered, RangeOfConcat
<1>5. Range(a) \subseteq Nat /\ Range(b) \subseteq Nat /\ Range(c) \subseteq Nat
    BY RangeType
<1>6. \A x \in Range(b) : x \notin Range(a) /\ x \notin Range(c)
    BY <1>1, <1>2, <1>3, <1>5
<1>7. QED BY <1>1, <1>2, <1>4, <1>6 DEF Conserved

\* Frames read.
LEMMA ReadMore ==
    ASSUME NEW s \in Seq(Nat), NEW n \in Nat, NEW k \in Nat, NEW l \in 0 .. n - 1,
           NEW g, g \subseteq 0 .. n - 1, Conserved(s, l, n, g)
    PROVE  Conserved(s \o Frames(n, k), l, n + k, g)
<1>1. /\ Frames(n, k) \in Seq(Nat) /\ Ordered(Frames(n, k))
      /\ Range(Frames(n, k)) = n .. n + k - 1
    BY FramesAre
<1>2. Ordered(s) /\ Range(s) = (l + 1 .. n - 1) \ g
    BY DEF Conserved
<1>3. Ordered(s \o Frames(n, k))
    BY <1>1, <1>2, ConcatOrdered
<1>4. Range(s \o Frames(n, k)) = Range(s) \cup (n .. n + k - 1)
    BY <1>1, RangeOfConcat
<1>5. ((l + 1 .. n - 1) \ g) \cup (n .. n + k - 1) = (l + 1 .. n + k - 1) \ g
    OBVIOUS
<1>6. QED BY <1>2, <1>3, <1>4, <1>5 DEF Conserved

LEMMA ConcatEmpty ==
    ASSUME NEW s \in Seq(Nat) PROVE s \o <<>> = s /\ <<>> \o s = s
BY ConcatEmptySeq

LEMMA Associative ==
    ASSUME NEW s \in Seq(Nat), NEW t \in Seq(Nat), NEW u \in Seq(Nat)
    PROVE  (s \o t) \o u = s \o (t \o u)
BY ConcatAssociative

LEMMA SplitAt ==
    ASSUME NEW s \in Seq(Nat), NEW k \in 0 .. Len(s)
    PROVE  /\ SubSeq(s, 1, k) \in Seq(Nat) /\ SubSeq(s, k + 1, Len(s)) \in Seq(Nat)
           /\ s = SubSeq(s, 1, k) \o SubSeq(s, k + 1, Len(s))
<1>1. Len(s) \in Nat
    OBVIOUS
<1>2. SubSeq(s, 1, k) \in Seq(Nat) /\ SubSeq(s, k + 1, Len(s)) \in Seq(Nat)
    BY <1>1, SubSeqType
<1>3. 1 \in 1 .. Len(s) + 1 /\ k \in 1 - 1 .. Len(s) /\ Len(s) \in k .. Len(s)
    BY <1>1
<1>4. SubSeq(s, 1, k) \o SubSeq(s, k + 1, Len(s)) = SubSeq(s, 1, Len(s))
    BY <1>3, ConcatAdjacentSubSeq
<1>5. SubSeq(s, 1, Len(s)) = s
    BY SubSeqFull
<1>6. QED BY <1>2, <1>4, <1>5

LEMMA SubSeqItems ==
    ASSUME NEW s \in Seq(Nat), NEW a \in Nat \ {0}, NEW b \in Nat, b <= Len(s)
    PROVE  \A i \in 1 .. b - a + 1 : SubSeq(s, a, b)[i] = s[a + i - 1]
<1>1. \A i \in a .. b : s[i] \in Nat
    <2>1. \A i \in a .. b : i \in 1 .. Len(s)
        OBVIOUS
    <2>2. QED BY <2>1, ElementOfSeq
<1>2. a \in Int /\ b \in Int
    OBVIOUS
<1>3. ASSUME NEW i \in 1 .. b - a + 1 PROVE SubSeq(s, a, b)[i] = s[a + i - 1]
    BY <1>1, <1>2, SubSeqProperties, SMT
<1>4. QED BY <1>3, Zenon

LEMMA UnreadType ==
    ASSUME NEW s \in Seq(Nat), NEW r \in 0 .. Len(s)
    PROVE  /\ Unread(s, r) \in Seq(Nat) /\ Len(Unread(s, r)) = r
           /\ \A i \in 1 .. r : Unread(s, r)[i] = s[Len(s) - r + i]
<1> DEFINE a == Len(s) - r + 1
           b == Len(s)
<1>1. a \in Nat \ {0} /\ b \in Nat /\ b <= Len(s) /\ b - a + 1 = r
    OBVIOUS
<1>2. r = IF a <= b THEN b - a + 1 ELSE 0
    BY <1>1
<1>3. \A i \in 1 .. r : a + i - 1 = Len(s) - r + i
    OBVIOUS
<1>4. Unread(s, r) = SubSeq(s, a, b)
    BY DEF Unread
<1> HIDE DEF a, b
<1>5. SubSeq(s, a, b) \in Seq(Nat) /\ Len(SubSeq(s, a, b)) = IF a <= b THEN b - a + 1 ELSE 0
    BY <1>1, SubSeqType
<1>6. \A i \in 1 .. b - a + 1 : SubSeq(s, a, b)[i] = s[a + i - 1]
    BY <1>1, SubSeqItems
<1>7. \A i \in 1 .. r : SubSeq(s, a, b)[i] = s[Len(s) - r + i]
    BY <1>1, <1>3, <1>6
<1>8. QED BY <1>2, <1>4, <1>5, <1>7

\* The unread frames are those copied next and those unread after that.
LEMMA UnreadSplit ==
    ASSUME NEW s \in Seq(Nat), NEW r \in 0 .. Len(s), NEW n \in 0 .. r
    PROVE  Unread(s, r) = SubSeq(Unread(s, r), 1, n) \o Unread(s, r - n)
<1> DEFINE u == Unread(s, r)
           v == SubSeq(u, n + 1, r)
           w == Unread(s, r - n)
<1>1. u \in Seq(Nat) /\ Len(u) = r
    BY UnreadType
<1>2. \A i \in 1 .. r : u[i] = s[Len(s) - r + i]
    BY UnreadType, Zenon
<1>3. r - n \in 0 .. Len(s) /\ n + 1 \in Nat \ {0} /\ r \in Nat /\ Len(s) \in Nat
    OBVIOUS
<1>4. w \in Seq(Nat) /\ Len(w) = r - n
    BY <1>3, UnreadType
<1>5. \A i \in 1 .. r - n : w[i] = s[Len(s) - (r - n) + i]
    BY <1>3, UnreadType, Zenon
<1> HIDE DEF u, w
<1>6. v \in Seq(Nat) /\ Len(v) = IF n + 1 <= r THEN r - (n + 1) + 1 ELSE 0
    BY <1>1, <1>3, SubSeqType
<1>7. Len(v) = r - n
    BY <1>6
<1>8. \A i \in 1 .. r - (n + 1) + 1 : v[i] = u[n + 1 + i - 1]
    BY <1>1, <1>3, SubSeqItems
<1> HIDE DEF v
<1>9. ASSUME NEW i \in 1 .. r - n PROVE v[i] = w[i]
    <2>1. /\ i \in 1 .. r - (n + 1) + 1 /\ n + 1 + i - 1 = n + i /\ n + i \in 1 .. r
          /\ Len(s) - r + (n + i) = Len(s) - (r - n) + i
        BY <1>3
    <2>2. v[i] = u[n + i]
        BY <1>8, <2>1
    <2>3. u[n + i] = s[Len(s) - (r - n) + i]
        BY <1>2, <2>1
    <2>4. QED BY <1>5, <2>2, <2>3
<1>10. v = w
    BY <1>4, <1>6, <1>7, <1>9, SeqEqual
<1>11. n \in 0 .. Len(u)
    BY <1>1
<1>12. u = SubSeq(u, 1, n) \o v
    BY <1>1, <1>11, SplitAt DEF v
<1>13. QED BY <1>10, <1>12 DEF u, w

-----------------------------------------------------------------------------
(* Which buffers may hold frames on which path.                            *)

CInv ==
    /\ bypassed \in BOOLEAN
    /\ num_preprocessors = 0 => held = <<>>
    /\ pc # "idle" => ~standby
    /\ pc \in {"direct", "read"} => num_preprocessors = 0 /\ (resampler <=> pc = "read")
    /\ pc \in {"fill", "process"} => num_preprocessors > 0
    /\ pc \in {"idle", "direct", "read"} => filled = <<>>
    /\ pc \in {"idle", "direct"} => out = <<>>
    /\ ~bypassed /\ ~standby /\ num_preprocessors = 0 =>
          proc_buf = <<>> /\ (~resampler => read_buf_frames = 0)

LEMMA InitCInv == Init => CInv
BY DEF Init, EffectsInit, CInv

LEMMA BeginPath ==
    ASSUME EInv, NEW frames, NEW kept, NEW size, Begin(frames, kept, size)
    PROVE  /\ pc' \in {"direct", "read"} =>
                 num_preprocessors = 0 /\ (resampler' <=> pc' = "read")
           /\ pc' \in {"fill", "process"} => num_preprocessors > 0
           /\ pc' \in {"direct", "read", "fill", "process"}
<1>1. num_preprocessors \in Nat
    BY SlotsAssumption DEF EInv, EffectsTypeOK
<1>2. QED BY <1>1 DEF Begin, PathOf

LEMMA StartingCInv ==
    ASSUME EInv, PInv, CInv, NEW frames \in Requests, ReadStarting(frames) PROVE CInv'
<1>1. /\ UNCHANGED <<next_frame, filled, held, out>> /\ pc = "idle"
      /\ num_preprocessors' = num_preprocessors
    BY DEF ReadStarting, StartInputStream, list_vars
<1>2. filled = <<>> /\ out = <<>>
    BY <1>1 DEF PInv
<1>3. CASE ~standby' /\ DropBuffers /\ Begin(frames, <<>>, 0)
                     /\ bypassed' = (bypassed /\ held # <<>>)
    <2>1. read_buf_frames' = 0 /\ proc_buf' = <<>>
        BY <1>3 DEF DropBuffers
    <2>2. QED BY <1>1, <1>2, <1>3, <2>1, BeginPath DEF CInv
<1>4. CASE standby' /\ UNCHANGED <<pc, bypassed>>
    BY <1>1, <1>2, <1>4 DEF CInv
<1>5. QED BY <1>3, <1>4 DEF ReadStarting

LEMMA RunningCInv ==
    ASSUME EInv, PInv, CInv, NEW frames \in Requests, ReadRunning(frames) PROVE CInv'
<1>1. /\ pc = "idle" /\ ~standby /\ Begin(frames, proc_buf, proc_buf_size)
      /\ UNCHANGED <<resampler, num_preprocessors, standby, read_buf_frames, proc_buf,
                     filled, held, out, bypassed>>
    BY DEF ReadRunning, effect_vars, list_vars, stream_vars
<1>2. QED BY <1>1, BeginPath DEF CInv, PInv

LEMMA DirectCInv == ASSUME PInv, CInv, ReadDirect PROVE CInv'
<1>1. /\ UNCHANGED <<resampler, num_preprocessors, standby, read_buf_frames, proc_buf,
                     held, bypassed>>
      /\ pc' = "idle" /\ out' = <<>> /\ filled' = <<>>
    BY DEF ReadDirect, Return, effect_vars, list_vars, stream_vars
<1>2. QED BY <1>1 DEF CInv

LEMMA NextBufferCInv == ASSUME PInv, CInv, NextBuffer PROVE CInv'
<1>1. /\ pc \in {"read", "fill"}
      /\ UNCHANGED <<resampler, num_preprocessors, standby, proc_buf, held>>
    BY DEF NextBuffer, effect_vars, list_vars, stream_vars
<1>2. bypassed' = bypassed
    BY <1>1 DEF NextBuffer, Copied, Return
<1>3. CASE pc = "read"
    <2>1. \/ pc' = "idle" /\ out' = <<>> /\ filled' = <<>>
          \/ pc' = "read" /\ filled' = filled
        BY <1>3 DEF NextBuffer, Copied, Return
    <2>2. QED BY <1>1, <1>2, <1>3, <2>1 DEF CInv
<1>4. CASE pc = "fill"
    <2>1. pc' \in {"fill", "process"}
        BY <1>4 DEF NextBuffer, Copied
    <2>2. QED BY <1>1, <1>2, <1>4, <2>1 DEF CInv
<1>5. QED BY <1>1, <1>3, <1>4

LEMMA FailsCInv == ASSUME PInv, CInv, ReadFails PROVE CInv'
<1>1. /\ UNCHANGED <<resampler, num_preprocessors, standby, read_buf_frames, proc_buf,
                     held, bypassed>>
      /\ pc' = "idle" /\ out' = <<>> /\ filled' = <<>>
    BY DEF ReadFails, Return, effect_vars, list_vars, stream_vars
<1>2. QED BY <1>1 DEF CInv

LEMMA ProcessCInv == ASSUME EInv, PInv, CInv, Process PROVE CInv'
<1>1. /\ pc = "process"
      /\ UNCHANGED <<resampler, num_preprocessors, standby>>
    BY DEF Process, effect_vars, list_vars, stream_vars
<1>2. num_preprocessors > 0 /\ ~standby /\ num_preprocessors \in Nat
    BY <1>1, SlotsAssumption DEF CInv, EInv, EffectsTypeOK
<1>3. bypassed' = bypassed
    BY DEF Process, Return
<1>4. \/ pc' = "idle" /\ out' = <<>> /\ filled' = <<>>
      \/ Begin(request, proc_buf', proc_buf_size) /\ filled' = <<>>
    BY DEF Process, Return
<1>5. CASE pc' = "idle" /\ out' = <<>> /\ filled' = <<>>
    BY <1>1, <1>2, <1>3, <1>5 DEF CInv
<1>6. CASE Begin(request, proc_buf', proc_buf_size) /\ filled' = <<>>
    <2>1. pc' \in {"fill", "process"}
        BY <1>2, <1>6, BeginPath
    <2>2. QED BY <1>1, <1>2, <1>3, <1>6, <2>1 DEF CInv
<1>7. QED BY <1>4, <1>5, <1>6

LEMMA ControlStandby == ASSUME Control, standby PROVE standby'
<1>1. ASSUME NEW aux, NEW stop, ApplyAux(aux, stop) PROVE standby'
    BY <1>1 DEF ApplyAux
<1>2. ASSUME NEW s, NEW n, NEW dev, NEW e, NEW stop, UpdateAuxChannels(s, n, dev, e, stop)
      PROVE  standby'
    BY <1>1, <1>2 DEF UpdateAuxChannels
<1>3. QED BY <1>2 DEF Control, AddAudioEffect, RemoveAudioEffect, SetInDevice, DoInputStandby

LEMMA ControlCInv == ASSUME EInv, PInv, CInv, ControlCall PROVE CInv'
<1>1. /\ pc = "idle" /\ Control
      /\ UNCHANGED <<pc, resampler, read_buf_frames, proc_buf, filled, out>>
      /\ held' = IF num_preprocessors' = 0 THEN <<>> ELSE held
      /\ bypassed' = (bypassed \/ (num_preprocessors > 0 /\ num_preprocessors' = 0
                                   /\ ~standby'))
    BY DEF ControlCall, buffer_vars
<1>2. ~standby' => ~standby
    BY <1>1, ControlStandby
<1>3. num_preprocessors \in Nat
    BY SlotsAssumption DEF EInv, EffectsTypeOK
<1>4. num_preprocessors' = 0 => held' = <<>>
    BY <1>1
<1>5. ASSUME ~bypassed', ~standby', num_preprocessors' = 0
      PROVE  ~bypassed /\ ~standby /\ num_preprocessors = 0
    <2>1. ~(num_preprocessors > 0)
        BY <1>1, <1>5, Zenon
    <2>2. ~bypassed
        BY <1>1, <1>5, Zenon
    <2>3. QED BY <1>2, <1>3, <1>5, <2>1, <2>2
<1>6. bypassed' \in BOOLEAN
    BY <1>1
<1>7. pc' = "idle" /\ filled' = <<>> /\ out' = <<>>
    BY <1>1 DEF PInv
<1>8. ~bypassed' /\ ~standby' /\ num_preprocessors' = 0 =>
          proc_buf' = <<>> /\ (~resampler' => read_buf_frames' = 0)
    BY <1>1, <1>5 DEF CInv
<1>9. QED BY <1>4, <1>6, <1>7, <1>8 DEF CInv

LEMMA NextCInv == EInv /\ PInv /\ CInv /\ [Next]_vars => CInv'
<1> SUFFICES ASSUME EInv, PInv, CInv, [Next]_vars PROVE CInv'
    OBVIOUS
<1>1. CASE UNCHANGED vars
    BY <1>1 DEF vars, frame_vars, buffer_vars, effect_vars, list_vars, stream_vars, CInv
<1>2. QED BY <1>1, StartingCInv, RunningCInv, DirectCInv, NextBufferCInv, FailsCInv,
             ProcessCInv, ControlCInv DEF Next

-----------------------------------------------------------------------------
(* No frame in the buffers is younger than the last one read.              *)

BInv ==
    /\ last \in 0 .. next_frame - 1
    /\ lost \subseteq 0 .. next_frame - 1
    /\ Range(out) \subseteq 0 .. next_frame - 1
    /\ Range(held) \subseteq 0 .. next_frame - 1
    /\ Range(proc_buf) \subseteq 0 .. next_frame - 1
    /\ Range(filled) \subseteq 0 .. next_frame - 1
    /\ Range(ReadRest) \subseteq 0 .. next_frame - 1

LEMMA RestType ==
    ASSUME PInv
    PROVE  ReadRest \in Seq(Nat) /\ (read_buf_frames = 0 => ReadRest = <<>>)
<1>1. ReadRest \in Seq(Nat) /\ Len(ReadRest) = read_buf_frames
    BY UnreadType DEF PInv, ReadRest
<1>2. QED BY <1>1, EmptySeq

LEMMA LastInRange ==
    ASSUME NEW s \in Seq(Nat), s # <<>> PROVE Last(s) \in Range(s)
<1>1. Len(s) \in Nat \ {0}
    BY EmptySeq
<1>2. QED BY <1>1, RangeType DEF Last

\* Return, with frames and frames given up that are older than n.
LEMMA ReturnBounds ==
    ASSUME NEW n \in Nat, last \in 0 .. n - 1, lost \subseteq 0 .. n - 1,
           NEW frames \in Seq(Nat), Range(frames) \subseteq 0 .. n - 1,
           NEW given_up, given_up \subseteq 0 .. n - 1, Return(frames, given_up)
    PROVE  /\ last' \in 0 .. n - 1 /\ lost' \subseteq 0 .. n - 1
           /\ out' = <<>> /\ filled' = <<>>
<1>1. /\ last' = IF frames = <<>> THEN last ELSE Last(frames)
      /\ lost' = {f \in lost \cup given_up : f > last'}
      /\ out' = <<>> /\ filled' = <<>>
    BY DEF Return
<1>2. frames # <<>> => Last(frames) \in 0 .. n - 1
    BY LastInRange
<1>3. QED BY <1>1, <1>2

\* A round of read_frames, by its parts: what was unread and what is read now
\* is what is copied and what is left.
LEMMA NextBufferParts ==
    ASSUME PInv, NextBuffer
    PROVE  \E fresh \in BOOLEAN, frames \in Seq(Nat), more \in Seq(Nat) :
              /\ IF fresh THEN /\ more = Frames(next_frame, Period)
                               /\ next_frame' = next_frame + Period
                               /\ ReadRest = <<>>
                          ELSE more = <<>> /\ next_frame' = next_frame
              /\ ReadRest \o more = frames \o ReadRest'
              /\ ReadRest' \in Seq(Nat)
              /\ Copied(frames)
<1>1. PICK fresh \in BOOLEAN :
        /\ fresh <=> read_buf_frames = 0
        /\ next_frame' = IF fresh THEN next_frame + Period ELSE next_frame
        /\ read_buf' = IF fresh THEN Frames(next_frame, Period) ELSE read_buf
        /\ LET rest == IF fresh THEN Period ELSE read_buf_frames
               n    == Smaller(Wanted, rest)
           IN  /\ Copied(SubSeq(Unread(read_buf', rest), 1, n))
               /\ read_buf_frames' = rest - n
    BY DEF NextBuffer
<1> DEFINE rest   == IF fresh THEN Period ELSE read_buf_frames
           n      == Smaller(Wanted, rest)
           frames == SubSeq(Unread(read_buf', rest), 1, n)
           more   == IF fresh THEN Frames(next_frame, Period) ELSE <<>>
<1>2. /\ read_buf' \in Seq(Nat) /\ rest \in 0 .. Len(read_buf') /\ more \in Seq(Nat)
    BY <1>1, FramesType, EmptySeqType, PipelineAssumption DEF PInv
<1>3. pc \in {"read", "fill"}
    BY DEF NextBuffer
<1>4. Wanted \in Nat /\ n \in 0 .. rest
    BY <1>2, <1>3 DEF Wanted, Smaller, PInv
<1>5. ReadRest' = Unread(read_buf', rest - n) /\ ReadRest' \in Seq(Nat)
    <2>1. ReadRest' = Unread(read_buf', rest - n)
        BY <1>1 DEF ReadRest
    <2>2. rest - n \in 0 .. Len(read_buf')
        BY <1>2, <1>4
    <2>3. QED BY <1>2, <2>1, <2>2, UnreadType
<1>6. Unread(read_buf', rest) = frames \o ReadRest'
    BY <1>2, <1>4, <1>5, UnreadSplit
<1>7. frames \in Seq(Nat)
    <2>1. Unread(read_buf', rest) \in Seq(Nat) /\ Len(Unread(read_buf', rest)) = rest
        BY <1>2, UnreadType
    <2>2. n \in 0 .. Len(Unread(read_buf', rest))
        BY <1>4, <2>1
    <2>3. QED BY <2>1, <2>2, SplitAt
<1>8. Unread(read_buf', rest) = ReadRest \o more
    <2>1. CASE fresh
        <3>1. ReadRest = <<>> /\ more = Frames(next_frame, Period) /\ rest = Period
              /\ read_buf' = Frames(next_frame, Period)
            BY <1>1, <2>1, RestType
        <3>2. more \in Seq(Nat) /\ Len(more) = Period
            BY <2>1, FramesType, PipelineAssumption DEF PInv
        <3>3. Len(more) - Period + 1 = 1
            BY <3>2, PipelineAssumption
        <3>4. Unread(more, Period) = SubSeq(more, 1, Len(more))
            BY <3>3 DEF Unread
        <3>5. SubSeq(more, 1, Len(more)) = more
            BY <3>2, SubSeqFull
        <3>6. QED BY <3>1, <3>2, <3>4, <3>5, ConcatEmpty, Zenon
    <2>2. CASE ~fresh
        <3>1. more = <<>> /\ rest = read_buf_frames /\ read_buf' = read_buf
            BY <1>1, <2>2
        <3>2. QED BY <3>1, RestType, ConcatEmpty, Zenon DEF ReadRest
    <2>3. QED BY <2>1, <2>2
<1>9. /\ fresh => /\ more = Frames(next_frame, Period)
                  /\ next_frame' = next_frame + Period
                  /\ ReadRest = <<>>
      /\ ~fresh => more = <<>> /\ next_frame' = next_frame
    BY <1>1, RestType
<1>10. Copied(frames)
    BY <1>1
<1> HIDE DEF frames, more, rest, n
<1>11. QED BY <1>2, <1>5, <1>6, <1>7, <1>8, <1>9, <1>10

\* A round of process_frames, by its parts: what was in the effects and in
\* their input is what is produced and what is left in both.
LEMMA ProcessParts ==
    ASSUME PInv, Process
    PROVE  \E frames \in Seq(Nat) :
              /\ held \o (proc_buf \o filled) = frames \o (held' \o proc_buf')
              /\ \/ Return(out \o frames, {})
                 \/ /\ out' = out \o frames /\ filled' = <<>>
                    /\ UNCHANGED <<last, lost, bypassed>>
<1> DEFINE input == proc_buf \o filled
<1>1a. PICK consumed \in 0 .. Len(input) :
        \E produced \in 0 .. Smaller(Len(held) + consumed, request - Len(out)) :
        LET inside == held \o SubSeq(input, 1, consumed)
            frames == out \o SubSeq(inside, 1, produced)
        IN  /\ proc_buf' = LeftOver(input, consumed)
            /\ held' = SubSeq(inside, produced + 1, Len(inside))
            /\ IF Len(frames) = request
               THEN Return(frames, {}) /\ UNCHANGED proc_buf_size
               ELSE /\ out' = frames /\ filled' = <<>>
                    /\ Begin(request, proc_buf', proc_buf_size)
                    /\ UNCHANGED <<last, lost, bypassed>>
    BY DEF Process
<1>1. PICK produced \in 0 .. Smaller(Len(held) + consumed, request - Len(out)) :
        LET inside == held \o SubSeq(input, 1, consumed)
            frames == out \o SubSeq(inside, 1, produced)
        IN  /\ proc_buf' = LeftOver(input, consumed)
            /\ held' = SubSeq(inside, produced + 1, Len(inside))
            /\ IF Len(frames) = request
               THEN Return(frames, {}) /\ UNCHANGED proc_buf_size
               ELSE /\ out' = frames /\ filled' = <<>>
                    /\ Begin(request, proc_buf', proc_buf_size)
                    /\ UNCHANGED <<last, lost, bypassed>>
    BY <1>1a
<1> DEFINE taken  == SubSeq(input, 1, consumed)
           inside == held \o taken
           frames == SubSeq(inside, 1, produced)
<1>2. /\ held \in Seq(Nat) /\ input \in Seq(Nat) /\ Len(held) \in Nat /\ Len(out) \in Nat
      /\ request \in Nat
    BY ConcatType DEF PInv
<1>3. /\ proc_buf' = SubSeq(input, consumed + 1, Len(input))
      /\ held' = SubSeq(inside, produced + 1, Len(inside))
    BY <1>1 DEF LeftOver
<1>4. \/ Return(out \o frames, {})
      \/ /\ out' = out \o frames /\ filled' = <<>>
         /\ UNCHANGED <<last, lost, bypassed>>
    BY <1>1
<1> HIDE DEF input
<1>5. /\ taken \in Seq(Nat) /\ Len(taken) = consumed /\ proc_buf' \in Seq(Nat)
      /\ input = taken \o proc_buf'
    <2>1. consumed \in Nat /\ consumed <= Len(input)
        BY <1>2
    <2>2. taken \in Seq(Nat) /\ Len(taken) = consumed
        BY <1>2, <2>1, SubSeqType
    <2>3. QED BY <1>2, <1>3, <2>2, SplitAt
<1> HIDE DEF taken
<1>6. inside \in Seq(Nat) /\ Len(inside) = Len(held) + consumed
    BY <1>2, <1>5, ConcatType, Zenon
<1>7. produced \in 0 .. Len(inside)
    BY <1>2, <1>6 DEF Smaller
<1> HIDE DEF inside
<1>8. /\ frames \in Seq(Nat) /\ held' \in Seq(Nat)
      /\ inside = frames \o held'
    BY <1>3, <1>6, <1>7, SplitAt
<1> HIDE DEF frames
<1>9. held \o (proc_buf \o filled) = held \o (taken \o proc_buf')
    BY <1>5 DEF input
<1>10. held \o (taken \o proc_buf') = inside \o proc_buf'
    BY <1>2, <1>5, Associative DEF inside
<1>11. inside \o proc_buf' = frames \o (held' \o proc_buf')
    BY <1>5, <1>8, Associative
<1>12. QED BY <1>4, <1>8, <1>9, <1>10, <1>11, Zenon

LEMMA Wider ==
    ASSUME NEW m \in Nat, NEW n \in Nat, n >= m PROVE 0 .. m - 1 \subseteq 0 .. n - 1
OBVIOUS

LEMMA Later ==
    ASSUME NEW l \in Nat, NEW n \in Nat PROVE l + 1 .. n - 1 \subseteq 0 .. n - 1
OBVIOUS

LEMMA UnreadEmpty == Unread(<<>>, 0) = <<>>
<1>1. Len(<<>>) - 0 + 1 = 1 /\ Len(<<>>) = 0
    OBVIOUS
<1>2. SubSeq(<<>>, 1, 0) = <<>>
    BY SubSeqEmpty
<1>3. QED BY <1>1, <1>2 DEF Unread

LEMMA InitBInv == Init => BInv
<1> SUFFICES ASSUME Init PROVE BInv
    OBVIOUS
<1>1. ReadRest = <<>> /\ out = <<>> /\ held = <<>> /\ proc_buf = <<>> /\ filled = <<>>
    BY UnreadEmpty DEF Init, ReadRest
<1>2. next_frame = 1 /\ last = 0 /\ lost = {}
    BY DEF Init
<1>3. last \in 0 .. next_frame - 1 /\ lost \subseteq 0 .. next_frame - 1
    BY <1>2
<1>4. QED BY <1>1, <1>3, RangeOfEmpty, Zenon DEF BInv

LEMMA StartingBInv ==
    ASSUME PInv, BInv, NEW frames \in Requests, ReadStarting(frames) PROVE BInv'
<1>1. UNCHANGED <<next_frame, filled, held, out>>
    BY DEF ReadStarting
<1>2. next_frame \in Nat
    BY DEF PInv
<1>3. CASE DropBuffers /\ last' = IF bypassed = bypassed' THEN last ELSE next_frame - 1
    <2>1. /\ proc_buf' = <<>> /\ ReadRest' = Unread(<<>>, 0)
          /\ lost' = lost \cup Range(ReadRest) \cup Range(proc_buf)
        BY <1>3 DEF DropBuffers, ReadRest
    <2>2. Unread(<<>>, 0) = <<>>
        BY UnreadEmpty
    <2>3. last' \in 0 .. next_frame - 1
        BY <1>2, <1>3 DEF BInv
    <2>4. QED BY <1>1, <2>1, <2>2, <2>3, RangeOfEmpty DEF BInv
<1>4. CASE UNCHANGED <<read_buf, read_buf_frames, proc_buf, lost, last>>
    BY <1>1, <1>4 DEF BInv, ReadRest
<1>5. QED BY <1>3, <1>4 DEF ReadStarting

LEMMA RunningBInv ==
    ASSUME BInv, NEW frames \in Requests, ReadRunning(frames) PROVE BInv'
BY DEF ReadRunning, BInv, ReadRest

LEMMA DirectBInv == ASSUME PInv, BInv, ReadDirect PROVE BInv'
<1>1. UNCHANGED <<read_buf, read_buf_frames, proc_buf, held>>
    BY DEF ReadDirect
<1>2. PICK frames \in Seq(Nat) :
        /\ next_frame' \in Nat /\ next_frame' >= next_frame
        /\ Range(frames) \subseteq 0 .. next_frame' - 1
        /\ Return(frames, {})
    <2>1. next_frame \in Nat /\ request \in Nat
        BY DEF PInv
    <2>2. CASE next_frame' = next_frame + request /\ Return(Frames(next_frame, request), {})
        <3>1. /\ Frames(next_frame, request) \in Seq(Nat)
              /\ Range(Frames(next_frame, request)) = next_frame .. next_frame + request - 1
            BY <2>1, FramesAre
        <3>2. /\ next_frame' \in Nat /\ next_frame' >= next_frame
              /\ next_frame .. next_frame + request - 1 \subseteq 0 .. next_frame' - 1
            BY <2>1, <2>2
        <3>3. QED BY <2>2, <3>1, <3>2
    <2>3. CASE next_frame' = next_frame /\ Return(<<>>, {})
        <3>1. /\ next_frame' \in Nat /\ next_frame' >= next_frame
              /\ {} \subseteq 0 .. next_frame' - 1
            BY <2>1, <2>3
        <3>2. QED BY <2>3, <3>1, RangeOfEmpty, EmptySeqType
    <2>4. QED BY <2>2, <2>3 DEF ReadDirect
<1>3. 0 .. next_frame - 1 \subseteq 0 .. next_frame' - 1
    <2>1. next_frame \in Nat /\ next_frame' \in Nat /\ next_frame' >= next_frame
        BY <1>2 DEF PInv
    <2>2. QED BY <2>1, Wider
<1>4. last \in 0 .. next_frame' - 1 /\ lost \subseteq 0 .. next_frame' - 1
    BY <1>3 DEF BInv
<1>5. /\ last' \in 0 .. next_frame' - 1 /\ lost' \subseteq 0 .. next_frame' - 1
      /\ out' = <<>> /\ filled' = <<>>
    BY <1>2, <1>4, ReturnBounds
<1>6. ReadRest' = ReadRest
    BY <1>1 DEF ReadRest
<1>7. QED BY <1>1, <1>3, <1>5, <1>6, RangeOfEmpty DEF BInv

LEMMA NextBufferBInv == ASSUME PInv, BInv, NextBuffer PROVE BInv'
<1>1. UNCHANGED <<proc_buf, held>> /\ pc \in {"read", "fill"}
    BY DEF NextBuffer
<1>2. PICK fresh \in BOOLEAN, frames \in Seq(Nat), more \in Seq(Nat) :
              /\ IF fresh THEN /\ more = Frames(next_frame, Period)
                               /\ next_frame' = next_frame + Period
                               /\ ReadRest = <<>>
                          ELSE more = <<>> /\ next_frame' = next_frame
              /\ ReadRest \o more = frames \o ReadRest'
              /\ ReadRest' \in Seq(Nat)
              /\ Copied(frames)
    BY NextBufferParts
<1>3. next_frame \in Nat /\ next_frame' \in Nat /\ next_frame' >= next_frame
    <2>1. next_frame \in Nat /\ Period \in Nat
        BY PipelineAssumption DEF PInv
    <2>2. next_frame' = next_frame \/ next_frame' = next_frame + Period
        BY <1>2, Zenon
    <2>3. QED BY <2>1, <2>2
<1>4. 0 .. next_frame - 1 \subseteq 0 .. next_frame' - 1
    BY <1>3, Wider
<1>5. Range(more) \subseteq 0 .. next_frame' - 1
    <2>1. CASE fresh
        <3>1. Range(more) = next_frame .. next_frame + Period - 1
            BY <1>2, <1>3, <2>1, FramesAre, PipelineAssumption
        <3>2. next_frame' = next_frame + Period
            BY <1>2, <2>1
        <3>3. QED BY <1>3, <3>1, <3>2, PipelineAssumption
    <2>2. CASE ~fresh
        <3>1. more = <<>>
            BY <1>2, <2>2
        <3>2. QED BY <3>1, RangeOfEmpty
    <2>3. QED BY <2>1, <2>2
<1>6. Range(frames) \cup Range(ReadRest') = Range(ReadRest) \cup Range(more)
    <2>1. Range(ReadRest \o more) = Range(ReadRest) \cup Range(more)
        BY RestType, RangeOfConcat
    <2>2. Range(frames \o ReadRest') = Range(frames) \cup Range(ReadRest')
        BY <1>2, RangeOfConcat
    <2>3. QED BY <1>2, <2>1, <2>2, Zenon
<1>7. /\ Range(frames) \subseteq 0 .. next_frame' - 1
      /\ Range(ReadRest') \subseteq 0 .. next_frame' - 1
    BY <1>4, <1>5, <1>6 DEF BInv
<1>8. /\ last \in 0 .. next_frame' - 1 /\ lost \subseteq 0 .. next_frame' - 1
      /\ Range(out) \subseteq 0 .. next_frame' - 1
      /\ Range(filled) \subseteq 0 .. next_frame' - 1
      /\ Range(proc_buf') \subseteq 0 .. next_frame' - 1
      /\ Range(held') \subseteq 0 .. next_frame' - 1
    BY <1>1, <1>4 DEF BInv
<1>9. /\ out \o frames \in Seq(Nat) /\ filled \o frames \in Seq(Nat)
      /\ Range(out \o frames) \subseteq 0 .. next_frame' - 1
      /\ Range(filled \o frames) \subseteq 0 .. next_frame' - 1
    <2>1. out \in Seq(Nat) /\ filled \in Seq(Nat)
        BY DEF PInv
    <2>2. /\ Range(out \o frames) = Range(out) \cup Range(frames)
          /\ Range(filled \o frames) = Range(filled) \cup Range(frames)
        BY <2>1, RangeOfConcat
    <2>3. QED BY <1>7, <1>8, <2>1, <2>2, ConcatType
<1>10. /\ last' \in 0 .. next_frame' - 1 /\ lost' \subseteq 0 .. next_frame' - 1
       /\ Range(out') \subseteq 0 .. next_frame' - 1
       /\ Range(filled') \subseteq 0 .. next_frame' - 1
    <2>1. CASE Return(out \o frames, {})
        <3>1. /\ last' \in 0 .. next_frame' - 1 /\ lost' \subseteq 0 .. next_frame' - 1
              /\ out' = <<>> /\ filled' = <<>>
            BY <1>3, <1>8, <1>9, <2>1, ReturnBounds
        <3>2. QED BY <3>1, RangeOfEmpty
    <2>2. CASE out' = out \o frames /\ UNCHANGED <<filled, last, lost>>
        BY <1>8, <1>9, <2>2
    <2>3. CASE filled' = filled \o frames /\ UNCHANGED <<out, last, lost>>
        BY <1>8, <1>9, <2>3
    <2>4. QED BY <1>2, <2>1, <2>2, <2>3 DEF Copied
<1>11. QED BY <1>7, <1>8, <1>10 DEF BInv

LEMMA FailsBInv == ASSUME PInv, BInv, ReadFails PROVE BInv'
<1>1. /\ UNCHANGED <<next_frame, read_buf, read_buf_frames, proc_buf, held>>
      /\ Return(out, Range(filled)) /\ next_frame \in Nat /\ out \in Seq(Nat)
    BY DEF ReadFails, PInv
<1>2. /\ last' \in 0 .. next_frame - 1 /\ lost' \subseteq 0 .. next_frame - 1
      /\ out' = <<>> /\ filled' = <<>>
    BY <1>1, ReturnBounds DEF BInv
<1>3. QED BY <1>1, <1>2, RangeOfEmpty DEF BInv, ReadRest

LEMMA ProcessBInv == ASSUME PInv, BInv, Process PROVE BInv'
<1>1. UNCHANGED <<next_frame, read_buf, read_buf_frames>> /\ next_frame \in Nat
    BY DEF Process, PInv
<1>2. PICK frames \in Seq(Nat) :
              /\ held \o (proc_buf \o filled) = frames \o (held' \o proc_buf')
              /\ \/ Return(out \o frames, {})
                 \/ /\ out' = out \o frames /\ filled' = <<>>
                    /\ UNCHANGED <<last, lost, bypassed>>
    BY ProcessParts
<1>3. /\ held' \in Seq(Nat) /\ proc_buf' \in Seq(Nat)
      /\ held \in Seq(Nat) /\ proc_buf \in Seq(Nat) /\ filled \in Seq(Nat) /\ out \in Seq(Nat)
    BY ProcessKeeps DEF PInv
<1>4. Range(held \o (proc_buf \o filled)) = Range(held) \cup (Range(proc_buf) \cup Range(filled))
    BY <1>3, RangeOfThree
<1>5. Range(frames \o (held' \o proc_buf')) = Range(frames) \cup (Range(held') \cup Range(proc_buf'))
    BY <1>3, RangeOfThree
<1>6. /\ Range(frames) \subseteq 0 .. next_frame - 1
      /\ Range(held') \subseteq 0 .. next_frame - 1
      /\ Range(proc_buf') \subseteq 0 .. next_frame - 1
    BY <1>2, <1>4, <1>5 DEF BInv
<1>7. out \o frames \in Seq(Nat) /\ Range(out \o frames) \subseteq 0 .. next_frame - 1
    <2>1. Range(out \o frames) = Range(out) \cup Range(frames)
        BY <1>3, RangeOfConcat
    <2>2. QED BY <1>3, <1>6, <2>1, ConcatType DEF BInv
<1>8. /\ last' \in 0 .. next_frame - 1 /\ lost' \subseteq 0 .. next_frame - 1
      /\ Range(out') \subseteq 0 .. next_frame - 1 /\ filled' = <<>>
    <2>1. CASE Return(out \o frames, {})
        BY <1>1, <1>7, <2>1, ReturnBounds, RangeOfEmpty DEF BInv
    <2>2. CASE out' = out \o frames /\ filled' = <<>> /\ UNCHANGED <<last, lost>>
        BY <1>7, <2>2 DEF BInv
    <2>3. QED BY <1>2, <2>1, <2>2
<1>9. QED BY <1>1, <1>6, <1>8, RangeOfEmpty DEF BInv, ReadRest

LEMMA ControlBInv == ASSUME BInv, ControlCall PROVE BInv'
<1>1. /\ UNCHANGED <<next_frame, read_buf, read_buf_frames, proc_buf, filled, out, last>>
      /\ held' = <<>> \/ held' = held
      /\ lost' = lost \/ lost' = lost \cup Range(held)
    BY DEF ControlCall, buffer_vars
<1>2. QED BY <1>1, RangeOfEmpty DEF BInv, ReadRest

LEMMA NextBInv == PInv /\ BInv /\ [Next]_vars => BInv'
<1> SUFFICES ASSUME PInv, BInv, [Next]_vars PROVE BInv'
    OBVIOUS
<1>1. CASE UNCHANGED vars
    BY <1>1 DEF vars, frame_vars, buffer_vars, BInv, ReadRest
<1>2. QED BY <1>1, StartingBInv, RunningBInv, DirectBInv, NextBufferBInv, FailsBInv,
             ProcessBInv, ControlBInv DEF Next

-----------------------------------------------------------------------------
(* The frames of a step, in order.                                         *)

LEMMA ConservedIs ==
    FramesConserved <=> (~bypassed => Conserved(InFlight, last, next_frame, lost))
BY DEF FramesConserved, Conserved, Ordered

\* Concatenation and its sequences by names of their own: with the definition
\* hidden, rearranging is left to two facts.
Cat(s, t) == s \o t
Lists     == Seq(Nat)

LEMMA CatProperties ==
    /\ \A s, t \in Lists : Cat(s, t) \in Lists
    /\ \A s, t, u \in Lists : Cat(Cat(s, t), u) = Cat(s, Cat(t, u))
BY Associative, ConcatType DEF Cat, Lists

LEMMA CatEmpty == <<>> \in Lists /\ \A s \in Lists : Cat(s, <<>>) = s /\ Cat(<<>>, s) = s
BY EmptySeqType, ConcatEmpty DEF Cat, Lists

LEMMA CatShape ==
    ASSUME NEW a \in Lists, NEW b \in Lists, NEW c \in Lists, NEW d \in Lists,
           NEW e \in Lists
    PROVE  /\ Cat(Cat(Cat(Cat(a, b), c), d), e) = Cat(a, Cat(b, Cat(c, Cat(d, e))))
           /\ Cat(Cat(Cat(Cat(a, b), c), d), e) \in Lists
<1>1. Cat(a, b) \in Lists /\ Cat(d, e) \in Lists
    BY CatProperties
<1>2. Cat(c, Cat(d, e)) \in Lists /\ Cat(Cat(a, b), c) \in Lists
    BY <1>1, CatProperties
<1>3. Cat(Cat(Cat(a, b), c), d) \in Lists
    BY <1>2, CatProperties
<1>4. Cat(Cat(Cat(Cat(a, b), c), d), e) = Cat(Cat(Cat(a, b), c), Cat(d, e))
    BY <1>2, CatProperties
<1>5. Cat(Cat(Cat(a, b), c), Cat(d, e)) = Cat(Cat(a, b), Cat(c, Cat(d, e)))
    BY <1>1, CatProperties
<1>6. Cat(Cat(a, b), Cat(c, Cat(d, e))) = Cat(a, Cat(b, Cat(c, Cat(d, e))))
    BY <1>2, CatProperties
<1>7. Cat(Cat(Cat(Cat(a, b), c), d), e) \in Lists
    BY <1>3, CatProperties
<1>8. QED BY <1>4, <1>5, <1>6, <1>7

LEMMA Shape ==
    ASSUME NEW a \in Seq(Nat), NEW b \in Seq(Nat), NEW c \in Seq(Nat), NEW d \in Seq(Nat),
           NEW e \in Seq(Nat)
    PROVE  /\ a \o b \o c \o d \o e = a \o (b \o (c \o (d \o e)))
           /\ a \o b \o c \o d \o e \in Seq(Nat)
BY CatShape DEF Cat, Lists

LEMMA InFlightShape ==
    ASSUME PInv
    PROVE  /\ InFlight = out \o (held \o (proc_buf \o (filled \o ReadRest)))
           /\ InFlight \in Seq(Nat)
<1>1. /\ out \in Seq(Nat) /\ held \in Seq(Nat) /\ proc_buf \in Seq(Nat)
      /\ filled \in Seq(Nat) /\ ReadRest \in Seq(Nat)
    BY RestType DEF PInv
<1>2. QED BY <1>1, Shape DEF InFlight

\* Return hands over the first frames, and later ones may be given up.
LEMMA ReturnConserves ==
    ASSUME NEW a \in Seq(Nat), NEW b \in Seq(Nat), NEW n \in Nat, last \in 0 .. n - 1,
           NEW given_up, Return(a, given_up), lost \cup given_up \subseteq 0 .. n - 1,
           Range(a) \subseteq 0 .. n - 1,
           Conserved(a \o b, last, n, lost \cup given_up)
    PROVE  Conserved(b, last', n, lost')
<1>1. /\ last' = IF a = <<>> THEN last ELSE Last(a)
      /\ lost' = {f \in lost \cup given_up : f > last'}
    BY DEF Return
<1>2. Conserved(b, last', n, lost \cup given_up)
    BY <1>1, DeliverFirst
<1>3. last' \in Nat
    BY <1>1, LastInRange
<1>4. (last' + 1 .. n - 1) \ (lost \cup given_up) = (last' + 1 .. n - 1) \ lost'
    BY <1>1, <1>3
<1>5. QED BY <1>2, <1>4 DEF Conserved

FInv == PInv /\ CInv /\ BInv /\ FramesConserved

LEMMA InitConserved == Init => FramesConserved
<1> SUFFICES ASSUME Init PROVE FramesConserved
    OBVIOUS
<1>1. out = <<>> /\ held = <<>> /\ proc_buf = <<>> /\ filled = <<>> /\ ReadRest = <<>>
    BY UnreadEmpty DEF Init, ReadRest
<1>2. InFlight = <<>>
    BY <1>1, EmptySeqType, ConcatEmpty DEF InFlight
<1>3. last = 0 /\ next_frame = 1 /\ lost = {}
    BY DEF Init
<1>4. (last + 1 .. next_frame - 1) \ lost = {}
    BY <1>3
<1>5. 1 .. Len(InFlight) = {}
    BY <1>2, EmptySeqType
<1>6. QED BY <1>2, <1>4, <1>5, RangeOfEmpty DEF FramesConserved

LEMMA EmptyConserved ==
    ASSUME NEW n \in Nat, NEW l, NEW g, (l + 1 .. n - 1) \ g = {} PROVE Conserved(<<>>, l, n, g)
<1>1. 1 .. Len(<<>>) = {}
    BY EmptySeqType
<1>2. QED BY <1>1, RangeOfEmpty DEF Conserved, Ordered

\* At the start of a stream the effects may hold frames, the buffers do not.
LEMMA StartingConserves ==
    ASSUME FInv, NEW frames \in Requests, ReadStarting(frames) PROVE FramesConserved'
<1>1. UNCHANGED <<next_frame, filled, held, out>> /\ out = <<>> /\ filled = <<>>
    BY DEF ReadStarting, FInv, PInv
<1>2. /\ next_frame \in Nat /\ held \in Seq(Nat) /\ proc_buf \in Seq(Nat)
      /\ ReadRest \in Seq(Nat) /\ <<>> \in Seq(Nat)
    BY RestType, EmptySeqType DEF FInv, PInv
<1>3. CASE /\ DropBuffers /\ bypassed' = (bypassed /\ held # <<>>)
           /\ last' = IF bypassed = bypassed' THEN last ELSE next_frame - 1
    <2>1. /\ proc_buf' = <<>> /\ ReadRest' = <<>>
          /\ lost' = lost \cup Range(ReadRest) \cup Range(proc_buf)
        BY <1>3, UnreadEmpty DEF DropBuffers, ReadRest
    <2>2. InFlight' = held
        <3>1. InFlight' = <<>> \o held \o <<>> \o <<>> \o <<>>
            BY <1>1, <2>1 DEF InFlight
        <3>2. <<>> \o held = held /\ held \o <<>> = held
            BY <1>2, ConcatEmpty
        <3>3. QED BY <3>1, <3>2, Zenon
    <2>3. SUFFICES ASSUME ~bypassed' PROVE Conserved(InFlight', last', next_frame', lost')
        BY DEF FramesConserved, Conserved, Ordered
    <2>4. CASE bypassed
        <3>1. held = <<>> /\ last' = next_frame - 1
            BY <1>3, <2>3, <2>4
        <3>2. (last' + 1 .. next_frame - 1) \ lost' = {}
            BY <1>2, <3>1
        <3>3. QED BY <1>1, <1>2, <2>2, <3>1, <3>2, EmptyConserved
    <2>5. CASE ~bypassed
        <3>1. last' = last
            BY <1>3, <2>3, <2>5 DEF FInv, CInv
        <3>2. Conserved(InFlight, last, next_frame, lost)
            BY <2>5, ConservedIs DEF FInv
        <3>3. InFlight = held \o ((proc_buf \o ReadRest) \o <<>>)
            <4>1. InFlight = <<>> \o (held \o (proc_buf \o (<<>> \o ReadRest)))
                BY <1>1, InFlightShape, Zenon DEF FInv
            <4>2. <<>> \o ReadRest = ReadRest
                BY <1>2, ConcatEmpty
            <4>3. /\ proc_buf \o ReadRest \in Seq(Nat)
                  /\ held \o (proc_buf \o ReadRest) \in Seq(Nat)
                BY <1>2, ConcatType
            <4>4. /\ <<>> \o (held \o (proc_buf \o ReadRest)) = held \o (proc_buf \o ReadRest)
                  /\ (proc_buf \o ReadRest) \o <<>> = proc_buf \o ReadRest
                BY <4>3, ConcatEmpty
            <4>5. QED BY <4>1, <4>2, <4>4, Zenon
        <3>4. proc_buf \o ReadRest \in Seq(Nat)
            BY <1>2, ConcatType
        <3>5. Conserved(held \o <<>>, last, next_frame, lost \cup Range(proc_buf \o ReadRest))
            BY <1>2, <3>2, <3>3, <3>4, GiveUpMiddle, Zenon
        <3>6. lost \cup Range(proc_buf \o ReadRest) = lost'
            BY <1>2, <2>1, RangeOfConcat
        <3>7. held \o <<>> = held
            BY <1>2, ConcatEmpty
        <3>8. QED BY <1>1, <2>2, <3>1, <3>5, <3>6, <3>7
    <2>6. QED BY <2>4, <2>5
<1>4. CASE UNCHANGED <<read_buf, read_buf_frames, proc_buf, lost, bypassed, last>>
    BY <1>1, <1>4 DEF FInv, FramesConserved, InFlight, ReadRest
<1>5. QED BY <1>3, <1>4 DEF ReadStarting

LEMMA RunningConserves ==
    ASSUME FInv, NEW frames \in Requests, ReadRunning(frames) PROVE FramesConserved'
BY DEF ReadRunning, FInv, FramesConserved, InFlight, ReadRest

\* Without effects and resampler the buffers are empty.
LEMMA DirectConserves == ASSUME FInv, ReadDirect PROVE FramesConserved'
<1> SUFFICES ASSUME ~bypassed' PROVE Conserved(InFlight', last', next_frame', lost')
    BY DEF FramesConserved, Conserved, Ordered
<1>1. /\ UNCHANGED <<read_buf, read_buf_frames, proc_buf, held, bypassed>>
      /\ pc = "direct" /\ out' = <<>> /\ filled' = <<>>
    BY DEF ReadDirect, Return
<1>2. out = <<>> /\ held = <<>> /\ proc_buf = <<>> /\ filled = <<>> /\ read_buf_frames = 0
    BY <1>1 DEF FInv, CInv
<1>3. ReadRest = <<>> /\ ReadRest' = <<>>
    BY <1>1, <1>2, RestType DEF FInv, ReadRest
<1>4. InFlight = <<>> /\ InFlight' = <<>>
    BY <1>1, <1>2, <1>3, EmptySeqType, ConcatEmpty DEF InFlight
<1>5. Conserved(<<>>, last, next_frame, lost)
    BY <1>1, <1>4, ConservedIs DEF FInv
<1>6. next_frame \in Nat /\ request \in Nat /\ last \in 0 .. next_frame - 1
      /\ lost \subseteq 0 .. next_frame - 1
    BY DEF FInv, PInv, BInv
<1>7. CASE next_frame' = next_frame + request /\ Return(Frames(next_frame, request), {})
    <2> DEFINE new == Frames(next_frame, request)
    <2>1. new \in Seq(Nat) /\ Range(new) = next_frame .. next_frame + request - 1
        BY <1>6, FramesAre
    <2>2. Conserved(<<>> \o new, last, next_frame + request, lost)
        BY <1>5, <1>6, EmptySeqType, ReadMore
    <2>3. <<>> \o new = new /\ new \o <<>> = new
        BY <2>1, ConcatEmpty
    <2>4. lost \cup {} = lost
        OBVIOUS
    <2>5. /\ next_frame' \in Nat /\ last \in 0 .. next_frame' - 1
          /\ lost \cup {} \subseteq 0 .. next_frame' - 1
        <3>1. next_frame' \in Nat /\ next_frame' >= next_frame
            BY <1>6, <1>7
        <3>2. QED BY <1>6, <3>1, Wider
    <2>6. Range(new) \subseteq 0 .. next_frame' - 1
        BY <1>6, <1>7, <2>1
    <2> HIDE DEF new
    <2>7. Conserved(new \o <<>>, last, next_frame', lost \cup {})
        BY <1>7, <2>2, <2>3, <2>4
    <2>8. Return(new, {})
        BY <1>7 DEF new
    <2>9. Conserved(<<>>, last', next_frame', lost')
        BY <2>1, <2>5, <2>6, <2>7, <2>8, EmptySeqType, ReturnConserves
    <2>10. QED BY <1>4, <2>9
<1>8. CASE next_frame' = next_frame /\ Return(<<>>, {})
    <2>1. Conserved(<<>> \o <<>>, last, next_frame, lost \cup {})
        BY <1>5, EmptySeqType, ConcatEmpty
    <2>2. Conserved(<<>>, last', next_frame, lost')
        BY <1>6, <1>8, <2>1, EmptySeqType, RangeOfEmpty, ReturnConserves
    <2>3. QED BY <1>4, <1>8, <2>2
<1>9. QED BY <1>7, <1>8 DEF ReadDirect

LEMMA NextBufferConserves == ASSUME FInv, NextBuffer PROVE FramesConserved'
<1> SUFFICES ASSUME ~bypassed' PROVE Conserved(InFlight', last', next_frame', lost')
    BY DEF FramesConserved, Conserved, Ordered
<1>1. /\ UNCHANGED <<proc_buf, held, num_preprocessors, standby>> /\ pc \in {"read", "fill"}
      /\ bypassed' = bypassed
    BY DEF NextBuffer, Copied, Return, effect_vars, list_vars, stream_vars
<1>2. PICK fresh \in BOOLEAN, frames \in Seq(Nat), more \in Seq(Nat) :
              /\ IF fresh THEN /\ more = Frames(next_frame, Period)
                               /\ next_frame' = next_frame + Period
                               /\ ReadRest = <<>>
                          ELSE more = <<>> /\ next_frame' = next_frame
              /\ ReadRest \o more = frames \o ReadRest'
              /\ ReadRest' \in Seq(Nat)
              /\ Copied(frames)
    BY NextBufferParts DEF FInv
<1>3. /\ out \in Seq(Nat) /\ held \in Seq(Nat) /\ proc_buf \in Seq(Nat)
      /\ filled \in Seq(Nat) /\ ReadRest \in Seq(Nat) /\ InFlight \in Seq(Nat)
    BY RestType, InFlightShape DEF FInv, PInv
<1>3a. /\ out \in Lists /\ held \in Lists /\ proc_buf \in Lists /\ filled \in Lists
       /\ ReadRest \in Lists /\ more \in Lists /\ frames \in Lists /\ ReadRest' \in Lists
    BY <1>2, <1>3, Zenon DEF Lists
<1>4. next_frame \in Nat /\ last \in 0 .. next_frame - 1 /\ lost \subseteq 0 .. next_frame - 1
    BY DEF FInv, PInv, BInv
<1>5. Conserved(InFlight \o more, last, next_frame', lost)
    <2>1. Conserved(InFlight, last, next_frame, lost)
        BY <1>1, ConservedIs DEF FInv
    <2>2. CASE fresh
        <3>1. more = Frames(next_frame, Period) /\ next_frame' = next_frame + Period
            BY <1>2, <2>2, Zenon
        <3>2. Conserved(InFlight \o Frames(next_frame, Period), last, next_frame + Period, lost)
            BY <1>3, <1>4, <2>1, PipelineAssumption, ReadMore
        <3>3. QED BY <3>1, <3>2, Zenon
    <2>3. CASE ~fresh
        <3>1. more = <<>> /\ next_frame' = next_frame
            BY <1>2, <2>3, Zenon
        <3>2. QED BY <1>3, <2>1, <3>1, ConcatEmpty
    <2>4. QED BY <2>2, <2>3
<1> DEFINE early == out \o held \o proc_buf
<1>6. /\ early \in Lists /\ Cat(early, filled) \in Lists
      /\ InFlight \o more = Cat(Cat(early, filled), Cat(frames, ReadRest'))
    <2>1. Cat(out, held) \in Lists
        BY <1>3a, CatProperties
    <2>2. Cat(Cat(out, held), proc_buf) \in Lists
        BY <1>3a, <2>1, CatProperties
    <2>3. early \in Lists
        BY <2>2, Zenon DEF Cat
    <2>4. InFlight = Cat(Cat(early, filled), ReadRest)
        BY Zenon DEF InFlight, Cat
    <2>5. Cat(ReadRest, more) = Cat(frames, ReadRest')
        BY <1>2, Zenon DEF Cat
    <2> HIDE DEF early
    <2>6. Cat(early, filled) \in Lists
        BY <1>3a, <2>3, CatProperties
    <2>7. Cat(Cat(Cat(early, filled), ReadRest), more)
            = Cat(Cat(early, filled), Cat(ReadRest, more))
        BY <1>3a, <2>6, CatProperties
    <2>8. Cat(InFlight, more) = Cat(Cat(early, filled), Cat(frames, ReadRest'))
        BY <2>4, <2>5, <2>7, Zenon
    <2>9. QED BY <2>3, <2>6, <2>8, Zenon DEF Cat
<1>7. CASE pc = "fill"
    <2>1. filled' = filled \o frames /\ UNCHANGED <<out, last, lost>>
        BY <1>2, <1>7 DEF Copied
    <2>2. InFlight' = Cat(Cat(early, Cat(filled, frames)), ReadRest')
        BY <1>1, <2>1, Zenon DEF InFlight, Cat
    <2> HIDE DEF early
    <2>3. Cat(Cat(early, filled), Cat(frames, ReadRest'))
            = Cat(Cat(Cat(early, filled), frames), ReadRest')
        BY <1>3a, <1>6, CatProperties
    <2>4. Cat(Cat(early, filled), frames) = Cat(early, Cat(filled, frames))
        BY <1>3a, <1>6, CatProperties
    <2>5. InFlight' = InFlight \o more
        BY <1>6, <2>2, <2>3, <2>4, Zenon
    <2>6. QED BY <1>5, <2>1, <2>5
<1>8. CASE pc = "read"
    <2>1. held = <<>> /\ proc_buf = <<>> /\ filled = <<>>
        BY <1>1, <1>8 DEF FInv, CInv
    <2>2. /\ frames \o ReadRest' \in Seq(Nat) /\ out \o frames \in Seq(Nat)
          /\ <<>> \in Seq(Nat)
        BY <1>2, <1>3, ConcatType, EmptySeqType
    <2>3. InFlight \o more = (out \o frames) \o ReadRest'
        <3>1. out \o <<>> = out
            BY <1>3, ConcatEmpty
        <3>2. Cat(early, filled) = out
            BY <2>1, <3>1, Zenon DEF Cat
        <3>3. Cat(Cat(out, frames), ReadRest') = Cat(out, Cat(frames, ReadRest'))
            BY <1>3a, CatProperties
        <3>4. QED BY <1>6, <3>2, <3>3, Zenon DEF Cat
    <2>4. held' = <<>> /\ proc_buf' = <<>>
        BY <1>1, <2>1
    <2>5. CASE Return(out \o frames, {})
        <3>1. out' = <<>> /\ filled' = <<>>
            BY <2>5 DEF Return
        <3>2. InFlight' = ReadRest'
            <4>1. InFlight' = <<>> \o <<>> \o <<>> \o <<>> \o ReadRest'
                BY <2>4, <3>1 DEF InFlight
            <4>2. <<>> \o <<>> = <<>> /\ <<>> \o ReadRest' = ReadRest'
                BY <1>2, <2>2, ConcatEmpty
            <4>3. QED BY <4>1, <4>2, Zenon
        <3>3. NextBuffer => BInv'
            BY NextBufferBInv DEF FInv
        <3>4. /\ next_frame' \in Nat /\ last \in 0 .. next_frame' - 1
              /\ lost \cup {} \subseteq 0 .. next_frame' - 1
            <4>1. next_frame' = next_frame \/ next_frame' = next_frame + Period
                BY <1>2, Zenon
            <4>2. next_frame' \in Nat /\ next_frame' >= next_frame
                BY <1>4, <4>1, PipelineAssumption
            <4>3. QED BY <1>4, <4>2, Wider
        <3>5. Conserved((out \o frames) \o ReadRest', last, next_frame', lost \cup {})
            BY <1>5, <2>3
        <3>6. Range(out \o frames) \subseteq 0 .. next_frame' - 1
            <4>1. /\ Range((out \o frames) \o ReadRest') = Range(out \o frames) \cup Range(ReadRest')
                  /\ Range((out \o frames) \o ReadRest') = (last + 1 .. next_frame' - 1) \ (lost \cup {})
                BY <1>2, <2>2, <3>5, RangeOfConcat DEF Conserved
            <4>2. last + 1 .. next_frame' - 1 \subseteq 0 .. next_frame' - 1
                <5>1. last \in Nat
                    BY <3>4
                <5>2. QED BY <3>4, <5>1, Later
            <4>3. QED BY <4>1, <4>2
        <3>7. Conserved(ReadRest', last', next_frame', lost')
            BY <1>2, <2>2, <2>5, <3>4, <3>5, <3>6, ReturnConserves
        <3>8. QED BY <3>2, <3>7
    <2>6. CASE out' = out \o frames /\ UNCHANGED <<filled, last, lost>>
        <3>1. InFlight' = (out \o frames) \o ReadRest'
            <4>1. InFlight' = (out \o frames) \o <<>> \o <<>> \o <<>> \o ReadRest'
                BY <2>1, <2>4, <2>6 DEF InFlight
            <4>2. (out \o frames) \o <<>> = out \o frames
                BY <2>2, ConcatEmpty
            <4>3. QED BY <4>1, <4>2, Zenon
        <3>2. QED BY <1>5, <2>3, <2>6, <3>1
    <2>7. QED BY <1>2, <1>8, <2>5, <2>6 DEF Copied
<1>9. QED BY <1>1, <1>7, <1>8

\* What a read_frames that fails had copied is given up, from the middle.
LEMMA FailsConserves == ASSUME FInv, ReadFails PROVE FramesConserved'
<1> SUFFICES ASSUME ~bypassed' PROVE Conserved(InFlight', last', next_frame', lost')
    BY DEF FramesConserved, Conserved, Ordered
<1>1. /\ UNCHANGED <<next_frame, read_buf, read_buf_frames, proc_buf, held, bypassed>>
      /\ read_buf_frames = 0
      /\ Return(out, Range(filled)) /\ out' = <<>> /\ filled' = <<>>
    BY DEF ReadFails, Return
<1>2. /\ out \in Seq(Nat) /\ held \in Seq(Nat) /\ proc_buf \in Seq(Nat)
      /\ filled \in Seq(Nat) /\ <<>> \in Seq(Nat)
    BY EmptySeqType DEF FInv, PInv
<1>3. ReadRest = <<>> /\ ReadRest' = <<>>
    BY <1>1, RestType DEF FInv, ReadRest
<1>4. Conserved(InFlight, last, next_frame, lost)
    BY <1>1, ConservedIs DEF FInv
<1> DEFINE kept == held \o proc_buf
<1>5. kept \in Seq(Nat)
    BY <1>2, ConcatType
<1>6. InFlight = (out \o kept) \o (filled \o <<>>)
    <2>1. filled \o <<>> \in Seq(Nat)
        BY <1>2, ConcatType
    <2>2. InFlight = out \o (held \o (proc_buf \o (filled \o <<>>)))
        BY <1>3, InFlightShape, Zenon DEF FInv
    <2> DEFINE tail == filled \o <<>>
    <2> HIDE DEF tail
    <2>3. tail \in Seq(Nat)
        BY <2>1 DEF tail
    <2>3a. /\ out \in Lists /\ held \in Lists /\ proc_buf \in Lists /\ tail \in Lists
           /\ kept \in Lists
        BY <1>2, <1>5, <2>3, Zenon DEF Lists
    <2>4. Cat(held, Cat(proc_buf, tail)) = Cat(Cat(held, proc_buf), tail)
        BY <2>3a, CatProperties
    <2> HIDE DEF kept
    <2>5. Cat(out, Cat(kept, tail)) = Cat(Cat(out, kept), tail)
        BY <2>3a, CatProperties
    <2>6. held \o (proc_buf \o tail) = kept \o tail
        BY <2>4, Zenon DEF Cat, kept
    <2>7. out \o (kept \o tail) = (out \o kept) \o tail
        BY <2>5, Zenon DEF Cat
    <2>8. QED BY <2>2, <2>6, <2>7, Zenon DEF tail
<1>7. InFlight' = kept
    <2>1. InFlight' = <<>> \o held \o proc_buf \o <<>> \o <<>>
        BY <1>1, <1>3 DEF InFlight
    <2>2. <<>> \o held = held /\ kept \o <<>> = kept
        BY <1>2, <1>5, ConcatEmpty
    <2>3. QED BY <2>1, <2>2, Zenon
<1> HIDE DEF kept
<1>8. out \o kept \in Seq(Nat)
    BY <1>2, <1>5, ConcatType
<1>9. Conserved((out \o kept) \o <<>>, last, next_frame, lost \cup Range(filled))
    BY <1>2, <1>4, <1>6, <1>8, GiveUpMiddle
<1>10. Conserved(out \o kept, last, next_frame, lost \cup Range(filled))
    BY <1>8, <1>9, ConcatEmpty
<1>11. /\ next_frame \in Nat /\ last \in 0 .. next_frame - 1
       /\ lost \cup Range(filled) \subseteq 0 .. next_frame - 1
       /\ Range(out) \subseteq 0 .. next_frame - 1
    BY DEF FInv, PInv, BInv
<1>12. Conserved(kept, last', next_frame, lost')
    BY <1>1, <1>2, <1>5, <1>10, <1>11, ReturnConserves
<1>13. QED BY <1>1, <1>7, <1>12

\* The effects keep the order, and what they leave over moves to the front.
LEMMA ProcessConserves == ASSUME FInv, Process PROVE FramesConserved'
<1> SUFFICES ASSUME ~bypassed' PROVE Conserved(InFlight', last', next_frame', lost')
    BY DEF FramesConserved, Conserved, Ordered
<1>1. UNCHANGED <<next_frame, read_buf, read_buf_frames, bypassed>>
    BY DEF Process, Return
<1>2. PICK frames \in Seq(Nat) :
              /\ held \o (proc_buf \o filled) = frames \o (held' \o proc_buf')
              /\ \/ Return(out \o frames, {})
                 \/ /\ out' = out \o frames /\ filled' = <<>>
                    /\ UNCHANGED <<last, lost, bypassed>>
    BY ProcessParts DEF FInv
<1>3. /\ held' \in Seq(Nat) /\ proc_buf' \in Seq(Nat) /\ <<>> \in Seq(Nat)
      /\ held \in Seq(Nat) /\ proc_buf \in Seq(Nat) /\ filled \in Seq(Nat) /\ out \in Seq(Nat)
    BY ProcessKeeps, EmptySeqType DEF FInv, PInv
<1>4. ReadRest \in Seq(Nat) /\ ReadRest' = ReadRest
    BY <1>1, RestType DEF FInv, ReadRest
<1>4a. /\ out \in Lists /\ held \in Lists /\ proc_buf \in Lists /\ filled \in Lists
       /\ ReadRest \in Lists /\ frames \in Lists /\ held' \in Lists /\ proc_buf' \in Lists
    BY <1>3, <1>4, Zenon DEF Lists
<1>5. Conserved(InFlight, last, next_frame, lost)
    BY <1>1, ConservedIs DEF FInv
<1> DEFINE back == held' \o (proc_buf' \o ReadRest)
           front == out \o frames
<1>6. front \in Seq(Nat) /\ back \in Seq(Nat) /\ proc_buf' \o ReadRest \in Seq(Nat)
    <2>1. proc_buf' \o ReadRest \in Seq(Nat)
        BY <1>3, <1>4, ConcatType
    <2>2. QED BY <1>2, <1>3, <2>1, ConcatType
<1>7. InFlight = front \o back
    <2>1. Cat(held, Cat(proc_buf, filled)) = Cat(frames, Cat(held', proc_buf'))
        BY <1>2, Zenon DEF Cat
    <2>2. /\ Cat(out, held) \in Lists /\ Cat(proc_buf, filled) \in Lists
          /\ Cat(out, frames) \in Lists /\ Cat(held', proc_buf') \in Lists
        BY <1>4a, CatProperties
    <2>3. Cat(Cat(Cat(out, held), proc_buf), filled) = Cat(Cat(out, held), Cat(proc_buf, filled))
        BY <1>4a, <2>2, CatProperties
    <2>4. Cat(Cat(out, held), Cat(proc_buf, filled)) = Cat(out, Cat(held, Cat(proc_buf, filled)))
        BY <1>4a, <2>2, CatProperties
    <2>5. Cat(out, Cat(frames, Cat(held', proc_buf'))) = Cat(Cat(out, frames), Cat(held', proc_buf'))
        BY <1>4a, <2>2, CatProperties
    <2>6. Cat(Cat(Cat(out, frames), Cat(held', proc_buf')), ReadRest)
            = Cat(Cat(out, frames), Cat(Cat(held', proc_buf'), ReadRest))
        BY <1>4a, <2>2, CatProperties
    <2>7. Cat(Cat(held', proc_buf'), ReadRest) = Cat(held', Cat(proc_buf', ReadRest))
        BY <1>4a, CatProperties
    <2>8. Cat(Cat(Cat(Cat(out, held), proc_buf), filled), ReadRest)
            = Cat(Cat(out, frames), Cat(held', Cat(proc_buf', ReadRest)))
        BY <2>1, <2>3, <2>4, <2>5, <2>6, <2>7, Zenon
    <2>9. QED BY <2>8, Zenon DEF InFlight, Cat
<1>8. ASSUME filled' = <<>>, out' \in Lists PROVE InFlight' = out' \o back
    <2>1. InFlight' = out' \o held' \o proc_buf' \o <<>> \o ReadRest
        BY <1>4, <1>8 DEF InFlight
    <2>2. Cat(Cat(Cat(Cat(out', held'), proc_buf'), <<>>), ReadRest)
            = Cat(out', Cat(held', Cat(proc_buf', Cat(<<>>, ReadRest))))
        BY <1>4a, <1>8, CatEmpty, CatShape
    <2>3. Cat(<<>>, ReadRest) = ReadRest
        BY <1>4a, CatEmpty
    <2>4. QED BY <2>1, <2>2, <2>3, Zenon DEF Cat
<1> HIDE DEF front, back
<1>9. CASE Return(front, {})
    <2>1. out' = <<>> /\ filled' = <<>>
        BY <1>9 DEF Return
    <2>2. InFlight' = back
        BY <1>6, <1>8, <2>1, CatEmpty, ConcatEmpty
    <2>3. Conserved(front \o back, last, next_frame, lost \cup {})
        BY <1>5, <1>7
    <2>4. /\ next_frame \in Nat /\ last \in 0 .. next_frame - 1
          /\ lost \cup {} \subseteq 0 .. next_frame - 1
        BY DEF FInv, PInv, BInv
    <2>5. Range(front) \subseteq 0 .. next_frame - 1
        <3>1. /\ Range(front \o back) = Range(front) \cup Range(back)
              /\ Range(front \o back) = (last + 1 .. next_frame - 1) \ (lost \cup {})
            BY <1>6, <2>3, RangeOfConcat DEF Conserved
        <3>2. last + 1 .. next_frame - 1 \subseteq 0 .. next_frame - 1
            BY <2>4, Later
        <3>3. QED BY <3>1, <3>2
    <2>6. Conserved(back, last', next_frame, lost')
        BY <1>6, <1>9, <2>3, <2>4, <2>5, ReturnConserves
    <2>7. QED BY <1>1, <2>2, <2>6
<1>10. CASE out' = front /\ filled' = <<>> /\ UNCHANGED <<last, lost>>
    <2>1. InFlight' = InFlight
        <3>1. out' \in Lists
            BY <1>6, <1>10 DEF Lists
        <3>2. QED BY <1>7, <1>8, <1>10, <3>1, Zenon
    <2>2. QED BY <1>1, <1>5, <1>10, <2>1
<1>11. QED BY <1>2, <1>9, <1>10 DEF front

\* When the last effect goes, the stream stops or its frames are left out.
LEMMA ControlConserves == ASSUME FInv, ControlCall PROVE FramesConserved'
<1> SUFFICES ASSUME ~bypassed' PROVE Conserved(InFlight', last', next_frame', lost')
    BY DEF FramesConserved, Conserved, Ordered
<1>1. /\ UNCHANGED <<next_frame, read_buf, read_buf_frames, proc_buf, filled, out, last>>
      /\ pc = "idle"
      /\ held' = IF num_preprocessors' = 0 THEN <<>> ELSE held
      /\ lost' = lost \cup (IF num_preprocessors' = 0 THEN Range(held) ELSE {})
    BY DEF ControlCall, buffer_vars
<1>2. ~bypassed
    BY DEF ControlCall
<1>3. out = <<>> /\ filled = <<>>
    BY <1>1 DEF FInv, PInv
<1>4. /\ held \in Seq(Nat) /\ proc_buf \in Seq(Nat) /\ <<>> \in Seq(Nat)
      /\ ReadRest \in Seq(Nat) /\ ReadRest' = ReadRest
    BY <1>1, RestType, EmptySeqType DEF FInv, PInv, ReadRest
<1>5. Conserved(InFlight, last, next_frame, lost)
    BY <1>2, ConservedIs DEF FInv
<1>6. CASE num_preprocessors' = 0
    <2> DEFINE back == proc_buf \o ReadRest
    <2>1. back \in Seq(Nat) /\ held \o back \in Seq(Nat)
        BY <1>4, ConcatType
    <2>2. InFlight = <<>> \o (held \o back)
        <3>1. InFlight = <<>> \o (held \o (proc_buf \o (<<>> \o ReadRest)))
            BY <1>3, InFlightShape, Zenon DEF FInv
        <3>2. <<>> \o ReadRest = ReadRest
            BY <1>4, ConcatEmpty
        <3>3. QED BY <3>1, <3>2, Zenon
    <2>3. InFlight' = <<>> \o back
        <3>1. InFlight' = <<>> \o <<>> \o proc_buf \o <<>> \o ReadRest
            BY <1>1, <1>3, <1>4, <1>6 DEF InFlight
        <3>2. <<>> \o <<>> = <<>> /\ <<>> \o proc_buf = proc_buf /\ proc_buf \o <<>> = proc_buf
            BY <1>4, ConcatEmpty
        <3>3. <<>> \o back = back
            BY <2>1, ConcatEmpty
        <3>4. QED BY <3>1, <3>2, <3>3, Zenon
    <2> HIDE DEF back
    <2>4. Conserved(<<>> \o back, last, next_frame, lost \cup Range(held))
        BY <1>4, <1>5, <2>1, <2>2, GiveUpMiddle
    <2>5. lost' = lost \cup Range(held)
        BY <1>1, <1>6
    <2>6. QED BY <1>1, <2>3, <2>4, <2>5
<1>7. CASE num_preprocessors' # 0
    <2>1. held' = held /\ lost' = lost
        BY <1>1, <1>7
    <2>2. InFlight' = InFlight
        BY <1>1, <1>4, <2>1 DEF InFlight
    <2>3. QED BY <1>1, <1>5, <2>1, <2>2
<1>8. QED BY <1>6, <1>7

-----------------------------------------------------------------------------
(* The theorems.                                                           *)

\* The list of effects and the channels keep their types.
THEOREM EffectsTypeCorrect == Spec => []EffectsTypeOK
<1>1. EInv => EffectsTypeOK
    BY DEF EInv
<1>2. QED BY <1>1, SpecEInv, PTL

\* For any number of slots the assertion on the slot that is filled holds.
THEOREM SlotsAreCleared == Spec => []SlotsCleared
<1>1. EInv => SlotsCleared
    BY DEF EInv
<1>2. QED BY <1>1, SpecEInv, PTL

\* Auxiliary channels are only in use when all agreed, and only on a PCM that
\* was opened with them.
THEOREM AuxIsNegotiated == Spec => []AuxNegotiated
<1>1. EInv => AuxNegotiated
    BY DEF EInv
<1>2. QED BY <1>1, SpecEInv, PTL

\* Whatever command any effect fails, the ones of the list agree.
THEOREM EffectsDoAgree == Spec => []EffectsAgree
<1>1. EInv => EffectsAgree
    BY DEF EInv
<1>2. QED BY <1>1, SpecEInv, PTL

\* For any period and any requests no round writes past a buffer.
THEOREM BuffersDoFit == Spec => []BuffersFit
<1>1. PInv => BuffersFit
    <2> SUFFICES ASSUME PInv PROVE BuffersFit
        OBVIOUS
    <2>1. Len(proc_buf) \in Nat /\ Len(filled) \in Nat /\ request \in Nat
        BY DEF PInv
    <2>2. pc = "fill" => Len(proc_buf) + Len(filled) + Wanted = request
        BY <2>1 DEF Wanted
    <2>3. QED BY <2>2 DEF PInv, BuffersFit
<1>2. QED BY <1>1, SpecPInv, PTL

\* For any period, requests and effects no frame is repeated, overtaken or lost.
THEOREM FramesAreConserved == Spec => []FramesConserved
<1>1. Init => CInv /\ BInv /\ FramesConserved
    BY InitCInv, InitBInv, InitConserved
<1>2. EInv /\ PInv /\ CInv /\ BInv /\ FramesConserved /\ [Next]_vars => FramesConserved'
    <2> SUFFICES ASSUME EInv, FInv, [Next]_vars PROVE FramesConserved'
        BY DEF FInv
    <2>1. CASE UNCHANGED vars
        BY <2>1 DEF vars, frame_vars, buffer_vars, FInv, FramesConserved, InFlight, ReadRest
    <2>2. QED BY <2>1, StartingConserves, RunningConserves, DirectConserves,
             NextBufferConserves, FailsConserves, ProcessConserves, ControlConserves DEF Next
<1>3. QED BY <1>1, <1>2, NextCInv, NextBInv, SpecEInv, SpecPInv, PTL DEF Spec
=============================================================================
