------------------------- MODULE GeomagneticdProofs -------------------------
(***************************************************************************)
(* Theorems about Geomagneticd, for any axes, any samples within the field *)
(* of the sensor and any number of samples between two computations.       *)
(***************************************************************************)
EXTENDS Geomagneticd, TLAPS

-----------------------------------------------------------------------------
(* The parts of the inductive invariant.                                    *)

\* An extreme is a value of the field, or the two were made up by
\* extrema_init and are opposite.
Limits == -MaxField .. MaxField
Sane(low, high) == low = -high \/ (low \in Limits /\ high \in Limits)
SaneExtrema == \A i \in Axes : Sane(lo[i], hi[i])

\* The file is what rename puts there: complete, with what is in memory.
FilesFollow ==
    /\ config.state # "torn"
    /\ pc = "cfgRename" => backup = Complete(data)

\* What is usable in the file is usable in memory, from the boot on.
GoodInMemory ==
    (Usable(config) /\ ~unread /\ pc \notin {"boot", "dead"}) => OffsetsCheck(data)

\* How far the driver and the file follow, at each step of a write.
Following ==
    /\ pc \in {"boot", "bootWrite"} => ~updated
    /\ (pc \in {"poll", "count", "cfgOpen", "cfgWrite", "cfgRename"} /\ ~writeFailed)
          => driver.calib = data.calib
    /\ (pc \in {"poll", "count"} /\ ~writeFailed /\ updated) => config = Complete(data)

\* The extrema are those of the samples seen, zero without any.
Tracks(low, high, s) ==
    IF s = {} THEN low = 0 /\ high = 0
    ELSE low \in s /\ high \in s /\ \A v \in s : low <= v /\ v <= high
ExtremaTrack == ~approximated => \A i \in Axes : Tracks(lo[i], hi[i], seen[i])

\* A daemon that starts has no extrema, whatever it is about to read.
FreshStart ==
    pc = "boot" => /\ \A i \in Axes : lo[i] = 0 /\ hi[i] = 0 /\ seen[i] = {}

IInv == /\ TypeOK /\ CalibInField /\ SaneExtrema /\ FilesFollow /\ GoodInMemory
        /\ Following /\ ExtremaTrack /\ FreshStart

-----------------------------------------------------------------------------
(* Arithmetic.                                                              *)

LEMMA UnsetOutside ==
    /\ Unset \in Int /\ \A x \in Limits : x \in Int /\ x # Unset
BY FieldAssumption DEF Unset, Limits

LEMMA SampleInField ==
    ASSUME NEW i \in Axes, NEW v \in Field[i]
    PROVE  v \in Limits /\ v \in Int
BY FieldAssumption DEF Limits

LEMMA HalfInt == \A n \in Int : Half(n) \in Int
BY DEF Half

\* The offset computed from sane extrema lies in the field.
LEMMA OffsetInField ==
    ASSUME NEW low \in Int, NEW high \in Int, Sane(low, high)
    PROVE  CalibOffset(low, high) \in Limits
<1>1. CASE low = -high
    BY <1>1, FieldAssumption DEF CalibOffset, Half, Limits
<1>2. CASE low \in Limits /\ high \in Limits
    <2>1. (low + 45 * 1000) + (high - 45 * 1000) \in -(2 * MaxField) .. 2 * MaxField
        BY <1>2, FieldAssumption DEF Limits
    <2>2. \A n \in -(2 * MaxField) .. 2 * MaxField : Half(n) \in Limits
        BY FieldAssumption DEF Half, Limits
    <2>3. QED BY <2>1, <2>2 DEF CalibOffset
<1>3. QED BY <1>1, <1>2 DEF Sane

\* The extrema made up from an offset are opposite.
LEMMA ApproximationSane ==
    ASSUME NEW c \in Int
    PROVE  /\ ApproximateLow(c) \in Int /\ ApproximateHigh(c) \in Int
           /\ Sane(ApproximateLow(c), ApproximateHigh(c))
BY DEF ApproximateLow, ApproximateHigh, Sane

\* A sample keeps a pair of extrema sane: it replaces one of two opposite
\* extrema only if it replaces both or they are values of the field.
LEMMA ExtremeSane ==
    ASSUME NEW low \in Int, NEW high \in Int, Sane(low, high), NEW v \in Limits
    PROVE  /\ Extreme(v < low, v, low) \in Int /\ Extreme(v > high, v, high) \in Int
           /\ Sane(Extreme(v < low, v, low), Extreme(v > high, v, high))
BY FieldAssumption DEF Extreme, Sane, Limits

\* It also keeps them the extrema of what was seen.
LEMMA ExtremeTracks ==
    ASSUME NEW low \in Int, NEW high \in Int, NEW s \in SUBSET Int, 0 \notin s,
           Tracks(low, high, s), NEW v \in Int, v # 0
    PROVE  Tracks(Extreme(v < low, v, low), Extreme(v > high, v, high), s \cup {v})
<1>1. CASE s = {}
    <2>1. Extreme(v < low, v, low) = v /\ Extreme(v > high, v, high) = v
        BY <1>1 DEF Tracks, Extreme
    <2>2. QED BY <1>1, <2>1 DEF Tracks
<1>2. CASE s # {}
    <2>1. low \in s /\ high \in s /\ (\A w \in s : low <= w /\ w <= high)
        BY <1>2 DEF Tracks
    <2>2. low # 0 /\ high # 0 /\ low <= high
        BY <2>1
    <2>3. \A w \in s \cup {v} : /\ Extreme(v < low, v, low) <= w
                                /\ w <= Extreme(v > high, v, high)
        BY <2>1, <2>2 DEF Extreme
    <2>4. /\ Extreme(v < low, v, low) \in s \cup {v}
          /\ Extreme(v > high, v, high) \in s \cup {v}
        BY <2>1 DEF Extreme
    <2>5. QED BY <2>3, <2>4 DEF Tracks
<1>3. QED BY <1>1, <1>2

\* So the offset computed from them is the centre of what was seen.
LEMMA TracksCentre ==
    ASSUME NEW low \in Int, NEW high \in Int, NEW s \in SUBSET Int, Tracks(low, high, s)
    PROVE  CalibOffset(low, high) = CentreOf(s)
<1>1. (low + 45 * 1000) + (high - 45 * 1000) = low + high
    OBVIOUS
<1>2. CASE s = {}
    BY <1>1, <1>2 DEF Tracks, CalibOffset, CentreOf, Half
<1>3. CASE s # {}
    <2>1. low \in s /\ high \in s /\ (\A w \in s : low <= w /\ w <= high)
        BY <1>3 DEF Tracks
    <2>2. Min(s) = low
        <3>1. \A x \in s : (\A y \in s : x =< y) => x = low
            BY <2>1
        <3>2. \E x \in s : \A y \in s : x =< y
            BY <2>1
        <3>3. QED BY <3>1, <3>2 DEF Min
    <2>3. Max(s) = high
        <3>1. \A x \in s : (\A y \in s : x >= y) => x = high
            BY <2>1
        <3>2. \E x \in s : \A y \in s : x >= y
            BY <2>1
        <3>3. QED BY <3>1, <3>2 DEF Max
    <2>4. CalibOffset(low, high) = Half(low + high)
        BY <1>1 DEF CalibOffset, Half
    <2>5. QED BY <1>3, <2>2, <2>3, <2>4, Zenon DEF CentreOf
<1>4. QED BY <1>2, <1>3

-----------------------------------------------------------------------------
(* The initial state and the steps, one lemma for each.                     *)

LEMMA NoOffsetsType ==
    /\ NoOffsets \in Offsets /\ InField(NoOffsets) /\ ~OffsetsCheck(NoOffsets)
    /\ Absent \in Files /\ Torn \in Files
    /\ Absent.offsets = NoOffsets /\ Torn.offsets = NoOffsets
    /\ ~Usable(Absent) /\ ~Usable(Torn)
BY UnsetOutside DEF NoOffsets, Offsets, InField, OffsetsCheck, Absent, Torn, Files, Usable

\* What a file written with o holds.
LEMMA CompleteType ==
    ASSUME NEW o \in Offsets
    PROVE  /\ Complete(o) \in Files /\ Complete(o).offsets = o
           /\ Complete(o).state = "complete"
           /\ Usable(Complete(o)) <=> OffsetsCheck(o)
BY DEF Complete, Files, Usable, OffsetsCheck

LEMMA FieldTypes ==
    ASSUME NEW o \in Offsets
    PROVE  /\ o.hard \in BOOLEAN /\ o.calib \in [Axes -> Int]
           /\ \A i \in Axes : o.calib[i] \in Int
BY DEF Offsets

LEMMA InitIInv == Init => IInv
<1> SUFFICES ASSUME Init PROVE IInv
    OBVIOUS
<1>1. TypeOK
    <2>1. lo \in [Axes -> Int] /\ hi \in [Axes -> Int] /\ count \in 0 .. Period - 1
        BY PeriodAssumption DEF Init
    <2>2. seen \in [Axes -> SUBSET Int] /\ (\A i \in Axes : seen[i] \subseteq Field[i] \ {0})
        BY DEF Init
    <2>3. data \in Offsets /\ driver \in Offsets /\ config \in Files /\ backup \in Files
        BY NoOffsetsType DEF Init
    <2>4. QED BY <2>1, <2>2, <2>3 DEF Init, TypeOK
<1>2. CalibInField /\ FilesFollow /\ GoodInMemory
    BY NoOffsetsType DEF Init, CalibInField, FilesFollow, GoodInMemory, Absent
<1>3. \A i \in Axes : lo[i] = 0 /\ hi[i] = 0 /\ seen[i] = {}
    BY DEF Init
<1>4. SaneExtrema /\ ExtremaTrack /\ FreshStart
    BY <1>3 DEF SaneExtrema, Sane, ExtremaTrack, Tracks, FreshStart
<1>5. Following
    BY DEF Init, Following
<1>6. QED BY <1>1, <1>2, <1>4, <1>5 DEF IInv

LEMMA SampleKeeps ==
    ASSUME IInv, NEW i \in Axes, NEW value \in Field[i], Sample(i, value)
    PROVE  IInv'
<1> USE DEF daemon, files, history
<1>t. TypeOK
    BY DEF IInv
<1>v. value \in Limits /\ value \in Int /\ value # 0
    BY SampleInField DEF Sample, IsSample
<1>e. /\ \A j \in Axes : j # i => lo'[j] = lo[j] /\ hi'[j] = hi[j] /\ seen'[j] = seen[j]
      /\ lo'[i] = Extreme(value < lo[i], value, lo[i])
      /\ hi'[i] = Extreme(value > hi[i], value, hi[i])
      /\ seen'[i] = seen[i] \cup {value}
    BY <1>t DEF Sample, TypeOK
<1>s. Sane(lo[i], hi[i]) /\ lo[i] \in Int /\ hi[i] \in Int
    BY <1>t DEF IInv, SaneExtrema, TypeOK
<1>1. TypeOK'
    <2>1. lo' \in [Axes -> Int] /\ hi' \in [Axes -> Int]
        BY <1>t, <1>s, <1>v, ExtremeSane DEF Sample, TypeOK
    <2>2. seen' \in [Axes -> SUBSET Int]
        BY <1>t, <1>v DEF Sample, TypeOK
    <2>3. \A j \in Axes : seen'[j] \subseteq Field[j] \ {0}
        BY <1>t, <1>v, <1>e DEF TypeOK
    <2>4. QED BY <1>t, <2>1, <2>2, <2>3 DEF Sample, TypeOK
<1>2. SaneExtrema'
    <2>1. Sane(lo'[i], hi'[i])
        BY <1>e, <1>s, <1>v, ExtremeSane
    <2>2. \A j \in Axes : j # i => Sane(lo'[j], hi'[j])
        BY <1>e DEF IInv, SaneExtrema
    <2>3. QED BY <2>1, <2>2 DEF SaneExtrema
<1>3. ExtremaTrack'
    <2> SUFFICES ASSUME ~approximated, NEW j \in Axes
                 PROVE  Tracks(lo'[j], hi'[j], seen'[j])
        BY DEF ExtremaTrack, Sample
    <2>1. Tracks(lo[j], hi[j], seen[j]) /\ Tracks(lo[i], hi[i], seen[i])
        BY DEF IInv, ExtremaTrack
    <2>2. seen[i] \in SUBSET Int /\ 0 \notin seen[i]
        BY <1>t DEF TypeOK
    <2>3. Tracks(Extreme(value < lo[i], value, lo[i]),
                 Extreme(value > hi[i], value, hi[i]), seen[i] \cup {value})
        BY <1>s, <1>v, <2>1, <2>2, ExtremeTracks
    <2>4. Tracks(lo'[i], hi'[i], seen'[i])
        BY <1>e, <2>3
    <2>5. CASE j = i
        BY <2>4, <2>5
    <2>6. CASE j # i
        BY <1>e, <2>1, <2>6
    <2>7. QED BY <2>5, <2>6
<1>4. CalibInField' /\ FilesFollow' /\ GoodInMemory' /\ Following' /\ FreshStart'
    BY DEF Sample, IInv, CalibInField, FilesFollow, GoodInMemory, Following, FreshStart
<1>5. QED BY <1>1, <1>2, <1>3, <1>4 DEF IInv

\* extrema_init on checked offsets.
LEMMA ExtremaInitKeeps ==
    ASSUME NEW o \in Offsets, ExtremaInit(o)
    PROVE  /\ lo' \in [Axes -> Int] /\ hi' \in [Axes -> Int]
           /\ seen' \in [Axes -> SUBSET Int] /\ approximated' = TRUE
           /\ \A i \in Axes : seen'[i] = {} /\ Sane(lo'[i], hi'[i])
BY FieldTypes, ApproximationSane DEF ExtremaInit

LEMMA ConfigStepKeeps ==
    ASSUME IInv, ConfigOpen \/ ConfigWrite \/ ConfigRename \/ ConfigWriteFails
    PROVE  IInv'
<1> USE DEF daemon, files, history
<1>t. TypeOK /\ data \in Offsets /\ Complete(data) \in Files /\ back \in {"poll", "count"}
    BY CompleteType DEF IInv, TypeOK
<1>u. UNCHANGED <<back, data, lo, hi, count, driver, updated, unread, approximated, seen>>
    BY DEF ConfigOpen, ConfigWrite, ConfigRename, ConfigWriteFails, WriteTo
<1>f. UNCHANGED config \/ (pc = "cfgRename" /\ config' = Complete(data))
    BY DEF ConfigOpen, ConfigWrite, ConfigRename, ConfigWriteFails, Truncate, IInv, FilesFollow
<1>b. backup' \in {backup, Torn, Absent, Complete(data)}
    BY DEF ConfigOpen, ConfigWrite, ConfigRename, ConfigWriteFails, Truncate
<1>p. /\ pc \in {"cfgOpen", "cfgWrite", "cfgRename"}
      /\ pc' \in {"cfgWrite", "cfgRename", "poll", "count"}
    BY <1>t DEF ConfigOpen, ConfigWrite, ConfigRename, ConfigWriteFails, WriteTo
<1>1. TypeOK'
    BY <1>t, <1>u, <1>f, <1>b, <1>p, NoOffsetsType
    DEF TypeOK, ConfigOpen, ConfigWrite, ConfigRename, ConfigWriteFails
<1>2. CalibInField'
    BY <1>t, <1>u, <1>f, <1>b, NoOffsetsType, CompleteType DEF IInv, CalibInField, InField
<1>3. FilesFollow'
    BY <1>t, <1>u, <1>f, CompleteType
    DEF IInv, FilesFollow, ConfigOpen, ConfigWrite, ConfigRename, ConfigWriteFails, WriteTo
<1>4. GoodInMemory'
    BY <1>t, <1>u, <1>f, <1>p, CompleteType DEF IInv, GoodInMemory
<1>5. Following'
    <2>1. CASE ConfigRename
        BY <2>1, <1>t, <1>u, <1>p DEF IInv, Following, FilesFollow, ConfigRename, WriteTo
    <2>2. CASE ConfigOpen \/ ConfigWrite \/ ConfigWriteFails
        BY <2>2, <1>t, <1>u, <1>p
        DEF IInv, Following, ConfigOpen, ConfigWrite, ConfigWriteFails, WriteTo
    <2>3. QED BY <2>1, <2>2
<1>6. SaneExtrema' /\ ExtremaTrack' /\ FreshStart'
    BY <1>u, <1>p DEF IInv, SaneExtrema, ExtremaTrack, FreshStart
<1>7. QED BY <1>1, <1>2, <1>3, <1>4, <1>5, <1>6 DEF IInv

LEMMA BootFromConfigKeeps ==
    ASSUME IInv, BootFromConfig
    PROVE  IInv'
<1> USE DEF daemon, files, history
<1>t. TypeOK /\ config.offsets \in Offsets
    BY DEF IInv, TypeOK, Files
<1>e. /\ lo' \in [Axes -> Int] /\ hi' \in [Axes -> Int]
      /\ seen' \in [Axes -> SUBSET Int] /\ approximated' = TRUE
      /\ \A i \in Axes : seen'[i] = {} /\ Sane(lo'[i], hi'[i])
    BY <1>t, ExtremaInitKeeps DEF BootFromConfig
<1>p. pc = "boot" /\ pc' = "bootWrite" /\ data' = config.offsets /\ OffsetsCheck(data')
    BY DEF BootFromConfig, FromConfig
<1>u. UNCHANGED <<back, count, driver, files, writeFailed, updated, unread>>
    BY DEF BootFromConfig
<1>1. TypeOK'
    BY <1>t, <1>e, <1>p, <1>u DEF TypeOK
<1>2. CalibInField'
    BY <1>p, <1>u DEF IInv, CalibInField, InField
<1>3. SaneExtrema' /\ ExtremaTrack' /\ FreshStart'
    BY <1>e, <1>p DEF SaneExtrema, ExtremaTrack, FreshStart
<1>4. FilesFollow' /\ GoodInMemory' /\ Following'
    BY <1>p, <1>u DEF IInv, FilesFollow, GoodInMemory, Following
<1>5. QED BY <1>1, <1>2, <1>3, <1>4 DEF IInv

LEMMA BootWriteKeeps ==
    ASSUME IInv, BootWrite
    PROVE  IInv'
<1> USE DEF daemon, files, history
<1>p. /\ pc = "bootWrite" /\ pc' \in {"poll", "dead"}
      /\ (UNCHANGED driver /\ pc' = "dead") \/ driver' = data
    BY DEF BootWrite
<1>u. UNCHANGED <<back, data, lo, hi, count, files, history>>
    BY DEF BootWrite
<1>1. TypeOK'
    BY <1>p, <1>u DEF IInv, TypeOK
<1>2. CalibInField'
    BY <1>p, <1>u DEF IInv, CalibInField, InField
<1>3. SaneExtrema' /\ ExtremaTrack' /\ FreshStart'
    BY <1>p, <1>u DEF IInv, SaneExtrema, ExtremaTrack, FreshStart
<1>4. FilesFollow' /\ GoodInMemory' /\ Following'
    BY <1>p, <1>u DEF IInv, FilesFollow, GoodInMemory, Following
<1>5. QED BY <1>1, <1>2, <1>3, <1>4 DEF IInv

\* The offsets are taken over from the driver, the extrema with them if
\* they can be used.
LEMMA FromDriverKeeps ==
    ASSUME IInv,
           IF OffsetsCheck(driver)
             THEN ExtremaInit(driver)
             ELSE UNCHANGED <<lo, hi, approximated, seen>>
    PROVE  /\ lo' \in [Axes -> Int] /\ hi' \in [Axes -> Int]
           /\ seen' \in [Axes -> SUBSET Int] /\ approximated' \in BOOLEAN
           /\ \A i \in Axes : seen'[i] \subseteq Field[i] \ {0}
           /\ SaneExtrema' /\ ExtremaTrack'
<1>t. TypeOK /\ driver \in Offsets
    BY DEF IInv, TypeOK
<1>1. CASE OffsetsCheck(driver)
    <2>1. ExtremaInit(driver)
        BY <1>1
    <2>2. /\ lo' \in [Axes -> Int] /\ hi' \in [Axes -> Int]
          /\ seen' \in [Axes -> SUBSET Int] /\ approximated' = TRUE
          /\ \A i \in Axes : seen'[i] = {} /\ Sane(lo'[i], hi'[i])
        BY <1>t, <2>1, ExtremaInitKeeps
    <2>3. QED BY <2>2 DEF SaneExtrema, ExtremaTrack
<1>2. CASE ~OffsetsCheck(driver)
    <2>1. UNCHANGED <<lo, hi, approximated, seen>>
        BY <1>2
    <2>2. QED BY <1>t, <2>1 DEF IInv, TypeOK, SaneExtrema, ExtremaTrack
<1>3. QED BY <1>1, <1>2

LEMMA BootFromDriverKeeps ==
    ASSUME IInv, BootFromDriver
    PROVE  IInv'
<1> USE DEF daemon, files, history
<1>e. /\ lo' \in [Axes -> Int] /\ hi' \in [Axes -> Int]
      /\ seen' \in [Axes -> SUBSET Int] /\ approximated' \in BOOLEAN
      /\ \A i \in Axes : seen'[i] \subseteq Field[i] \ {0}
      /\ SaneExtrema' /\ ExtremaTrack'
    BY FromDriverKeeps DEF BootFromDriver
<1>p. /\ pc = "boot" /\ pc' = "poll" /\ data' = driver
      /\ unread' = (config.state = "complete" /\ OffsetsCheck(config.offsets))
    BY DEF BootFromDriver
<1>u. UNCHANGED <<back, count, driver, files, writeFailed, updated>>
    BY DEF BootFromDriver
<1>1. TypeOK'
    BY <1>e, <1>p, <1>u DEF IInv, TypeOK
<1>2. CalibInField'
    BY <1>p, <1>u DEF IInv, CalibInField, InField
<1>3. GoodInMemory'
    BY <1>p, <1>u DEF GoodInMemory, Usable, OffsetsCheck
<1>4. FilesFollow' /\ Following' /\ FreshStart'
    BY <1>p, <1>u DEF IInv, FilesFollow, Following, FreshStart
<1>5. QED BY <1>1, <1>2, <1>3, <1>4, <1>e DEF IInv

LEMMA ResyncKeeps ==
    ASSUME IInv, Resync
    PROVE  IInv'
<1> USE DEF daemon, files, history
<1>e. /\ lo' \in [Axes -> Int] /\ hi' \in [Axes -> Int]
      /\ seen' \in [Axes -> SUBSET Int] /\ approximated' \in BOOLEAN
      /\ \A i \in Axes : seen'[i] \subseteq Field[i] \ {0}
      /\ SaneExtrema' /\ ExtremaTrack'
    BY FromDriverKeeps DEF Resync
<1>p. /\ pc = "poll" /\ ~OffsetsCheck(data)
      /\ pc' = "cfgOpen" /\ back' = "count" /\ data' = driver /\ updated' = TRUE
    BY DEF Resync
<1>u. UNCHANGED <<count, driver, files, writeFailed, unread>>
    BY DEF Resync
<1>1. TypeOK'
    BY <1>e, <1>p, <1>u DEF IInv, TypeOK
<1>2. CalibInField'
    BY <1>p, <1>u DEF IInv, CalibInField, InField
<1>3. GoodInMemory'
    BY <1>p, <1>u DEF IInv, GoodInMemory, Usable
<1>4. FilesFollow' /\ Following' /\ FreshStart'
    BY <1>p, <1>u DEF IInv, FilesFollow, Following, FreshStart
<1>5. QED BY <1>1, <1>2, <1>3, <1>4, <1>e DEF IInv

\* The offsets computed are those of a field, and known if the old ones were.
LEMMA ComputedKeeps ==
    ASSUME IInv
    PROVE  /\ Computed \in Offsets /\ InField(Computed)
           /\ OffsetsCheck(data) => OffsetsCheck(Computed)
<1>1. data.hard \in BOOLEAN
    BY FieldTypes DEF IInv, TypeOK
<1>2. \A i \in Axes : CalibOffset(lo[i], hi[i]) \in Limits
    BY OffsetInField DEF IInv, TypeOK, SaneExtrema
<1>3. \A i \in Axes : CalibOffset(lo[i], hi[i]) \in Int /\ CalibOffset(lo[i], hi[i]) # Unset
    BY <1>2, UnsetOutside
<1>4. /\ Computed.hard = data.hard
      /\ \A i \in Axes : Computed.calib[i] = CalibOffset(lo[i], hi[i])
    BY DEF Computed
<1>5. Computed \in Offsets
    BY <1>1, <1>3 DEF Computed, Offsets
<1>6. InField(Computed)
    BY <1>2, <1>4 DEF InField, Limits
<1>7. QED BY <1>3, <1>4, <1>5, <1>6 DEF OffsetsCheck

LEMMA CalibKeeps ==
    ASSUME IInv, Calib
    PROVE  IInv'
<1> USE DEF daemon, files, history
<1>p. /\ pc = "count"
      /\ \/ data' = Computed /\ updated' = TRUE /\ pc' = "offsetsWrite"
         \/ pc' = "poll" /\ UNCHANGED <<data, updated>>
    BY DEF Calib
<1>u. UNCHANGED <<back, lo, hi, driver, files, writeFailed, unread, approximated, seen>>
    BY DEF Calib
<1>1. TypeOK'
    <2>1. count' \in 0 .. Period - 1
        BY PeriodAssumption DEF Calib, IInv, TypeOK
    <2>2. QED BY <1>p, <1>u, <2>1, ComputedKeeps DEF IInv, TypeOK
<1>2. CalibInField'
    BY <1>p, <1>u, ComputedKeeps DEF IInv, CalibInField, InField
<1>3. GoodInMemory'
    BY <1>p, <1>u, ComputedKeeps DEF IInv, GoodInMemory
<1>4. FilesFollow' /\ Following'
    BY <1>p, <1>u DEF IInv, FilesFollow, Following
<1>5. SaneExtrema' /\ ExtremaTrack' /\ FreshStart'
    BY <1>p, <1>u DEF IInv, SaneExtrema, ExtremaTrack, FreshStart
<1>6. QED BY <1>1, <1>2, <1>3, <1>4, <1>5 DEF IInv

LEMMA OffsetsWriteKeeps ==
    ASSUME IInv, OffsetsWrite
    PROVE  IInv'
<1> USE DEF daemon, files, history
<1>p. /\ pc = "offsetsWrite"
      /\ \/ driver' = data /\ pc' = "cfgOpen" /\ back' = "poll" /\ UNCHANGED writeFailed
         \/ writeFailed' = TRUE /\ pc' = "poll" /\ UNCHANGED <<driver, back>>
    BY DEF OffsetsWrite, TellDriver
<1>u. UNCHANGED <<data, lo, hi, count, files, updated, unread, approximated, seen>>
    BY DEF OffsetsWrite
<1>1. TypeOK'
    BY <1>p, <1>u DEF IInv, TypeOK
<1>2. CalibInField'
    BY <1>p, <1>u DEF IInv, CalibInField, InField
<1>3. FilesFollow' /\ GoodInMemory' /\ Following'
    BY <1>p, <1>u DEF IInv, FilesFollow, GoodInMemory, Following
<1>4. SaneExtrema' /\ ExtremaTrack' /\ FreshStart'
    BY <1>p, <1>u DEF IInv, SaneExtrema, ExtremaTrack, FreshStart
<1>5. QED BY <1>1, <1>2, <1>3, <1>4 DEF IInv

\* The steps that only move on.
LEMMA MovesKeep ==
    ASSUME IInv, Syn \/ BootFails
    PROVE  IInv'
<1> USE DEF daemon, files, history
<1>p. /\ \/ pc = "poll" /\ pc' = "count"
         \/ pc = "boot" /\ pc' = "dead"
      /\ UNCHANGED <<back, data, lo, hi, count, driver, files, history>>
    BY DEF Syn, BootFails
<1>1. TypeOK'
    BY <1>p DEF IInv, TypeOK
<1>2. CalibInField' /\ SaneExtrema' /\ ExtremaTrack' /\ FreshStart'
    BY <1>p DEF IInv, CalibInField, InField, SaneExtrema, ExtremaTrack, FreshStart
<1>3. FilesFollow' /\ GoodInMemory' /\ Following'
    BY <1>p DEF IInv, FilesFollow, GoodInMemory, Following
<1>4. QED BY <1>1, <1>2, <1>3 DEF IInv

LEMMA DriverMeasuresKeeps ==
    ASSUME IInv, DriverMeasures
    PROVE  IInv'
<1> USE DEF daemon, files, history
<1>p. /\ driver' \in Offsets /\ driver'.calib = driver.calib
      /\ UNCHANGED <<daemon, files, history>>
    BY FieldTypes DEF DriverMeasures, IInv, TypeOK, Offsets
<1>1. TypeOK'
    BY <1>p DEF IInv, TypeOK
<1>2. CalibInField'
    BY <1>p DEF IInv, CalibInField, InField
<1>3. SaneExtrema' /\ ExtremaTrack' /\ FreshStart'
    BY <1>p DEF IInv, SaneExtrema, ExtremaTrack, FreshStart
<1>4. FilesFollow' /\ GoodInMemory' /\ Following'
    BY <1>p DEF IInv, FilesFollow, GoodInMemory, Following
<1>5. QED BY <1>1, <1>2, <1>3, <1>4 DEF IInv

\* A daemon that starts again, with or without its driver.
LEMMA StartedKeeps ==
    ASSUME IInv, Crash \/ Reboot
    PROVE  IInv'
<1> USE DEF daemon, files, history
<1>s. Started /\ driver' \in {driver, NoOffsets}
    BY DEF Crash, Reboot
<1>z. \A i \in Axes : lo'[i] = 0 /\ hi'[i] = 0 /\ seen'[i] = {}
    BY <1>s DEF Started
<1>1. TypeOK'
    <2>1. lo' \in [Axes -> Int] /\ hi' \in [Axes -> Int] /\ count' \in 0 .. Period - 1
        BY <1>s, PeriodAssumption DEF Started
    <2>2. seen' \in [Axes -> SUBSET Int] /\ (\A i \in Axes : seen'[i] \subseteq Field[i] \ {0})
        BY <1>s DEF Started
    <2>3. data' \in Offsets /\ driver' \in Offsets
        BY <1>s, NoOffsetsType DEF Started, IInv, TypeOK
    <2>4. QED BY <1>s, <2>1, <2>2, <2>3 DEF Started, IInv, TypeOK
<1>2. CalibInField'
    BY <1>s, NoOffsetsType DEF Started, IInv, CalibInField, InField
<1>3. SaneExtrema' /\ ExtremaTrack' /\ FreshStart'
    BY <1>z DEF SaneExtrema, Sane, ExtremaTrack, Tracks, FreshStart
<1>4. FilesFollow' /\ GoodInMemory' /\ Following'
    BY <1>s DEF Started, IInv, FilesFollow, GoodInMemory, Following
<1>5. QED BY <1>1, <1>2, <1>3, <1>4 DEF IInv

LEMMA NextIInv == IInv /\ [Next]_vars => IInv'
<1> SUFFICES ASSUME IInv, [Next]_vars PROVE IInv'
    OBVIOUS
<1>1. CASE \E i \in Axes : \E value \in Field[i] : Sample(i, value)
    BY <1>1, SampleKeeps
<1>2. CASE Syn \/ BootFails
    BY <1>2, MovesKeep
<1>3. CASE Resync
    BY <1>3, ResyncKeeps
<1>4. CASE Calib
    BY <1>4, CalibKeeps
<1>5. CASE OffsetsWrite
    BY <1>5, OffsetsWriteKeeps
<1>6. CASE ConfigOpen \/ ConfigWrite \/ ConfigRename \/ ConfigWriteFails
    BY <1>6, ConfigStepKeeps
<1>7. CASE BootFromConfig
    BY <1>7, BootFromConfigKeeps
<1>8. CASE BootWrite
    BY <1>8, BootWriteKeeps
<1>9. CASE BootFromDriver
    BY <1>9, BootFromDriverKeeps
<1>10. CASE DriverMeasures
    BY <1>10, DriverMeasuresKeeps
<1>11. CASE Crash \/ Reboot
    BY <1>11, StartedKeeps
<1>12. CASE UNCHANGED vars
    BY <1>12 DEF vars, daemon, files, history, IInv, TypeOK, CalibInField, InField, SaneExtrema,
                 FilesFollow, GoodInMemory, Following, ExtremaTrack, FreshStart
<1>13. QED
    BY <1>1, <1>2, <1>3, <1>4, <1>5, <1>6, <1>7, <1>8, <1>9, <1>10, <1>11, <1>12 DEF Next

LEMMA SpecIInv == Spec => []IInv
BY InitIInv, NextIInv, PTL DEF Spec

-----------------------------------------------------------------------------
(* The theorems.                                                            *)

\* The state of the daemon, of the driver and of the two files stays of its
\* type: the count never reaches Period, and zero samples are never counted
\* among those seen (geomagneticd_magnetic_extrema skips them).
THEOREM TypeCorrect == Spec => []TypeOK
<1>1. IInv => TypeOK
    BY DEF IInv
<1>2. QED BY <1>1, SpecIInv, PTL

\* However often the daemon is killed, between any two system calls of
\* geomagneticd_config_write, the config file is missing or complete.
THEOREM ConfigNotTorn == Spec => []ConfigNeverTorn
<1>1. IInv => ConfigNeverTorn
    BY DEF IInv, FilesFollow, ConfigNeverTorn
<1>2. QED BY <1>1, SpecIInv, PTL

\* For any field, the offsets geomagneticd_calib_offsets computes, gives to
\* the driver, saves and reads back stay within it, although extrema_init
\* scales them by a thousand: the approximated extrema are opposite, and so
\* are replaced before they can be averaged with a sample.
THEOREM OffsetsInField == Spec => []CalibInField
<1>1. IInv => CalibInField
    BY DEF IInv
<1>2. QED BY <1>1, SpecIInv, PTL

\* A daemon that waits for events, and none of whose writes has failed, has
\* given its offsets to the driver, and saved them if it changed them.
THEOREM WritesInStep == Spec => []InStep
<1>1. IInv => InStep
    BY DEF IInv, Following, InStep
<1>2. QED BY <1>1, SpecIInv, PTL

\* The offsets geomagneticd_calib_offsets computes are those of the centre of
\* the samples seen, unless extrema_init has approximated the extrema.
THEOREM OffsetIsCentre == Spec => OffsetCentresField
<1> DEFINE Step == (data' # data /\ pc' = "offsetsWrite" /\ ~approximated) =>
                       \A i \in Axes : data'.calib[i] = CentreOf(seen[i])
<1>1. IInv /\ Next => Step
    <2> SUFFICES ASSUME IInv, Next, data' # data, pc' = "offsetsWrite", ~approximated,
                        NEW i \in Axes
                 PROVE  data'.calib[i] = CentreOf(seen[i])
        OBVIOUS
    <2>1. Calib
        BY DEF Next, Sample, Syn, Resync, OffsetsWrite, ConfigOpen, ConfigWrite, ConfigRename,
               ConfigWriteFails, WriteTo, BootFromConfig, BootWrite, BootFromDriver, BootFails,
               DriverMeasures, daemon, Crash, Reboot, Started, IInv, TypeOK
    <2>2. data' = Computed
        BY <2>1 DEF Calib
    <2>3. data'.calib[i] = CalibOffset(lo[i], hi[i])
        BY <2>2 DEF Computed
    <2>4. /\ lo[i] \in Int /\ hi[i] \in Int /\ seen[i] \in SUBSET Int
          /\ Tracks(lo[i], hi[i], seen[i])
        BY DEF IInv, TypeOK, ExtremaTrack
    <2>5. CalibOffset(lo[i], hi[i]) = CentreOf(seen[i])
        BY <2>4, TracksCentre
    <2>6. QED BY <2>3, <2>5
<1>2. IInv /\ [Next]_vars => [Step]_vars
    BY <1>1
<1>3. QED BY <1>2, SpecIInv, PTL DEF Spec, OffsetCentresField

\* A config file with usable offsets is never lost to unknown ones, except by
\* a run of the daemon that could not read it.
THEOREM GoodConfigStays == Spec => GoodConfigKept
<1> DEFINE Step == (Usable(config) /\ ~unread) => Usable(config')
<1>1. IInv /\ [Next]_vars => [Step]_vars
    <2> SUFFICES ASSUME IInv, Next, Usable(config), ~unread
                 PROVE  Usable(config')
        BY DEF vars
    <2>1. CASE config' = config
        BY <2>1
    <2>2. CASE config' # config
        <3>1. ConfigRename /\ config' = backup
            BY <2>2 DEF Next, Sample, Syn, Resync, Calib, OffsetsWrite, ConfigOpen, Truncate,
                ConfigWrite, ConfigRename, ConfigWriteFails, BootFromConfig, BootWrite,
                BootFromDriver, BootFails, DriverMeasures, files, Crash, Reboot, Started
        <3>2. config' = Complete(data) /\ OffsetsCheck(data)
            BY <3>1 DEF IInv, FilesFollow, GoodInMemory, ConfigRename
        <3>3. QED BY <3>2, CompleteType DEF IInv, TypeOK
    <2>3. QED BY <2>1, <2>2
<1>2. QED BY <1>1, SpecIInv, PTL DEF Spec, GoodConfigKept
=============================================================================
