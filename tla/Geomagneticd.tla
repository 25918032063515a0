---------------------------- MODULE Geomagneticd ----------------------------
(***************************************************************************)
(* The geomagnetic daemon, libsensors/geomagneticd/geomagneticd.c: it      *)
(* learns the calibration offset of each axis of the magnetometer from the *)
(* extrema of the raw samples, gives the offsets to the driver and keeps   *)
(* them in a file for its next run.                                        *)
(*                                                                         *)
(* Abstracted: the three hard offsets are one bit, whether they are known  *)
(* (0x7f is not), since the daemon only passes them on; accuracy is left   *)
(* out, it travels with the offsets and decides nothing; the counter of    *)
(* samples is kept modulo Period, the only thing ever asked of it.         *)
(***************************************************************************)
EXTENDS Integers, FiniteSets, FiniteSetsExt

CONSTANTS Axes,     \* the three axes of the sensor
          Field,    \* the raw values each axis may report, in nT
          MaxField, \* their bound
          Period    \* 10: samples between two computations of the offsets

ASSUME FieldAssumption ==
    /\ Field \in [Axes -> SUBSET (-MaxField .. MaxField)]
    /\ MaxField \in Nat
    /\ (MaxField + 45) * 1000 <= 2147483647
ASSUME PeriodAssumption == Period \in Nat \ {0}

VARIABLES
    pc, back,        \* where the daemon is, where config_write returns to
    data,            \* hard_offsets and calib_offsets
    lo, hi,          \* magnetic_extrema[0] and [1]
    count,           \* modulo Period
    driver,          \* the offsets the driver holds
    config, backup,  \* yas.cfg and yas-backup.cfg
    writeFailed,     \* history: some write of this run failed
    updated,         \* history: this run has changed data
    unread,          \* history: this run could not read a good config file
    approximated,    \* history: extrema_init ran
    seen             \* history: samples of each axis since the extrema began

daemon == <<pc, back, data, lo, hi, count>>
files == <<config, backup>>
history == <<writeFailed, updated, unread, approximated, seen>>
vars == <<daemon, driver, files, history>>

Unset == 2147483647
NoOffsets == [hard |-> FALSE, calib |-> [i \in Axes |-> Unset]]
Offsets == [hard : BOOLEAN, calib : [Axes -> Int]]

Absent == [state |-> "absent", offsets |-> NoOffsets]
Torn == [state |-> "torn", offsets |-> NoOffsets]
Complete(o) == [state |-> "complete", offsets |-> o]
Files == [state : {"absent", "torn", "complete"}, offsets : Offsets]

\* geomagneticd_offsets_check
OffsetsCheck(o) == o.hard /\ \A i \in Axes : o.calib[i] # Unset

\* C's division truncates toward zero.
Half(n) == IF n < 0 THEN -((-n) \div 2) ELSE n \div 2

----------------------------------------------------------------------------
(* The extrema.                                                             *)

\* geomagneticd_magnetic_extrema_init, as written.
ApproximateLow(c) == -(c + 45) * 1000 + 5000
ApproximateHigh(c) == (c + 45) * 1000 - 5000

ExtremaInit(o) ==
    /\ lo' = [i \in Axes |-> ApproximateLow(o.calib[i])]
    /\ hi' = [i \in Axes |-> ApproximateHigh(o.calib[i])]
    /\ approximated' = TRUE
    /\ seen' = [i \in Axes |-> {}]

\* Mutant of the next definition: zero is taken for a value.
BugExtremeFromZero(beats, value, extreme) ==
    IF beats THEN value ELSE extreme

\* A zero extreme has not been set yet.
Extreme(beats, value, extreme) ==
    IF beats \/ extreme = 0 THEN value ELSE extreme

\* Mutant of the next definition: the zero sample is not skipped.
BugZeroIsSample(value) == TRUE

IsSample(value) == value # 0

\* An EV_ABS event: geomagneticd_magnetic_extrema.
Sample(i, value) ==
    /\ pc = "poll" /\ IsSample(value)
    /\ lo' = [lo EXCEPT ![i] = Extreme(value < lo[i], value, lo[i])]
    /\ hi' = [hi EXCEPT ![i] = Extreme(value > hi[i], value, hi[i])]
    /\ seen' = [seen EXCEPT ![i] = @ \cup {value}]
    /\ UNCHANGED <<pc, back, data, count, driver, files,
                   writeFailed, updated, unread, approximated>>

----------------------------------------------------------------------------
(* geomagneticd_config_write: truncate the backup, write it, rename it.     *)

\* Mutant of the next definition: the file itself is rewritten in place.
BugTruncateInPlace == config' = Torn /\ backup' = backup

Truncate == backup' = Torn /\ config' = config

WriteTo(step) ==
    /\ pc' = step
    /\ UNCHANGED <<back, data, lo, hi, count, driver,
                   updated, unread, approximated, seen>>

ConfigOpen ==
    /\ pc = "cfgOpen"
    /\ Truncate
    /\ WriteTo("cfgWrite") /\ UNCHANGED writeFailed

ConfigWrite ==
    /\ pc = "cfgWrite"
    /\ backup' = Complete(data)
    /\ WriteTo("cfgRename") /\ UNCHANGED <<config, writeFailed>>

\* The result of rename is not looked at.
ConfigRename ==
    /\ pc = "cfgRename"
    /\ \/ config' = backup /\ backup' = Absent /\ UNCHANGED writeFailed
       \/ writeFailed' = TRUE /\ UNCHANGED files
    /\ WriteTo(back)

\* An error of open or of write: both callers continue with the next event.
ConfigWriteFails ==
    /\ pc \in {"cfgOpen", "cfgWrite"}
    /\ writeFailed' = TRUE
    /\ WriteTo("poll") /\ UNCHANGED files

----------------------------------------------------------------------------
(* main, up to geomagneticd_poll.                                           *)

\* Mutant of the next definition: offsets_init runs after config_read.
BugOffsetsInitLate == NoOffsets

FromConfig == config.offsets

\* The config file can be read and its offsets pass the check.
BootFromConfig ==
    /\ pc = "boot"
    /\ config.state = "complete" /\ OffsetsCheck(config.offsets)
    /\ data' = FromConfig
    /\ ExtremaInit(config.offsets)
    /\ pc' = "bootWrite"
    /\ UNCHANGED <<back, count, driver, files, writeFailed, updated, unread>>

BootWrite ==
    /\ pc = "bootWrite"
    /\ \/ driver' = data /\ pc' = "poll"
       \/ pc' = "dead" /\ UNCHANGED driver
    /\ UNCHANGED <<back, data, lo, hi, count, files, history>>

\* The config file is missing, cannot be read, or its offsets are invalid.
BootFromDriver ==
    /\ pc = "boot"
    /\ unread' = (config.state = "complete" /\ OffsetsCheck(config.offsets))
    /\ data' = driver
    /\ IF OffsetsCheck(driver)
         THEN ExtremaInit(driver)
         ELSE UNCHANGED <<lo, hi, approximated, seen>>
    /\ pc' = "poll"
    /\ UNCHANGED <<back, count, driver, files, writeFailed, updated>>

\* No input, no sysfs path or unreadable offsets: main sleeps for ever.
BootFails ==
    /\ pc = "boot"
    /\ pc' = "dead"
    /\ UNCHANGED <<back, data, lo, hi, count, driver, files, history>>

----------------------------------------------------------------------------
(* An EV_SYN event.                                                         *)

\* The offsets were unknown at startup: read the driver's, keep them.
Resync ==
    /\ pc = "poll" /\ ~OffsetsCheck(data)
    /\ data' = driver /\ updated' = TRUE
    /\ IF OffsetsCheck(driver)
         THEN ExtremaInit(driver)
         ELSE UNCHANGED <<lo, hi, approximated, seen>>
    /\ pc' = "cfgOpen" /\ back' = "count"
    /\ UNCHANGED <<count, driver, files, writeFailed, unread>>

Syn ==
    /\ pc = "poll" /\ OffsetsCheck(data)
    /\ pc' = "count"
    /\ UNCHANGED <<back, data, lo, hi, count, driver, files, history>>

\* Mutant of the next definition: the sum of the two offsets is not halved.
BugOffsetNotHalved(low, high) == (low + 45 * 1000) + (high - 45 * 1000)

CalibOffset(low, high) == Half((low + 45 * 1000) + (high - 45 * 1000))

Computed == [hard |-> data.hard,
             calib |-> [i \in Axes |-> CalibOffset(lo[i], hi[i])]]

\* data->count++ and the computation of geomagneticd_calib_offsets.
Calib ==
    /\ pc = "count"
    /\ count' = (count + 1) % Period
    /\ IF count' = 0 /\ Computed # data
         THEN data' = Computed /\ updated' = TRUE /\ pc' = "offsetsWrite"
         ELSE pc' = "poll" /\ UNCHANGED <<data, updated>>
    /\ UNCHANGED <<back, lo, hi, driver, files, writeFailed, unread,
                   approximated, seen>>

\* Mutant of the next definition: the driver is not told.
BugDriverNotTold == UNCHANGED driver

TellDriver == driver' = data

\* geomagneticd_offsets_write; if it fails, config_write is not tried.
OffsetsWrite ==
    /\ pc = "offsetsWrite"
    /\ \/ TellDriver /\ pc' = "cfgOpen" /\ back' = "poll"
          /\ UNCHANGED writeFailed
       \/ writeFailed' = TRUE /\ pc' = "poll" /\ UNCHANGED <<driver, back>>
    /\ UNCHANGED <<data, lo, hi, count, files, updated, unread,
                   approximated, seen>>

----------------------------------------------------------------------------
(* What happens around the daemon.                                          *)

\* The driver finds its hard offsets some time after it has started.
DriverMeasures ==
    /\ ~driver.hard
    /\ driver' = [hard |-> TRUE, calib |-> driver.calib]
    /\ UNCHANGED <<daemon, files, history>>

Started ==
    /\ pc' = "boot" /\ back' = "poll"
    /\ data' = NoOffsets
    /\ lo' = [i \in Axes |-> 0] /\ hi' = [i \in Axes |-> 0]
    /\ count' = 0
    /\ writeFailed' = FALSE /\ updated' = FALSE /\ unread' = FALSE
    /\ approximated' = FALSE /\ seen' = [i \in Axes |-> {}]
    /\ UNCHANGED files

\* The daemon is killed and started again, or the whole device restarts and
\* the driver forgets its offsets.  The files are as the last step left them.
Crash == pc # "boot" /\ Started /\ UNCHANGED driver
Reboot == pc # "boot" /\ Started /\ driver' = NoOffsets

Init ==
    /\ pc = "boot" /\ back = "poll"
    /\ data = NoOffsets
    /\ lo = [i \in Axes |-> 0] /\ hi = [i \in Axes |-> 0]
    /\ count = 0
    /\ driver = NoOffsets
    /\ config = Absent /\ backup = Absent
    /\ writeFailed = FALSE /\ updated = FALSE /\ unread = FALSE
    /\ approximated = FALSE /\ seen = [i \in Axes |-> {}]

Next ==
    \/ \E i \in Axes : \E value \in Field[i] : Sample(i, value)
    \/ Syn \/ Resync \/ Calib \/ OffsetsWrite
    \/ ConfigOpen \/ ConfigWrite \/ ConfigRename \/ ConfigWriteFails
    \/ BootFromConfig \/ BootWrite \/ BootFromDriver \/ BootFails
    \/ DriverMeasures \/ Crash \/ Reboot

Spec == Init /\ [][Next]_vars

----------------------------------------------------------------------------

TypeOK ==
    /\ pc \in {"boot", "bootWrite", "poll", "count", "offsetsWrite",
               "cfgOpen", "cfgWrite", "cfgRename", "dead"}
    /\ back \in {"poll", "count"}
    /\ data \in Offsets /\ driver \in Offsets
    /\ lo \in [Axes -> Int] /\ hi \in [Axes -> Int]
    /\ count \in 0 .. Period - 1
    /\ config \in Files /\ backup \in Files
    /\ writeFailed \in BOOLEAN /\ updated \in BOOLEAN /\ unread \in BOOLEAN
    /\ approximated \in BOOLEAN
    /\ seen \in [Axes -> SUBSET Int]
    /\ \A i \in Axes : seen[i] \subseteq Field[i] \ {0}

\* Wherever the daemon is stopped, the config file is either missing or
\* complete: config_write never leaves a truncated one behind.
ConfigNeverTorn == config.state # "torn"

\* No offset, in memory, in the driver or in a file, lies outside the field
\* the sensor measures, although the extrema extrema_init makes up lie a
\* thousand times farther out; so extrema_init never overflows an int.
InField(o) == \A i \in Axes : o.calib[i] = Unset
                              \/ o.calib[i] \in -MaxField .. MaxField
CalibInField ==
    /\ InField(data) /\ InField(driver)
    /\ InField(config.offsets) /\ InField(backup.offsets)

\* While the daemon waits for events and no write has failed since it
\* started, the driver applies the offsets the daemon computed, and if it has
\* changed them the next run will find them in the file.
InStep ==
    (pc = "poll" /\ ~writeFailed) =>
        /\ driver.calib = data.calib
        /\ updated => config = Complete(data)

\* The offset at the centre of the samples of an axis; 0 without samples.
CentreOf(s) == IF s = {} THEN 0 ELSE Half(Min(s) + Max(s))

\* "finding raw data extrema ... for each axis and calculating the offset so
\* that these values are -45uT and 45uT": unless it approximated them, the
\* offsets the daemon computes are the centre of all the samples it has seen.
OffsetCentresField ==
    [][(data' # data /\ pc' = "offsetsWrite" /\ ~approximated) =>
           \A i \in Axes : data'.calib[i] = CentreOf(seen[i])]_vars

\* A config file with usable offsets is only ever replaced by another one,
\* unless this run failed to read it: unknown offsets never overwrite it.
Usable(file) == /\ file.state = "complete" /\ file.offsets.hard
                /\ \A i \in Axes : file.offsets.calib[i] # Unset
GoodConfigKept == [][(Usable(config) /\ ~unread) => Usable(config')]_vars

\* "Approximate the previous extrema from the calib offsets": the extrema
\* extrema_init makes up are those of a field centred, up to the 5 uT it
\* takes off, on the offset it starts from.
ExtremaApproximated ==
    (pc = "poll" /\ approximated) =>
        \A i \in Axes :
            seen[i] = {} /\ ~updated =>
                Half(lo[i] + hi[i]) - data.calib[i] \in -5000 .. 5000
=============================================================================
