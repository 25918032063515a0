----------------------------- MODULE RouteConfig -----------------------------
(***************************************************************************)
(* The parser of the mixer route file, audio/audio_hw.c: the two expat     *)
(* callbacks adev_config_start and adev_config_end, which share a small    *)
(* state (current device, role of the path, path so far), and adev_open,   *)
(* which selects the default route from the sections they built.           *)
(*                                                                         *)
(* The file is a tree: paths at the top (default routes) and devices with  *)
(* paths, as in tiny_hw_espresso*.xml.  A cursor walks it; each step is    *)
(* one callback.  Device names, path names and controls may be unknown,    *)
(* controls may lack their name or value, one allocation may fail, and     *)
(* parsing may stop with an error after any callback.  A path in a known   *)
(* device always has a name: strcmp is called on it unchecked.             *)
(***************************************************************************)
EXTENDS Naturals, SequencesExt

CONSTANTS
    Documents,      \* the files considered: sequences of elements
    Controls,       \* the controls of the mixer
    Accepts,        \* the values each control takes
    BootValue,      \* what a control holds before
    NoName, NoVal   \* an attribute that is missing

ASSUME ControlsAssumption ==
    /\ NoName \notin Controls
    /\ \A x \in Controls : NoVal \notin Accepts[x] /\ BootValue \notin Accepts[x]

\* A file is a list of devices and of default routes, which are one path each.
IsSeq(s) == s \in Seq({s[i] : i \in 1 .. Len(s)})

ASSUME DocumentsAssumption ==
    \A d \in Documents :
        /\ IsSeq(d)
        /\ \A i \in 1 .. Len(d) :
              /\ d[i].kind = "device" \/ (d[i].kind = "path" /\ Len(d[i].paths) = 1)
              /\ IsSeq(d[i].paths)
              /\ \A j \in 1 .. Len(d[i].paths) : IsSeq(d[i].paths[j].ctls)

VARIABLES
    pc,                     \* "start", "parse", "select", "opened", "failed"
    doc,                    \* the file
    inside, e, p, n,        \* the cursor: in "file", "device" or "path", and the
                            \* elements, paths and controls finished at each level
    dev, on, path,          \* struct config_parse_state; dev = 0 is NULL
    dev_cfgs,               \* the sections: mask, and the two routes
    device_has_earpiece,
    mixer,                  \* the value of each control
    dropped                 \* an allocation failed (at most one does)

cursor_vars == <<inside, e, p, n>>
state_vars  == <<dev, on, path>>
cfg_vars    == <<dev_cfgs, device_has_earpiece>>
vars == <<pc, doc, cursor_vars, state_vars, cfg_vars, mixer, dropped>>

-----------------------------------------------------------------------------
\* The routing module, for the names the file declares.
DeviceNames == {doc[i].name : i \in {j \in 1 .. Len(doc) : doc[j].kind = "device"}}
AllNames    == {"speaker", "headphone", "earpiece", "sco-out", "dock",
                "builtin-mic", "back-mic", "headset-in", "sco-in"}
R == INSTANCE DeviceRoutes WITH DevCfgs <- DeviceNames \cap AllNames

Row(mask, name) == [mask |-> mask, name |-> name]
DevNames == <<
    Row({R!SPEAKER}, "speaker"),
    Row({R!WIRED_HEADSET, R!WIRED_HEADPHONE}, "headphone"),
    Row({R!EARPIECE}, "earpiece"),
    Row({R!ANLG_DOCK_HEADSET}, "dock"), Row({R!DGTL_DOCK_HEADSET}, "dock"),
    Row(R!ALL_SCO, "sco-out"),
    Row(R!IN_BUILTIN_MIC \cup {R!BIT_IN}, "builtin-mic"),
    Row(R!IN_BACK_MIC \cup {R!BIT_IN}, "back-mic"),
    Row(R!IN_WIRED_HEADSET \cup {R!BIT_IN}, "headset-in"),
    Row(R!IN_SCO_HEADSET \cup {R!BIT_IN}, "sco-in") >>

\* SelectSeq, by a flattening: the elements of s with Test, in their order.
Those(s, Test(_)) ==
    FlattenSeq([i \in 1 .. Len(s) |-> IF Test(s[i]) THEN <<s[i]>> ELSE <<>>])

RowsNamed(name) == Those(DevNames, LAMBDA row : row.name = name)
EmptySection(row) == [mask |-> row.mask, on |-> <<>>, off |-> <<>>]

\* set_route_by_array stops at a control the mixer does not have; a value the
\* control does not take is skipped.  The value a route leaves in control x:
Reached(route) ==
    {i \in 1 .. Len(route) : \A j \in 1 .. i : route[j].ctl \in Controls}
Settings(route, x) ==
    {i \in Reached(route) : route[i].ctl = x /\ route[i].val \in Accepts[x]}

Value(route, x) ==
    IF Settings(route, x) = {} THEN NoVal
    ELSE route[CHOOSE i \in Settings(route, x) : \A j \in Settings(route, x) : j <= i].val

SetRouteByArray(m, route) ==
    [x \in Controls |-> IF Value(route, x) = NoVal THEN m[x] ELSE Value(route, x)]

-----------------------------------------------------------------------------
Element  == doc[e + 1]
ThisPath == Element.paths[p + 1]

Init ==
    /\ pc = "start" /\ doc \in Documents
    /\ inside = "file" /\ e = 0 /\ p = 0 /\ n = 0
    /\ dev = 0 /\ on = FALSE /\ path = <<>>
    /\ dev_cfgs = <<>> /\ device_has_earpiece = FALSE
    /\ mixer = [x \in Controls |-> BootValue] /\ dropped = FALSE

\* adev_config_parse up to its loop.  A variant that can be opened but not
\* read is no error: the device is then opened without any section.
OpenConfig ==
    /\ pc = "start"
    /\ pc' \in {"parse", "select", "failed"}
    /\ UNCHANGED <<doc, cursor_vars, state_vars, cfg_vars, mixer, dropped>>

\* adev_config_start of a device: a section for every row of that name, of
\* which s->dev is the last.  It stays NULL for an unknown name.
StartDevice ==
    /\ pc = "parse" /\ inside = "file"
    /\ e < Len(doc) /\ Element.kind = "device"
    /\ LET rows == RowsNamed(Element.name) IN
       \E k \in 0 .. Len(rows) :
          /\ dropped => k = Len(rows)
          /\ dev_cfgs' = dev_cfgs \o [i \in 1 .. k |-> EmptySection(rows[i])]
          /\ dev' = IF k > 0 THEN Len(dev_cfgs') ELSE dev
          /\ dropped' = (dropped \/ k < Len(rows))
          /\ device_has_earpiece' =
                (device_has_earpiece \/ (k > 0 /\ Element.name = "earpiece"))
    /\ inside' = "device" /\ p' = 0
    /\ UNCHANGED <<pc, doc, e, n, on, path, mixer>>

\* adev_config_start of a path.  One of unknown name keeps the role of the
\* path before, whichever device that was in.
StartPath ==
    /\ pc = "parse"
    /\ \/ inside = "file" /\ e < Len(doc) /\ Element.kind = "path" /\ p' = 0
       \/ inside = "device" /\ p < Len(Element.paths) /\ p' = p
    /\ inside' = "path" /\ n' = 0
    /\ on' = IF dev # 0 /\ Element.paths[p' + 1].role \in {"on", "off"}
             THEN Element.paths[p' + 1].role = "on"
             ELSE on
    /\ UNCHANGED <<pc, doc, e, dev, path, cfg_vars, mixer, dropped>>

\* adev_config_start of a control.
StartControl ==
    /\ pc = "parse" /\ inside = "path" /\ n < Len(ThisPath.ctls)
    /\ n' = n + 1
    /\ LET setting == ThisPath.ctls[n + 1] IN
       IF setting.ctl = NoName \/ setting.val = NoVal
       THEN UNCHANGED <<path, dropped>>
       ELSE \/ path' = Append(path, setting) /\ UNCHANGED dropped
            \/ ~dropped /\ dropped' = TRUE /\ UNCHANGED path
    /\ UNCHANGED <<pc, doc, inside, e, p, dev, on, cfg_vars, mixer>>

\* Mutant of the next definition: the path just kept is not taken from s.
BugTakenPath == path

\* The end of adev_config_end of a path.
TakenPath == <<>>

\* Mutant of the next definition: the "off" route is kept, not applied.
BugApplied == dev = 0

\* A default route is applied and forgotten, an "off" route applied and kept.
Applied == dev = 0 \/ ~on

\* adev_config_end of a path.
EndPath ==
    /\ pc = "parse" /\ inside = "path" /\ n = Len(ThisPath.ctls)
    /\ mixer' = IF Applied THEN SetRouteByArray(mixer, path) ELSE mixer
    /\ dev_cfgs' = [k \in 1 .. Len(dev_cfgs) |->
                       IF k # dev THEN dev_cfgs[k]
                       ELSE IF on THEN [dev_cfgs[k] EXCEPT !.on = path]
                       ELSE [dev_cfgs[k] EXCEPT !.off = path]]
    /\ path' = TakenPath
    /\ inside' = IF Element.kind = "device" THEN "device" ELSE "file"
    /\ p' = p + 1
    /\ e' = IF Element.kind = "device" THEN e ELSE e + 1
    /\ UNCHANGED <<pc, doc, n, dev, on, device_has_earpiece, dropped>>

\* adev_config_end of a device.
EndDevice ==
    /\ pc = "parse" /\ inside = "device" /\ p = Len(Element.paths)
    /\ inside' = "file" /\ e' = e + 1
    /\ dev' = 0
    /\ UNCHANGED <<pc, doc, p, n, on, path, cfg_vars, mixer, dropped>>

EndFile ==
    /\ pc = "parse" /\ inside = "file" /\ e = Len(doc)
    /\ pc' = "select"
    /\ UNCHANGED <<doc, cursor_vars, state_vars, cfg_vars, mixer, dropped>>

\* A read or a parse error, which fails adev_open with the mixer as it is.
ParseFails ==
    /\ pc = "parse"
    /\ pc' = "failed"
    /\ UNCHANGED <<doc, cursor_vars, state_vars, cfg_vars, mixer, dropped>>

TouchedBy(word) ==
    Those([k \in 1 .. Len(dev_cfgs) |-> k], LAMBDA k : dev_cfgs[k].mask \cap word # {})

\* adev_open: select_devices with no device active yet.
SelectDefault ==
    /\ pc = "select"
    /\ pc' = "opened"
    /\ LET touched == TouchedBy({R!SPEAKER}) \o TouchedBy(R!IN_BUILTIN_MIC)
       IN  mixer' = FoldLeft(SetRouteByArray, mixer,
                             [i \in 1 .. Len(touched) |-> dev_cfgs[touched[i]].on])
    /\ UNCHANGED <<doc, cursor_vars, state_vars, cfg_vars, dropped>>

Next ==
    \/ OpenConfig
    \/ StartDevice \/ StartPath \/ StartControl
    \/ EndPath \/ EndDevice \/ EndFile
    \/ ParseFails
    \/ SelectDefault

Spec == Init /\ [][Next]_vars

-----------------------------------------------------------------------------
(* What the file says, read as a whole.                                    *)

Known(el)     == el.kind = "device" /\ el.name \in AllNames
WellNamed(el) == Known(el) => \A i \in 1 .. Len(el.paths) : el.paths[i].role \in {"on", "off"}
Usable(ctls)  == Those(ctls, LAMBDA s : s.ctl # NoName /\ s.val # NoVal)

RouteNamed(el, role) ==
    LET i == SelectLastInSeq(el.paths, LAMBDA q : q.role = role)
    IN  IF i = 0 THEN <<>> ELSE Usable(el.paths[i].ctls)

\* The sections of an element, the routes in the last of them.
SectionsOf(el) ==
    IF ~Known(el) THEN <<>>
    ELSE LET rows == RowsNamed(el.name) IN
         [i \in 1 .. Len(rows) |->
            IF i < Len(rows) THEN EmptySection(rows[i])
            ELSE [mask |-> rows[i].mask, on |-> RouteNamed(el, "on"),
                                         off |-> RouteNamed(el, "off")]]

\* The routes parsing applies, in the order of the file.
AppliedRoutes(el) ==
    FlattenSeq([i \in 1 .. Len(el.paths) |->
                   IF ~Known(el) \/ el.paths[i].role = "off"
                   THEN <<Usable(el.paths[i].ctls)>> ELSE <<>>])

Flat(Op(_), k) == FlattenSeq([i \in 1 .. k |-> Op(doc[i])])

\* Each device of the file has its sections, in order, and the last of them
\* has exactly the device's own "on" and "off" controls, whatever devices,
\* default routes and incomplete controls stand around it: nothing of the
\* state the callbacks share leaks from one element to the next.  A path of
\* unknown name spoils its own device only.
SectionsMatchFile ==
    ~dropped /\ inside = "file" =>
        /\ Len(dev_cfgs) = Len(Flat(SectionsOf, e))
        /\ \A k \in 1 .. Len(dev_cfgs) :
              \/ dev_cfgs[k] = Flat(SectionsOf, e)[k]
              \/ \E i \in 1 .. e :
                    /\ ~WellNamed(doc[i])
                    /\ k \in Len(Flat(SectionsOf, i - 1)) + 1 .. Len(Flat(SectionsOf, i))
        /\ device_has_earpiece <=>
              \E i \in 1 .. e : doc[i].kind = "device" /\ doc[i].name = "earpiece"

\* "Apply it, we'll reenable anything that's wanted later": when the device is
\* open, every control that a section of the default route turns on has one of
\* the values these sections give it, though "off" routes were applied while
\* the file was read; every other control has what the file applied last.  The
\* sections are those of DeviceRoutes' default route.
MixerAfterOpen ==
    pc = "opened" /\ e = Len(doc) /\ ~dropped /\ (\A i \in 1 .. e : WellNamed(doc[i])) =>
        \A x \in Controls :
            LET wanted == {Value(RouteNamed(doc[i], "on"), x) :
                              i \in {j \in 1 .. e : Known(doc[j]) /\ doc[j].name \in R!DefaultRoute.on}}
                          \ {NoVal}
                routes == Flat(AppliedRoutes, e)
                last   == SelectLastInSeq(routes, LAMBDA q : Value(q, x) # NoVal)
            IN  IF wanted # {} THEN mixer[x] \in wanted
                ELSE mixer[x] = IF last = 0 THEN BootValue ELSE Value(routes[last], x)
=============================================================================
