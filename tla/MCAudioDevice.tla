---------------------------- MODULE MCAudioDevice ----------------------------
(* Files of up to two elements: every combination of a default route, a     *)
(* device of the default route, one touched by its input word only, one     *)
(* with two sections, one of an unknown name, with the paths below.  Calls  *)
(* are made with the empty file.                                            *)
EXTENDS AudioDevice

Set(x, v) == [ctl |-> x, val |-> v]

MCControls == {"volume", "switch"}
MCAccepts  == [x \in MCControls |-> {"0", "1"}]
MCLists    == { <<Set("volume", "1"), Set("switch", "0")>>,
                <<Set("volume", "1"), Set("volume", "0"), Set("volume", NoVal)>>,
                <<Set("switch", "1"), Set("absent", "1"), Set("volume", "2")>> }

Path(role, ctls) == [role |-> role, ctls |-> ctls]
MCBodies  == {<<>>} \cup {<<Path("other", a)>> : a \in MCLists}
             \cup {<<Path("on", a), Path("off", b)>> : a, b \in MCLists}
             \cup {<<Path("off", a), Path("on", a)>> : a \in MCLists}
MCNames   == {"speaker", "headphone", "dock", "earpiece", "loudspeaker"}
MCDevices == [kind : {"device"}, name : MCNames, paths : MCBodies]
MCDefault == {[kind |-> "path", paths |-> <<Path(NoName, a)>>] : a \in MCLists}

MCSecond  == {d \in MCDevices : d.name \in {"speaker", "headphone", "loudspeaker"}
                                /\ Len(d.paths) = 2
                                /\ d.paths[1].role = "on"}

MCDocuments == SeqOf(MCDefault, 1) \cup SeqOf(MCDevices, 1)
               \cup {<<a, b>> : a \in MCDefault, b \in MCDevices}
               \cup {<<a, b>> : a \in MCDevices, b \in MCDefault \cup MCSecond}
MCCallDocuments == {<<>>}
MCPaths   == {"HANDSET", "SPEAKER"}
MCVolumes == {30, 100}
=============================================================================
