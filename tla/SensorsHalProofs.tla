-------------------------- MODULE SensorsHalProofs --------------------------
(***************************************************************************)
(* Theorems about SensorsHal, for any sensors the framework uses and any   *)
(* of them reporting, any buffer, rings, queues and wake pipe.             *)
(***************************************************************************)
EXTENDS SensorsHal, SequenceTheorems, TLAPS

-----------------------------------------------------------------------------
(* The parts of the inductive invariant.                                    *)

Shared == {"acceleration", "magnetic"}

\* The chains of drivers an activate call can have before it.
All3 == <<"acceleration", "magnetic", "orientation">>
Pair(d) == <<d, "orientation">>
Chains == {<<d>> : d \in Drivers} \cup {Pair(d) : d \in Shared} \cup {All3}

\* The driver d comes first in a chain, or second.
First(d, t) == t = <<d>> \/ (d \in Shared /\ t = Pair(d)) \/ (d = "acceleration" /\ t = All3)
Second(d, t) == d = "magnetic" /\ t = All3

\* Where a call stands: a call without drivers is over, and only the
\* proximity sensor, where there is one, looks at its state.
CallShape ==
    /\ todo \in Chains \cup {<<>>}
    /\ apc # "idle" <=> todo # <<>>
    /\ (pending \/ apc = "initialState" \/ todo = <<"proximity">>) => hasProximity

\* The shared sensors a call has yet to switch.
Remaining(d) == IF apc = "enable" THEN First(d, todo) \/ Second(d, todo)
                ELSE Second(d, todo)

\* A call that has yet to switch a shared sensor does what is wanted of it;
\* what the others need was done before.
PowerFollows ==
    ~enableFailed =>
        \A d \in Shared :
            IF Remaining(d) THEN enable <=> Wanted(d)
            ELSE /\ Wanted(d) => enabled[d]
                 /\ (~Wanted(d) /\ d \in touched) => ~enabled[d]

\* While the orientation sensor is active no call switches them off.
FusionCalls ==
    oriActive => \A d \in Shared : (First(d, todo) \/ Second(d, todo)) => enable

\* The scan: its index, and the buffer, which never runs over.
Scanning ==
    /\ ppc = "poll" => i = 1
    /\ ppc \in {"read", "fill"} => i \in 1 .. 5 /\ count # 0
    /\ count \in Nat

\* Past the proximity sensor's test of its flag, an initial state to report
\* has its wake byte.
PastTest == ppc = "poll" \/ (ppc = "scan" /\ i = 6) \/ (ppc = "fill" /\ i = 5)
PastProximity == (pending /\ PastTest) => pipe > 0 \/ apc = "wake"

\* What poll found ready still is, until a buffer is filled: so a driver goes
\* on to fill only with a sample to read.
ReadyIsThere == ~filled => \A d \in Drivers : revents[d] => queue[d] > 0
FillsReady ==
    /\ ppc = "read" => revents[Scan[i]] \/ HasPending(Scan[i])
    /\ ppc = "fill" => revents[Scan[i]]

IInv == /\ TypeOK /\ CallShape /\ PowerFollows /\ FusionCalls
        /\ Scanning /\ PastProximity /\ FitsBuffer /\ ReadyIsThere /\ FillsReady

-----------------------------------------------------------------------------
(* The chains and the minimum.                                              *)

LEMMA MinOfTwo ==
    ASSUME NEW a \in Int, NEW b \in Int
    PROVE  /\ Min({a, b}) \in {a, b}
           /\ Min({a, b}) <= a /\ Min({a, b}) <= b
<1>1. \E x \in {a, b} : \A y \in {a, b} : x =< y
    <2>1. CASE a <= b
        BY <2>1
    <2>2. CASE b <= a
        BY <2>2
    <2>3. QED BY <2>1, <2>2
<1>2. QED BY <1>1 DEF Min

LEMMA ScanFacts ==
    /\ Len(Scan) = 5 /\ Scan[5] = "proximity"
    /\ \A k \in 1 .. 5 : Scan[k] \in Drivers
    /\ \A k \in 1 .. 4 : Scan[k] # "proximity"
BY DEF Scan, Drivers

LEMMA ChainFacts ==
    /\ \A d \in Drivers : <<d>> # <<>> /\ Head(<<d>>) = d /\ Tail(<<d>>) = <<>>
    /\ \A d \in Shared : /\ Pair(d) # <<>> /\ Head(Pair(d)) = d
                         /\ Tail(Pair(d)) = <<"orientation">>
    /\ All3 # <<>> /\ Head(All3) = "acceleration" /\ Tail(All3) = Pair("magnetic")
    /\ Chains \subseteq Seq(Drivers) /\ <<>> \in Seq(Drivers)
<1>1. \A d \in Drivers : <<d>> # <<>> /\ Head(<<d>>) = d /\ Tail(<<d>>) = <<>> /\ <<d>> \in Seq(Drivers)
    OBVIOUS
<1>2. \A d \in Shared : /\ Pair(d) # <<>> /\ Head(Pair(d)) = d
                        /\ Tail(Pair(d)) = <<"orientation">>
                        /\ Pair(d) \in Seq(Drivers)
    BY DEF Pair, Shared, Drivers
<1>3. /\ All3 # <<>> /\ Head(All3) = "acceleration" /\ Tail(All3) = Pair("magnetic")
      /\ All3 \in Seq(Drivers)
    BY DEF All3, Pair, Drivers
<1>4. <<>> \in Seq(Drivers)
    OBVIOUS
<1>5. QED BY <1>1, <1>2, <1>3, <1>4 DEF Chains

\* Chains of different lengths, or with different drivers, differ.
LEMMA ChainsDiffer ==
    /\ \A d, e \in Drivers : (<<d>> = <<e>>) => d = e
    /\ \A d, e \in Shared : (Pair(d) = Pair(e)) => d = e
    /\ \A d \in Drivers, e \in Shared : <<d>> # Pair(e)
    /\ \A d \in Drivers : <<d>> # All3
    /\ \A e \in Shared : Pair(e) # All3
<1>1. \A d, e \in Drivers : (<<d>> = <<e>>) => d = e
    OBVIOUS
<1>2. \A d, e \in Shared : (Pair(d) = Pair(e)) => d = e
    BY DEF Pair
<1>3. /\ \A d \in Drivers : Len(<<d>>) = 1
      /\ \A e \in Shared : Len(Pair(e)) = 2
      /\ Len(All3) = 3
    BY DEF Pair, All3
<1>4. QED BY <1>1, <1>2, <1>3

\* What Enable and Wake do to a chain.
LEMMA ChainStep ==
    ASSUME NEW t \in Chains
    PROVE  /\ t # <<>> /\ Head(t) \in Drivers /\ Tail(t) \in Chains \cup {<<>>}
           /\ Head(t) = "proximity" <=> t = <<"proximity">>
           /\ Tail(t) # <<"proximity">>
           /\ \A d \in Shared : /\ First(d, t) <=> Head(t) = d
                                /\ Second(d, t) <=> First(d, Tail(t))
                                /\ ~Second(d, Tail(t))
                                /\ ~(First(d, t) /\ Second(d, t))
<1>1. CASE t = All3
    BY <1>1, ChainFacts, ChainsDiffer DEF First, Second, Chains, Shared, Drivers
<1>2. CASE \E e \in Shared : t = Pair(e)
    <2>1. PICK e \in Shared : t = Pair(e)
        BY <1>2
    <2>2. t # <<>> /\ Head(t) = e /\ Tail(t) = <<"orientation">>
        BY <2>1, ChainFacts
    <2>3. /\ Head(t) \in Drivers /\ Tail(t) \in Chains \cup {<<>>}
          /\ Head(t) # "proximity" /\ t # <<"proximity">> /\ Tail(t) # <<"proximity">>
        BY <2>1, <2>2, ChainsDiffer DEF Chains, Shared, Drivers
    <2>4. t # All3 /\ Tail(t) # All3
        BY <2>1, <2>2, ChainsDiffer DEF Drivers
    <2>5. \A d \in Shared : /\ t # <<d>> /\ Tail(t) # <<d>> /\ Tail(t) # Pair(d)
                            /\ t = Pair(d) <=> d = e
        BY <2>1, <2>2, ChainsDiffer DEF Drivers, Shared
    <2>6. QED BY <2>2, <2>3, <2>4, <2>5 DEF First, Second
<1>3. CASE \E e \in Drivers : t = <<e>>
    <2>1. PICK e \in Drivers : t = <<e>>
        BY <1>3
    <2>2. t # <<>> /\ Head(t) = e /\ Tail(t) = <<>>
        BY <2>1, ChainFacts
    <2>3. \A d \in Drivers : t = <<d>> <=> d = e
        BY <2>1, ChainsDiffer
    <2>4. \A d \in Shared : t # Pair(d) /\ Tail(t) # <<d>> /\ Tail(t) # Pair(d)
        BY <2>1, <2>2, ChainsDiffer, ChainFacts DEF Shared, Drivers
    <2>5. t # All3 /\ Tail(t) # All3 /\ Tail(t) # <<"proximity">>
        BY <2>1, <2>2, ChainsDiffer, ChainFacts DEF Drivers
    <2>6. QED BY <2>2, <2>3, <2>4, <2>5 DEF First, Second, Shared, Drivers, Chains
<1>4. QED BY <1>1, <1>2, <1>3 DEF Chains

\* Nothing is left to do in an empty chain.
LEMMA EmptyChain ==
    /\ <<>> \notin Chains
    /\ \A d \in Shared : ~First(d, <<>>) /\ ~Second(d, <<>>)
BY ChainFacts DEF Chains, First, Second, Shared, Drivers

\* A sequence with one more element.
LEMMA ConcatOne ==
    ASSUME NEW S, NEW s \in Seq(S), NEW t \in Seq(S), NEW u \in Seq(S),
           Len(t) = 1, Len(u) = Len(s) + 1, u[Len(s) + 1] = t[1],
           \A k \in 1 .. Len(s) : u[k] = s[k]
    PROVE  s \o t = u
<1>1. /\ s \o t \in Seq(S) /\ Len(s \o t) = Len(s) + Len(t)
      /\ \A k \in 1 .. Len(s) + Len(t) :
            (s \o t)[k] = IF k <= Len(s) THEN s[k] ELSE t[k - Len(s)]
    BY ConcatProperties, Zenon
<1>2. Len(s) \in Nat
    BY LenProperties, Zenon
<1>3. Len(s \o t) = Len(u)
    BY <1>1
<1>4. \A k \in 1 .. Len(s \o t) : (s \o t)[k] = u[k]
    BY <1>1, <1>2
<1>5. QED BY <1>1, <1>3, <1>4, SeqEqual, Zenon

\* The chains the orientation sensor is given.
LEMMA ConcatFacts ==
    /\ (<<>> \o <<>>) \o <<"orientation">> = <<"orientation">>
    /\ (<<>> \o <<"magnetic">>) \o <<"orientation">> = Pair("magnetic")
    /\ (<<"acceleration">> \o <<>>) \o <<"orientation">> = Pair("acceleration")
    /\ (<<"acceleration">> \o <<"magnetic">>) \o <<"orientation">> = All3
<1> DEFINE o == <<"orientation">>  m == <<"magnetic">>  a == <<"acceleration">>
           am == <<"acceleration", "magnetic">>
<1>1. /\ o \in Seq(Drivers) /\ m \in Seq(Drivers) /\ a \in Seq(Drivers)
      /\ am \in Seq(Drivers) /\ <<>> \in Seq(Drivers)
      /\ Pair("magnetic") \in Seq(Drivers) /\ Pair("acceleration") \in Seq(Drivers)
      /\ All3 \in Seq(Drivers)
    BY DEF Pair, All3, Drivers
<1>2. /\ Len(o) = 1 /\ o[1] = "orientation" /\ Len(m) = 1 /\ m[1] = "magnetic"
      /\ Len(a) = 1 /\ a[1] = "acceleration"
      /\ Len(am) = 2 /\ am[1] = "acceleration" /\ am[2] = "magnetic"
    OBVIOUS
<1>3. /\ \A d \in Shared : Len(Pair(d)) = 2 /\ Pair(d)[1] = d /\ Pair(d)[2] = "orientation"
      /\ Len(All3) = 3 /\ All3[1] = "acceleration" /\ All3[2] = "magnetic"
      /\ All3[3] = "orientation"
    BY DEF Pair, All3
<1>4. "magnetic" \in Shared /\ "acceleration" \in Shared
    BY DEF Shared
<1> HIDE DEF o, m, a, am
<1>5. <<>> \o <<>> = <<>> /\ <<>> \o o = o /\ <<>> \o m = m /\ a \o <<>> = a
    BY <1>1, ConcatEmptySeq
<1>6. m \o o = Pair("magnetic")
    <2>1. /\ Len(o) = 1 /\ Len(Pair("magnetic")) = Len(m) + 1 /\ Pair("magnetic")[Len(m) + 1] = o[1]
          /\ \A k \in 1 .. Len(m) : Pair("magnetic")[k] = m[k]
        BY <1>2, <1>3, <1>4
    <2>2. QED BY <1>1, <2>1, ConcatOne, Zenon
<1>7. a \o o = Pair("acceleration")
    <2>1. /\ Len(o) = 1 /\ Len(Pair("acceleration")) = Len(a) + 1 /\ Pair("acceleration")[Len(a) + 1] = o[1]
          /\ \A k \in 1 .. Len(a) : Pair("acceleration")[k] = a[k]
        BY <1>2, <1>3, <1>4
    <2>2. QED BY <1>1, <2>1, ConcatOne, Zenon
<1>8. a \o m = am
    <2>1. /\ Len(m) = 1 /\ Len(am) = Len(a) + 1 /\ am[Len(a) + 1] = m[1]
          /\ \A k \in 1 .. Len(a) : am[k] = a[k]
        BY <1>2
    <2>2. QED BY <1>1, <2>1, ConcatOne, Zenon
<1>9. am \o o = All3
    <2>1. /\ Len(o) = 1 /\ Len(All3) = Len(am) + 1 /\ All3[Len(am) + 1] = o[1]
          /\ \A k \in 1 .. Len(am) : All3[k] = am[k]
        BY <1>2, <1>3
    <2>2. QED BY <1>1, <2>1, ConcatOne, Zenon
<1>10. QED BY <1>5, <1>6, <1>7, <1>8, <1>9 DEF o, m, a, am

\* The drivers a call switches: a chain, of which the orientation sensor's
\* leaves out those the framework uses.
LEMMA SwitchedShape ==
    ASSUME NEW h \in Drivers
    PROVE  /\ Switched(h) \in Chains \cup {<<>>}
           /\ Switched(h) = <<"proximity">> => h = "proximity"
           /\ h = "orientation" =>
                /\ Switched(h) # <<>>
                /\ \A d \in Shared : First(d, Switched(h)) \/ Second(d, Switched(h))
                                     <=> ~(IF d = "acceleration" THEN accActive ELSE magActive)
           /\ h \in Shared =>
                /\ oriActive => Switched(h) = <<>>
                /\ ~oriActive => Switched(h) = <<h>>
           /\ h \in Drivers \ (Shared \cup {"orientation"}) => Switched(h) = <<h>>
<1>1. CASE h = "orientation"
    <2>1. Switched(h) = IF accActive THEN IF magActive THEN <<"orientation">> ELSE Pair("magnetic")
                        ELSE IF magActive THEN Pair("acceleration") ELSE All3
        <3>1. /\ (<<>> \o <<>>) \o <<"orientation">> = <<"orientation">>
              /\ (<<>> \o <<"magnetic">>) \o <<"orientation">> = Pair("magnetic")
            BY ConcatFacts
        <3>2. /\ (<<"acceleration">> \o <<>>) \o <<"orientation">> = Pair("acceleration")
              /\ (<<"acceleration">> \o <<"magnetic">>) \o <<"orientation">> = All3
            BY ConcatFacts
        <3>3. Switched(h) = ((IF accActive THEN <<>> ELSE <<"acceleration">>)
                             \o (IF magActive THEN <<>> ELSE <<"magnetic">>)) \o <<"orientation">>
            BY <1>1 DEF Switched
        <3>4. CASE accActive
            BY <3>1, <3>3, <3>4
        <3>5. CASE ~accActive
            BY <3>2, <3>3, <3>5
        <3>6. QED BY <3>4, <3>5
    <2>2. QED BY <1>1, <2>1, ChainFacts, ChainsDiffer
              DEF Chains, First, Second, Shared, Drivers
<1>2. CASE h \in Shared
    BY <1>2, ChainsDiffer, ChainFacts DEF Switched, Chains, Shared, Drivers
<1>3. CASE h \in Drivers \ (Shared \cup {"orientation"})
    BY <1>3, ChainsDiffer DEF Switched, Chains, Shared, Drivers
<1>4. QED BY <1>1, <1>2, <1>3

-----------------------------------------------------------------------------
(* The initial state, and what the steps leave alone.                       *)

LEMMA Bounds ==
    /\ Count \in Nat \ {0} /\ RingSize \in Nat \ {0} /\ QueueBound \in Nat \ {0}
    /\ PipeSize \in Nat \ {0} /\ Errno \in Nat \ {0}
BY BoundAssumption

LEMMA InitIInv == Init => IInv
<1> SUFFICES ASSUME Init PROVE IInv
    OBVIOUS
<1> USE DEF Init
<1>1. TypeOK
    <2>1. queue \in [Drivers -> 0 .. QueueBound] /\ ring \in [Drivers -> 0 .. RingSize]
        BY Bounds
    <2>2. enabled \in [Drivers -> BOOLEAN] /\ revents \in [Drivers -> BOOLEAN]
        BY DEF Present
    <2>3. i \in 1 .. Len(Scan) + 1 /\ count \in Int /\ nb \in Int /\ pipe \in 0 .. PipeSize
        BY Bounds, ScanFacts
    <2>4. todo \in Seq(Drivers) /\ pending \in BOOLEAN /\ stray \in BOOLEAN
        <3>1. todo \in Seq(Drivers)
            BY ChainFacts
        <3>2. pending \in BOOLEAN /\ stray \in BOOLEAN
            BY Zenon
        <3>3. QED BY <3>1, <3>2
    <2>5. QED BY <2>1, <2>2, <2>3, <2>4 DEF TypeOK
<1>2. CallShape
    BY ChainFacts DEF CallShape, Drivers
<1>3. PowerFollows
    BY EmptyChain DEF PowerFollows, Remaining, Wanted
<1>4. FusionCalls /\ PastProximity
    BY DEF FusionCalls, PastProximity, PastTest
<1>5. Scanning /\ FitsBuffer
    BY Bounds DEF Scanning, FitsBuffer
<1>6. ReadyIsThere /\ FillsReady
    BY DEF ReadyIsThere, FillsReady
<1>7. QED BY <1>1, <1>2, <1>3, <1>4, <1>5, <1>6 DEF IInv

\* A step of the poller disturbs no switch.
LEMMA PowerFrame ==
    ASSUME IInv, UNCHANGED <<enabled, active, activation, touched, enableFailed>>
    PROVE  PowerFollows' /\ FusionCalls'
BY DEF IInv, PowerFollows, FusionCalls, Remaining, First, Second, Wanted, active, activation

LEMMA CallFrame ==
    ASSUME IInv, UNCHANGED <<hasProximity, activation>>, pending' => pending
    PROVE  CallShape'
BY DEF IInv, CallShape, activation

\* A step of the activating thread does not move the scan.
LEMMA ScanFrame ==
    ASSUME IInv, UNCHANGED polling, readFailed' = readFailed
    PROVE  Scanning' /\ FitsBuffer'
BY DEF IInv, Scanning, FitsBuffer, polling

\* Neither does it, or a report, make less ready.
LEMMA ReadyFrame ==
    ASSUME IInv, UNCHANGED <<revents, polling, filled>>, pending => pending',
           \A d \in Drivers : queue[d] > 0 => queue'[d] > 0
    PROVE  ReadyIsThere' /\ FillsReady'
<1>1. ReadyIsThere'
    BY DEF IInv, ReadyIsThere
<1>2. FillsReady'
    BY DEF IInv, FillsReady, HasPending, polling
<1>3. QED BY <1>1, <1>2

-----------------------------------------------------------------------------
(* activate.                                                                *)

LEMMA ReportKeeps ==
    ASSUME IInv, NEW d \in Drivers, Report(d)
    PROVE  IInv'
<1> USE DEF hardware, polling, history, activation
<1>1. TypeOK'
    <2>1. queue' \in [Drivers -> 0 .. QueueBound]
        BY Bounds DEF Report, IInv, TypeOK
    <2>2. QED BY <2>1 DEF Report, IInv, TypeOK, active
<1>2. PowerFollows' /\ FusionCalls' /\ CallShape' /\ Scanning' /\ FitsBuffer'
    BY PowerFrame, CallFrame, ScanFrame DEF Report
<1>3. PastProximity'
    BY DEF Report, IInv, PastProximity, PastTest
<1>4. ReadyIsThere' /\ FillsReady'
    <2>1. \A e \in Drivers : queue[e] > 0 => queue'[e] > 0
        BY DEF Report, IInv, TypeOK
    <2>2. UNCHANGED <<revents, polling, filled>> /\ pending' = pending
        BY DEF Report
    <2>3. QED BY <2>1, <2>2, ReadyFrame
<1>5. QED BY <1>1, <1>2, <1>3, <1>4 DEF IInv

LEMMA ActivateKeeps ==
    ASSUME IInv, NEW h \in Drivers, NEW on \in BOOLEAN, Activate(h, on)
    PROVE  IInv'
<1> USE DEF hardware, polling, history
<1>u. UNCHANGED <<hardware, enabled, pending, queue, ring, revents, pipe, polling, history>>
    BY DEF Activate
<1>c. /\ apc = "idle" /\ todo = <<>> /\ todo' = Switched(h) /\ enable' = on
      /\ apc' = IF todo' = <<>> THEN "idle" ELSE "enable"
      /\ h = "proximity" => hasProximity
    BY DEF Activate, IInv, CallShape, Present
<1>a. /\ oriActive' = (IF h = "orientation" THEN on ELSE oriActive)
      /\ accActive' = (IF h = "acceleration" THEN on ELSE accActive)
      /\ magActive' = (IF h = "magnetic" THEN on ELSE magActive)
    BY DEF Activate
<1>1. CallShape'
    BY <1>u, <1>c, SwitchedShape, EmptyChain DEF IInv, CallShape
<1>2. TypeOK'
    <2>1. todo' \in Seq(Drivers)
        BY <1>1, ChainFacts DEF CallShape
    <2>2. QED BY <1>u, <1>c, <1>a, <2>1 DEF IInv, TypeOK
<1>r. \A d \in Shared : ~Remaining(d)
    BY <1>c, EmptyChain DEF Remaining
<1>o. ~enableFailed => \A d \in Shared : /\ Wanted(d) => enabled[d]
                                         /\ (~Wanted(d) /\ d \in touched) => ~enabled[d]
    BY <1>r DEF IInv, PowerFollows
<1>n. \A d \in Shared : Remaining(d)' <=> First(d, todo') \/ Second(d, todo')
    BY <1>c, EmptyChain DEF Remaining
<1>3. PowerFollows'
    <2> SUFFICES ASSUME ~enableFailed, NEW d \in Shared
                 PROVE  IF Remaining(d)' THEN enable' <=> Wanted(d)'
                        ELSE /\ Wanted(d)' => enabled[d]
                             /\ (~Wanted(d)' /\ d \in touched) => ~enabled[d]
        BY <1>u DEF PowerFollows
    <2>1. CASE h = "orientation"
        <3>1. Remaining(d)' <=> ~(IF d = "acceleration" THEN accActive ELSE magActive)
            BY <1>c, <1>n, <2>1, SwitchedShape
        <3>2. Wanted(d)' <=> on \/ (IF d = "acceleration" THEN accActive ELSE magActive)
            BY <1>a, <2>1 DEF Wanted
        <3>3. (IF d = "acceleration" THEN accActive ELSE magActive) => enabled[d]
            BY <1>o DEF Wanted
        <3>4. QED BY <1>c, <3>1, <3>2, <3>3
    <2>2. CASE h \in Shared /\ oriActive
        <3>1. ~Remaining(d)'
            BY <1>c, <1>n, <2>2, SwitchedShape, EmptyChain
        <3>2. Wanted(d) /\ Wanted(d)'
            BY <1>a, <2>2 DEF Wanted, Shared
        <3>3. QED BY <1>o, <3>1, <3>2
    <2>3. CASE h \in Shared /\ ~oriActive
        <3>1. todo' = <<h>>
            BY <1>c, <2>3, SwitchedShape
        <3>2. Remaining(d)' <=> d = h
            BY <1>n, <3>1, <2>3, ChainsDiffer DEF First, Second, Shared, Drivers
        <3>3. d = h => (Wanted(d)' <=> on)
            BY <1>a, <2>3 DEF Wanted, Shared
        <3>4. d # h => (Wanted(d)' <=> Wanted(d))
            BY <1>a, <2>3 DEF Wanted, Shared
        <3>5. QED BY <1>c, <1>o, <3>2, <3>3, <3>4
    <2>4. CASE h \in Drivers \ (Shared \cup {"orientation"})
        <3>1. todo' = <<h>>
            BY <1>c, <2>4, SwitchedShape
        <3>2. ~Remaining(d)'
            BY <1>n, <3>1, <2>4, ChainsDiffer DEF First, Second, Shared, Drivers
        <3>3. Wanted(d)' <=> Wanted(d)
            BY <1>a, <2>4 DEF Wanted, Shared
        <3>4. QED BY <1>o, <3>2, <3>3
    <2>5. QED BY <2>1, <2>2, <2>3, <2>4
<1>4. FusionCalls'
    <2> SUFFICES ASSUME oriActive', NEW d \in Shared, First(d, todo') \/ Second(d, todo')
                 PROVE  enable'
        BY DEF FusionCalls
    <2>1. CASE h = "orientation"
        BY <1>a, <1>c, <2>1
    <2>2. CASE h # "orientation"
        <3>1. oriActive
            BY <1>a, <2>2
        <3>2. h \notin Shared
            BY <1>c, <3>1, SwitchedShape, EmptyChain
        <3>3. todo' = <<h>>
            BY <1>c, <2>2, <3>2, SwitchedShape
        <3>4. ~First(d, todo') /\ ~Second(d, todo')
            BY <3>2, <3>3, ChainsDiffer DEF First, Second, Shared, Drivers
        <3>5. QED BY <3>4
    <2>3. QED BY <2>1, <2>2
<1>5. Scanning' /\ FitsBuffer'
    BY <1>u, ScanFrame
<1>6. PastProximity'
    BY <1>u, <1>c DEF IInv, PastProximity, PastTest
<1>7. ReadyIsThere' /\ FillsReady'
    BY <1>u, ReadyFrame
<1>8. QED BY <1>1, <1>2, <1>3, <1>4, <1>5, <1>6, <1>7 DEF IInv

LEMMA EnableKeeps ==
    ASSUME IInv, Enable
    PROVE  IInv'
<1> USE DEF hardware, polling, history
<1>u. /\ UNCHANGED <<hardware, pending, queue, ring, revents, pipe, active, todo, enable, polling,
                     enableFailed, readFailed, filled>>
      /\ enabled' = [enabled EXCEPT ![Head(todo)] = enable]
      /\ touched' = touched \cup {Head(todo)}
    BY DEF Enable
<1>c. /\ apc = "enable" /\ apc' \in {"initialState", "wake"}
      /\ apc' = "initialState" => Head(todo) = "proximity"
    BY DEF Enable
<1>t. todo \in Chains
    BY <1>c DEF IInv, CallShape
<1>h. Head(todo) \in Drivers
    BY <1>t, ChainStep
<1>1. TypeOK'
    BY <1>u, <1>c, <1>h DEF IInv, TypeOK, active
<1>2. CallShape'
    BY <1>u, <1>c, <1>t, ChainStep DEF IInv, CallShape
<1>3. PowerFollows'
    <2> SUFFICES ASSUME ~enableFailed, NEW d \in Shared
                 PROVE  IF Remaining(d)' THEN enable <=> Wanted(d)
                        ELSE /\ Wanted(d) => enabled'[d]
                             /\ (~Wanted(d) /\ d \in touched') => ~enabled'[d]
        BY <1>u DEF PowerFollows, Wanted, active
    <2>1. Remaining(d) <=> First(d, todo) \/ Second(d, todo)
        BY <1>c DEF Remaining
    <2>2. Remaining(d)' <=> Second(d, todo)
        BY <1>u, <1>c DEF Remaining, Second
    <2>3. First(d, todo) <=> Head(todo) = d
        BY <1>t, ChainStep
    <2>4. /\ Head(todo) = d => enabled'[d] = enable
          /\ Head(todo) # d => enabled'[d] = enabled[d] /\ (d \in touched' <=> d \in touched)
        BY <1>u, <1>h DEF IInv, TypeOK, Shared, Drivers
    <2>5. IF Remaining(d) THEN enable <=> Wanted(d)
          ELSE /\ Wanted(d) => enabled[d]
               /\ (~Wanted(d) /\ d \in touched) => ~enabled[d]
        BY DEF IInv, PowerFollows
    <2>6. QED BY <2>1, <2>2, <2>3, <2>4, <2>5
<1>4. FusionCalls'
    BY <1>u DEF IInv, FusionCalls, First, Second, active
<1>5. Scanning' /\ FitsBuffer'
    BY <1>u, ScanFrame
<1>6. PastProximity'
    BY <1>u, <1>c DEF IInv, PastProximity, PastTest
<1>7. ReadyIsThere' /\ FillsReady'
    BY <1>u, ReadyFrame
<1>8. QED BY <1>1, <1>2, <1>3, <1>4, <1>5, <1>6, <1>7 DEF IInv

LEMMA EnableFailsKeeps ==
    ASSUME IInv, EnableFails
    PROVE  IInv'
<1> USE DEF hardware, polling, history
<1>u. /\ UNCHANGED <<hardware, enabled, pending, queue, ring, revents, pipe, active, enable,
                     polling, touched, readFailed, filled>>
      /\ apc = "enable" /\ apc' = "idle" /\ todo' = <<>> /\ enableFailed' = TRUE
    BY DEF EnableFails
<1>1. TypeOK'
    BY <1>u DEF IInv, TypeOK, active
<1>2. CallShape'
    BY <1>u, ChainFacts DEF IInv, CallShape, Drivers
<1>3. PowerFollows' /\ FusionCalls'
    BY <1>u, EmptyChain DEF PowerFollows, FusionCalls
<1>4. Scanning' /\ FitsBuffer'
    BY <1>u, ScanFrame
<1>5. PastProximity'
    BY <1>u DEF IInv, PastProximity, PastTest
<1>6. ReadyIsThere' /\ FillsReady'
    BY <1>u, ReadyFrame
<1>7. QED BY <1>1, <1>2, <1>3, <1>4, <1>5, <1>6 DEF IInv

LEMMA SetInitialStateKeeps ==
    ASSUME IInv, SetInitialState
    PROVE  IInv'
<1> USE DEF hardware, polling, history
<1>u. /\ UNCHANGED <<hardware, enabled, queue, ring, revents, pipe, active, todo, enable,
                     polling, history>>
      /\ apc = "initialState" /\ apc' = "wake" /\ pending' \in {pending, TRUE}
    BY DEF SetInitialState
<1>1. TypeOK'
    <2>1. pending \in BOOLEAN
        BY DEF IInv, TypeOK
    <2>2. pending' \in BOOLEAN
        BY <1>u, <2>1, Zenon
    <2>3. QED BY <1>u, <2>2 DEF IInv, TypeOK, active
<1>2. CallShape'
    BY <1>u DEF IInv, CallShape
<1>3. PowerFollows' /\ FusionCalls'
    BY <1>u DEF IInv, PowerFollows, FusionCalls, Remaining, First, Second, Wanted, active
<1>4. Scanning' /\ FitsBuffer'
    BY <1>u, ScanFrame
<1>5. PastProximity'
    BY <1>u DEF PastProximity
<1>6. ReadyIsThere' /\ FillsReady'
    <2>1. pending => pending'
        BY <1>u, Zenon
    <2>2. QED BY <1>u, <2>1, ReadyFrame
<1>7. QED BY <1>1, <1>2, <1>3, <1>4, <1>5, <1>6 DEF IInv

LEMMA WakeKeeps ==
    ASSUME IInv, Wake
    PROVE  IInv'
<1> USE DEF hardware, polling, history
<1>u. /\ UNCHANGED <<hardware, enabled, pending, queue, ring, revents, active, enable,
                     polling, history>>
      /\ apc = "wake" /\ todo' = Tail(todo)
      /\ apc' = IF todo' = <<>> THEN "idle" ELSE "enable"
    BY DEF Wake
<1>p. pipe' \in 0 .. PipeSize /\ pipe' > 0
    BY Bounds DEF Wake, WriteWake, IInv, TypeOK
<1>t. todo \in Chains
    BY <1>u DEF IInv, CallShape
<1>1. CallShape'
    BY <1>u, <1>t, ChainStep, EmptyChain DEF IInv, CallShape
<1>2. TypeOK'
    <2>1. todo' \in Seq(Drivers)
        BY <1>1, ChainFacts DEF CallShape
    <2>2. apc' \in {"idle", "enable", "initialState", "wake"}
        BY <1>u
    <2>3. UNCHANGED <<queue, ring, revents, enabled, pending, ppc, i, count, nb>>
          /\ UNCHANGED <<hasProximity, stray, oriActive, accActive, magActive, enable,
                        touched, enableFailed, readFailed, filled>>
        BY <1>u DEF active
    <2>4. TypeOK
        BY DEF IInv
    <2>5. QED BY <1>p, <2>1, <2>2, <2>3, <2>4 DEF TypeOK
<1>r. \A d \in Shared : /\ Remaining(d)' <=> Remaining(d)
                        /\ First(d, todo') \/ Second(d, todo') => Second(d, todo)
    BY <1>u, <1>t, ChainStep, EmptyChain DEF Remaining
<1>3. PowerFollows'
    BY <1>u, <1>r DEF IInv, PowerFollows, Wanted, active
<1>4. FusionCalls'
    BY <1>u, <1>r DEF IInv, FusionCalls, active
<1>5. Scanning' /\ FitsBuffer'
    BY <1>u, ScanFrame
<1>6. PastProximity'
    BY <1>p DEF PastProximity
<1>7. ReadyIsThere' /\ FillsReady'
    BY <1>u, ReadyFrame
<1>8. QED BY <1>1, <1>2, <1>3, <1>4, <1>5, <1>6, <1>7 DEF IInv

-----------------------------------------------------------------------------
(* pollEvents.                                                              *)

\* What follows from a readEvents with the result n.
LEMMA TookKeeps ==
    ASSUME IInv, NEW n \in Int, ppc \in {"read", "fill"}, Took(n),
           n <= count, n >= 0 \/ readFailed', readFailed => readFailed',
           \A d \in Drivers \ {Scan[i]} : queue'[d] = queue[d]
    PROVE  /\ revents' \in [Drivers -> BOOLEAN] /\ count' \in Int /\ nb' \in Int
           /\ filled' \in BOOLEAN
           /\ i' \in 1 .. Len(Scan) + 1 /\ ppc' = "scan"
           /\ Scan[i] \in Drivers /\ (i' = 6 => i = 5 /\ Scan[i] = "proximity")
           /\ Scanning' /\ FitsBuffer' /\ ReadyIsThere' /\ FillsReady'
<1>1. /\ i \in 1 .. 5 /\ count \in Nat /\ nb \in Int /\ nb + count = Count
      /\ ~readFailed => nb \in 0 .. Count
    BY DEF IInv, Scanning, FitsBuffer, TypeOK
<1>2. /\ count' = count - n /\ nb' = nb + n /\ i' = i + 1 /\ ppc' = "scan"
      /\ revents' = [revents EXCEPT ![Scan[i]] = @ /\ n >= count]
    BY DEF Took
<1>3. Scan[i] \in Drivers /\ (i' = 6 => i = 5 /\ Scan[i] = "proximity")
    BY <1>1, <1>2, ScanFacts
<1>4. revents' \in [Drivers -> BOOLEAN]
    <2>1. revents \in [Drivers -> BOOLEAN]
        BY DEF IInv, TypeOK
    <2>2. (revents[Scan[i]] /\ n >= count) \in BOOLEAN
        OBVIOUS
    <2>3. QED BY <1>2, <2>1, <2>2, Zenon
<1>5. count' \in Nat /\ nb' \in Int /\ i' \in 1 .. Len(Scan) + 1
    BY <1>1, <1>2, ScanFacts
<1>6. Scanning'
    BY <1>2, <1>5 DEF Scanning
<1>7. FitsBuffer'
    BY <1>1, <1>2, <1>5, Bounds DEF FitsBuffer
<1>8. filled' \in BOOLEAN
    <2>1. filled' = (filled \/ count' = 0)
        BY DEF Took
    <2>2. QED BY <2>1, Zenon
<1>9. ReadyIsThere' /\ FillsReady'
    <2>1. SUFFICES ASSUME ~filled', NEW d \in Drivers, revents'[d]
                   PROVE  queue'[d] > 0
        BY <1>2 DEF ReadyIsThere, FillsReady
    <2>2. ~filled /\ count' # 0
        <3>1. filled' = (filled \/ count' = 0)
            BY DEF Took
        <3>2. QED BY <2>1, <3>1, Zenon
    <2>3. ~(n >= count)
        BY <1>1, <1>2, <2>2
    <2>4. revents \in [Drivers -> BOOLEAN]
        BY DEF IInv, TypeOK
    <2>5. d # Scan[i] /\ revents[d]
        <3>1. revents'[Scan[i]] = (revents[Scan[i]] /\ n >= count)
            BY <1>2, <1>3, <2>4, Zenon
        <3>2. d # Scan[i]
            BY <2>1, <2>3, <3>1, Zenon
        <3>3. revents'[d] = revents[d]
            BY <1>2, <2>4, <3>2, Zenon
        <3>4. QED BY <2>1, <3>2, <3>3
    <2>6. queue[d] > 0
        BY <2>2, <2>5 DEF IInv, ReadyIsThere
    <2>7. QED BY <2>5, <2>6
<1>10. QED BY <1>2, <1>3, <1>4, <1>5, <1>6, <1>7, <1>8, <1>9

LEMMA ReadPendingKeeps ==
    ASSUME IInv, ReadPending
    PROVE  IInv'
<1> USE DEF hardware
<1>u. /\ UNCHANGED <<hardware, enabled, queue, ring, pipe, active, activation,
                     touched, enableFailed, readFailed>>
      /\ ppc = "read" /\ pending' = FALSE
      /\ Took(IF enabled[Scan[i]] THEN 1 ELSE 0)
    BY DEF ReadPending
<1>n. (IF enabled[Scan[i]] THEN 1 ELSE 0) \in Int
      /\ (IF enabled[Scan[i]] THEN 1 ELSE 0) <= count /\ (IF enabled[Scan[i]] THEN 1 ELSE 0) >= 0
    BY <1>u DEF IInv, Scanning
<1>e. /\ revents' \in [Drivers -> BOOLEAN] /\ count' \in Int /\ nb' \in Int
      /\ i' \in 1 .. Len(Scan) + 1 /\ ppc' = "scan" /\ filled' \in BOOLEAN
      /\ Scanning' /\ FitsBuffer' /\ ReadyIsThere' /\ FillsReady'
    BY <1>u, <1>n, TookKeeps
<1>1. TypeOK'
    BY <1>u, <1>e DEF IInv, TypeOK, active, activation
<1>2. PowerFollows' /\ FusionCalls' /\ CallShape'
    BY <1>u, PowerFrame, CallFrame
<1>3. PastProximity'
    BY <1>u DEF PastProximity
<1>4. QED BY <1>1, <1>2, <1>3, <1>e DEF IInv

LEMMA EnterFillKeeps ==
    ASSUME IInv, EnterFill
    PROVE  IInv'
<1> USE DEF hardware, history
<1>u. /\ UNCHANGED <<hardware, enabled, pending, queue, ring, revents, pipe, active, activation,
                     i, count, nb, history>>
      /\ ppc = "read" /\ ~HasPending(Scan[i]) /\ ppc' = "fill"
    BY DEF EnterFill
<1>1. TypeOK'
    BY <1>u DEF IInv, TypeOK, active, activation
<1>2. PowerFollows' /\ FusionCalls' /\ CallShape'
    BY <1>u, PowerFrame, CallFrame
<1>3. Scanning' /\ FitsBuffer'
    BY <1>u DEF IInv, Scanning, FitsBuffer
<1>4. PastProximity'
    BY <1>u, ScanFacts DEF PastProximity, PastTest, HasPending
<1>5. ReadyIsThere' /\ FillsReady'
    BY <1>u DEF IInv, ReadyIsThere, FillsReady
<1>6. QED BY <1>1, <1>2, <1>3, <1>4, <1>5 DEF IInv

\* What fill and the copy into the caller's buffer leave in the ring.
LEMMA DeliveredFacts ==
    ASSUME IInv, NEW d \in Drivers
    PROVE  /\ Filled(d) \in Nat /\ Filled(d) <= RingSize - ring[d] /\ Filled(d) <= queue[d]
           /\ Delivered(d) \in Nat /\ Delivered(d) <= count
           /\ enabled[d] => Delivered(d) <= ring[d] + Filled(d)
<1>1. /\ ring[d] \in 0 .. RingSize /\ queue[d] \in 0 .. QueueBound /\ count \in Nat
      /\ RingSize \in Nat /\ QueueBound \in Nat
    BY Bounds DEF IInv, TypeOK, Scanning
<1>2. RingSize - ring[d] \in Nat /\ queue[d] \in Nat
    BY <1>1
<1>3. Filled(d) \in {RingSize - ring[d], queue[d]}
      /\ Filled(d) <= RingSize - ring[d] /\ Filled(d) <= queue[d]
    <2>1. RingSize - ring[d] \in Int /\ queue[d] \in Int
        BY <1>2
    <2>2. LET m == Min({RingSize - ring[d], queue[d]}) IN
             /\ m \in {RingSize - ring[d], queue[d]}
             /\ m <= RingSize - ring[d] /\ m <= queue[d]
        BY <2>1, MinOfTwo, Zenon
    <2>3. QED BY <2>2 DEF Filled
<1>4. Filled(d) \in Nat /\ ring[d] + Filled(d) \in Nat
    BY <1>1, <1>2, <1>3
<1>5. CASE enabled[d]
    <2>1. Delivered(d) = Min({ring[d] + Filled(d), count})
        BY <1>5 DEF Delivered
    <2>2. /\ Delivered(d) \in {ring[d] + Filled(d), count}
          /\ Delivered(d) <= ring[d] + Filled(d) /\ Delivered(d) <= count
        <3>1. ring[d] + Filled(d) \in Int /\ count \in Int
            BY <1>1, <1>4
        <3>2. LET m == Min({ring[d] + Filled(d), count}) IN
                 /\ m \in {ring[d] + Filled(d), count}
                 /\ m <= ring[d] + Filled(d) /\ m <= count
            BY <3>1, MinOfTwo, Zenon
        <3>3. QED BY <2>1, <3>2
    <2>3. QED BY <1>1, <1>3, <1>4, <2>2
<1>6. CASE ~enabled[d]
    BY <1>1, <1>3, <1>4, <1>6 DEF Delivered
<1>7. QED BY <1>5, <1>6

LEMMA ReadEventsKeeps ==
    ASSUME IInv, ReadEvents
    PROVE  IInv'
<1> USE DEF hardware
<1> DEFINE d == Scan[i]
<1>u. /\ UNCHANGED <<hardware, enabled, pending, pipe, active, activation,
                     touched, enableFailed, readFailed>>
      /\ ppc = "fill" /\ Took(Delivered(d))
      /\ queue' = [queue EXCEPT ![d] = @ - Filled(d)]
      /\ ring' = [ring EXCEPT ![d] = IF enabled[d] THEN @ + Filled(d) - Delivered(d) ELSE 0]
    BY DEF ReadEvents
<1>d. d \in Drivers
    BY <1>u, ScanFacts DEF IInv, Scanning
<1> HIDE DEF d
<1>f. /\ Filled(d) \in Nat /\ Filled(d) <= RingSize - ring[d] /\ Filled(d) <= queue[d]
      /\ Delivered(d) \in Nat /\ Delivered(d) <= count
      /\ enabled[d] => Delivered(d) <= ring[d] + Filled(d)
    BY <1>d, DeliveredFacts
<1>e. /\ revents' \in [Drivers -> BOOLEAN] /\ count' \in Int /\ nb' \in Int
      /\ i' \in 1 .. Len(Scan) + 1 /\ ppc' = "scan" /\ (i' = 6 => i = 5)
      /\ filled' \in BOOLEAN
      /\ Scanning' /\ FitsBuffer' /\ ReadyIsThere' /\ FillsReady'
    <2>1. \A x \in Drivers \ {d} : queue'[x] = queue[x]
        BY <1>u DEF IInv, TypeOK
    <2>2. QED BY <1>u, <1>f, <2>1, TookKeeps DEF d
<1>1. TypeOK'
    <2>1. queue' \in [Drivers -> 0 .. QueueBound]
        <3>1. queue \in [Drivers -> 0 .. QueueBound] /\ queue[d] - Filled(d) \in 0 .. QueueBound
            BY <1>d, <1>f, Bounds DEF IInv, TypeOK
        <3>2. QED BY <1>u, <3>1
    <2>2. ring' \in [Drivers -> 0 .. RingSize]
        <3>1. /\ ring \in [Drivers -> 0 .. RingSize]
              /\ (IF enabled[d] THEN ring[d] + Filled(d) - Delivered(d) ELSE 0) \in 0 .. RingSize
            BY <1>d, <1>f, Bounds DEF IInv, TypeOK
        <3>2. QED BY <1>u, <3>1
    <2>3. QED BY <1>u, <1>e, <2>1, <2>2 DEF IInv, TypeOK, active, activation
<1>2. PowerFollows' /\ FusionCalls' /\ CallShape'
    BY <1>u, PowerFrame, CallFrame
<1>3. PastProximity'
    BY <1>u, <1>e DEF IInv, PastProximity, PastTest, activation
<1>4. QED BY <1>1, <1>2, <1>3, <1>e DEF IInv

LEMMA ReadFailsKeeps ==
    ASSUME IInv, ReadFails
    PROVE  IInv'
<1> USE DEF hardware
<1>u. /\ UNCHANGED <<hardware, enabled, pending, queue, ring, pipe, active, activation,
                     touched, enableFailed>>
      /\ ppc = "fill" /\ readFailed' = TRUE /\ Took(-Errno)
    BY DEF ReadFails
<1>n. -Errno \in Int /\ -Errno <= count
    BY Bounds DEF IInv, Scanning
<1>e. /\ revents' \in [Drivers -> BOOLEAN] /\ count' \in Int /\ nb' \in Int
      /\ i' \in 1 .. Len(Scan) + 1 /\ ppc' = "scan" /\ (i' = 6 => i = 5)
      /\ filled' \in BOOLEAN
      /\ Scanning' /\ FitsBuffer' /\ ReadyIsThere' /\ FillsReady'
    BY <1>u, <1>n, TookKeeps
<1>1. TypeOK'
    BY <1>u, <1>e DEF IInv, TypeOK, active, activation
<1>2. PowerFollows' /\ FusionCalls' /\ CallShape'
    BY <1>u, PowerFrame, CallFrame
<1>3. PastProximity'
    BY <1>u, <1>e DEF IInv, PastProximity, PastTest, activation
<1>4. QED BY <1>1, <1>2, <1>3, <1>e DEF IInv

LEMMA ScanNextKeeps ==
    ASSUME IInv, ScanNext
    PROVE  IInv'
<1> USE DEF hardware, history
<1>u. UNCHANGED <<hardware, enabled, pending, queue, ring, revents, pipe, active, activation,
                  count, nb, history>>
    BY DEF ScanNext
<1>i. i \in 1 .. 6 /\ ppc = "scan" /\ count \in Nat
    BY ScanFacts DEF ScanNext, IInv, TypeOK, Scanning
<1>s. \/ /\ i <= 5 /\ count # 0 /\ ppc' = "read" /\ i' = i
         /\ revents[Scan[i]] \/ HasPending(Scan[i])
      \/ /\ i <= 5 /\ count # 0 /\ ppc' = "scan" /\ i' = i + 1
         /\ ~(Present(Scan[i]) /\ HasPending(Scan[i]))
      \/ i = 6 /\ ppc' = "poll" /\ i' = 1
      \/ ppc' = "out" /\ i' = 1
    <2>1. CASE i <= 5 /\ count # 0
        <3>1. IF Present(Scan[i]) /\ (revents[Scan[i]] \/ HasPending(Scan[i]))
                THEN ppc' = "read" /\ i' = i
                ELSE i' = i + 1 /\ ppc' = "scan"
            BY <1>i, <2>1, ScanFacts DEF ScanNext
        <3>2. QED BY <2>1, <3>1, Zenon
    <2>2. CASE ~(i <= 5 /\ count # 0)
        <3>1. ppc' = (IF count # 0 THEN "poll" ELSE "out") /\ i' = 1
            BY <2>2, ScanFacts DEF ScanNext
        <3>2. QED BY <1>i, <2>2, <3>1
    <2>3. QED BY <2>1, <2>2
<1>1. TypeOK'
    <2>1. i' \in 1 .. Len(Scan) + 1 /\ ppc' \in {"out", "scan", "read", "fill", "poll"}
        BY <1>i, <1>s, ScanFacts
    <2>2. QED BY <1>u, <2>1 DEF IInv, TypeOK, active, activation
<1>2. PowerFollows' /\ FusionCalls' /\ CallShape'
    BY <1>u, PowerFrame, CallFrame
<1>3. Scanning' /\ FitsBuffer'
    BY <1>u, <1>i, <1>s DEF IInv, Scanning, FitsBuffer
<1>4. PastProximity'
    <2>1. (ppc' = "scan" /\ i' = 6) => ~pending
        <3>1. pending => hasProximity
            BY DEF IInv, CallShape
        <3>2. QED BY <1>i, <1>s, <3>1, ScanFacts DEF Present, HasPending
    <2>2. ppc' = "poll" => i = 6
        BY <1>s
    <2>3. ppc' # "fill"
        BY <1>s
    <2>4. QED BY <1>u, <1>i, <2>1, <2>2, <2>3 DEF IInv, PastProximity, PastTest, activation
<1>5. ReadyIsThere' /\ FillsReady'
    <2>1. ReadyIsThere'
        BY <1>u DEF IInv, ReadyIsThere
    <2>2. ppc' = "read" => i' = i /\ (revents[Scan[i]] \/ HasPending(Scan[i]))
        BY <1>s
    <2>3. QED BY <1>u, <1>s, <2>1, <2>2 DEF FillsReady, HasPending
<1>6. QED BY <1>1, <1>2, <1>3, <1>4, <1>5 DEF IInv

\* The beginning of pollEvents, and poll, which the scan starts over after.
LEMMA PollKeeps ==
    ASSUME IInv, PollEvents \/ Poll \/ PollFails
    PROVE  IInv'
<1> USE DEF hardware
<1>u. /\ UNCHANGED <<hardware, enabled, pending, queue, ring, active, activation, touched,
                     enableFailed>>
      /\ ppc' \in {"scan", "out"} /\ i' = 1
    BY DEF PollEvents, Poll, PollFails, history, IInv, Scanning
<1>c. \/ count' = Count /\ nb' = 0 /\ readFailed' = FALSE
      \/ UNCHANGED <<count, nb, readFailed>>
    BY DEF PollEvents, Poll, PollFails, history
<1>1. TypeOK'
    <2>1. pipe' \in 0 .. PipeSize
        BY Bounds DEF PollEvents, Poll, PollFails, IInv, TypeOK
    <2>2. revents' \in [Drivers -> BOOLEAN]
        <3>1. revents \in [Drivers -> BOOLEAN]
            BY DEF IInv, TypeOK
        <3>2. \A d \in Drivers : (queue[d] > 0) \in BOOLEAN
            OBVIOUS
        <3>3. [d \in Drivers |-> queue[d] > 0] \in [Drivers -> BOOLEAN]
            BY <3>2, Zenon
        <3>4. revents' \in {revents, [d \in Drivers |-> queue[d] > 0]}
            BY Zenon DEF PollEvents, Poll, PollFails
        <3>5. QED BY <3>1, <3>3, <3>4, Zenon
    <2>3. i' \in 1 .. Len(Scan) + 1 /\ count' \in Int /\ nb' \in Int
        <3>1. (count' = Count /\ nb' = 0) \/ (count' = count /\ nb' = nb)
            BY <1>c
        <3>2. count \in Int /\ nb \in Int
            BY DEF IInv, TypeOK
        <3>3. QED BY <1>u, <3>1, <3>2, ScanFacts, Bounds
    <2>4. readFailed' \in BOOLEAN
        <3>1. readFailed \in BOOLEAN
            BY DEF IInv, TypeOK
        <3>2. QED BY <1>c, <3>1, Zenon
    <2>5. filled' \in BOOLEAN
        <3>1. filled \in BOOLEAN
            BY DEF IInv, TypeOK
        <3>2. filled' = filled \/ filled' = FALSE
            BY DEF PollEvents, Poll, PollFails, history
        <3>3. QED BY <3>1, <3>2
    <2>6. QED BY <1>u, <2>1, <2>2, <2>3, <2>4, <2>5 DEF IInv, TypeOK, active, activation
<1>2. PowerFollows' /\ FusionCalls' /\ CallShape'
    BY <1>u, PowerFrame, CallFrame
<1>3. Scanning' /\ FitsBuffer'
    BY <1>u, <1>c, Bounds DEF IInv, Scanning, FitsBuffer
<1>4. PastProximity'
    BY <1>u DEF PastProximity, PastTest
<1>5. ReadyIsThere' /\ FillsReady'
    <2>1. CASE Poll
        BY <1>u, <2>1 DEF Poll, ReadyIsThere, FillsReady
    <2>2. CASE PollEvents \/ PollFails
        <3>1. revents' = revents /\ filled' = filled
            BY <2>2 DEF PollEvents, PollFails, history
        <3>2. QED BY <1>u, <3>1 DEF IInv, ReadyIsThere, FillsReady
    <2>3. QED BY <2>1, <2>2
<1>6. QED BY <1>1, <1>2, <1>3, <1>4, <1>5 DEF IInv

LEMMA NextIInv == IInv /\ [Next]_vars => IInv'
<1> SUFFICES ASSUME IInv, [Next]_vars PROVE IInv'
    OBVIOUS
<1>1. CASE \E d \in Reporting : Report(d)
    BY <1>1, ReportKeeps, SetAssumption
<1>2. CASE \E h \in Handles, on \in BOOLEAN : Activate(h, on)
    BY <1>2, ActivateKeeps, SetAssumption
<1>3. CASE Enable
    BY <1>3, EnableKeeps
<1>4. CASE EnableFails
    BY <1>4, EnableFailsKeeps
<1>5. CASE SetInitialState
    BY <1>5, SetInitialStateKeeps
<1>6. CASE Wake
    BY <1>6, WakeKeeps
<1>7. CASE PollEvents \/ Poll \/ PollFails
    BY <1>7, PollKeeps
<1>8. CASE ScanNext
    BY <1>8, ScanNextKeeps
<1>9. CASE ReadPending
    BY <1>9, ReadPendingKeeps
<1>10. CASE ReadEvents
    BY <1>10, ReadEventsKeeps
<1>11. CASE ReadFails
    BY <1>11, ReadFailsKeeps
<1>12. CASE UNCHANGED vars
    <2>1. TypeOK'
        BY <1>12 DEF vars, hardware, active, activation, polling, history, IInv, TypeOK
    <2>2. PowerFollows' /\ FusionCalls' /\ CallShape' /\ Scanning' /\ FitsBuffer'
        BY <1>12, PowerFrame, CallFrame, ScanFrame DEF vars, hardware, history
    <2>3. PastProximity'
        BY <1>12 DEF vars, activation, polling, IInv, PastProximity, PastTest
    <2>4. ReadyIsThere' /\ FillsReady'
        BY <1>12, ReadyFrame DEF vars, history
    <2>5. QED BY <2>1, <2>2, <2>3, <2>4 DEF IInv
<1>13. CASE EnterFill
    BY <1>13, EnterFillKeeps
<1>14. QED
    BY <1>1, <1>2, <1>3, <1>4, <1>5, <1>6, <1>7, <1>8, <1>9, <1>10, <1>11, <1>12, <1>13 DEF Next

LEMMA SpecIInv == Spec => []IInv
BY InitIInv, NextIInv, PTL DEF Spec

-----------------------------------------------------------------------------
(* The theorems.                                                            *)

\* The state of the drivers, the wake pipe and the two calls stays of its
\* type: in particular no ring overflows and the scan stays in the drivers.
THEOREM TypeCorrect == Spec => []TypeOK
<1>1. IInv => TypeOK
    BY DEF IInv
<1>2. QED BY <1>1, SpecIInv, PTL

\* pollEvents sleeps on an initial state of the proximity sensor only until the
\* wake byte under way arrives, whatever the size of the pipe and whatever else
\* fills it; the one exception is the read of a driver, entered on what was
\* ready before a buffer was filled.
THEOREM PendingIsWoken == Spec => []PendingWakes
<1>1. IInv => PendingWakes
    <2> SUFFICES ASSUME IInv, Asleep, pending
                 PROVE  apc = "wake" \/ (ppc = "fill" /\ filled)
        BY DEF PendingWakes
    <2>1. CASE ppc = "poll" /\ nb = 0 /\ ~AnyReady
        BY <2>1 DEF IInv, PastProximity, PastTest, AnyReady
    <2>2. CASE ppc = "fill" /\ MustBlock(Scan[i])
        <3>1. Scan[i] \in Drivers
            BY <2>2, ScanFacts DEF IInv, Scanning
        <3>2. revents[Scan[i]] /\ queue[Scan[i]] = 0
            BY <2>2 DEF IInv, FillsReady, MustBlock
        <3>3. filled
            BY <3>1, <3>2 DEF IInv, ReadyIsThere
        <3>4. QED BY <2>2, <3>3
    <2>3. QED BY <2>1, <2>2 DEF Asleep
<1>2. QED BY <1>1, SpecIInv, PTL

\* After any sequence of activate calls without a failed switch the sensors
\* the orientation sensor shares with the framework are on when one of the
\* two uses them and, once they have been switched, only then.
THEOREM SharedPowerCounts == Spec => []SharedPower
<1>1. IInv => SharedPower
    <2> SUFFICES ASSUME IInv, apc = "idle", ~enableFailed, NEW d \in Shared
                 PROVE  /\ Wanted(d) => enabled[d]
                        /\ (~Wanted(d) /\ d \in touched) => ~enabled[d]
        BY DEF SharedPower, Shared
    <2>1. ~Remaining(d)
        BY EmptyChain DEF IInv, CallShape, Remaining
    <2>2. QED BY <2>1 DEF IInv, PowerFollows
<1>2. QED BY <1>1, SpecIInv, PTL

\* pollEvents never writes past the buffer of its caller, for any size of
\* the buffer and of the rings, and any number of rounds.
THEOREM BufferNeverOverruns == Spec => []FitsBuffer
<1>1. IInv => FitsBuffer
    BY DEF IInv
<1>2. QED BY <1>1, SpecIInv, PTL

\* No activate call, failed switches included, turns the accelerometer or
\* the magnetometer off under an active orientation sensor.
THEOREM FusionKept == Spec => FusionNotInterrupted
<1> DEFINE Step == (oriActive /\ oriActive') =>
                       \A d \in {"acceleration", "magnetic"} : enabled[d] => enabled'[d]
<1>1. IInv /\ [Next]_vars => [Step]_vars
    <2> SUFFICES ASSUME IInv, Next, oriActive, NEW d \in Shared, enabled[d]
                 PROVE  enabled'[d]
        BY DEF Shared
    <2>1. CASE Enable
        <3>1. todo \in Chains
            BY <2>1 DEF Enable, IInv, CallShape
        <3>2. Head(todo) = d => enable
            BY <3>1, ChainStep DEF IInv, FusionCalls
        <3>3. enabled' = [enabled EXCEPT ![Head(todo)] = enable]
            BY <2>1 DEF Enable
        <3>4. QED BY <3>2, <3>3 DEF IInv, TypeOK, Shared, Drivers
    <2>2. CASE ~Enable
        <3>1. enabled' = enabled
            BY <2>2 DEF Next, Report, Activate, EnableFails, SetInitialState, Wake, PollEvents,
                ScanNext, ReadPending, EnterFill, ReadEvents, ReadFails, Poll, PollFails
        <3>2. QED BY <3>1
    <2>3. QED BY <2>1, <2>2
<1>2. QED BY <1>1, SpecIInv, PTL DEF Spec, FusionNotInterrupted
=============================================================================
