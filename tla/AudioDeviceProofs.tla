-------------------------- MODULE AudioDeviceProofs --------------------------
(***************************************************************************)
(* Proofs about the life of the device.  For any files, controls and       *)
(* values: the sections the parser's callbacks build are those of the file *)
(* read as a whole, and the controls of an opened device have the values   *)
(* of the default route.  For any paths, volumes, steps and number of      *)
(* messages: requests to the modem are followed up to the ones that were   *)
(* dropped, and the bandwidth is known while connected.                    *)
(*                                                                         *)
(* The lists of the file are flattenings and folds.  What is needed of     *)
(* them is proved by induction over sets of numbers: a set of counter-     *)
(* examples has a least element.                                           *)
(***************************************************************************)
EXTENDS AudioDevice, SequenceTheorems, WellFoundedInduction, TLAPS

-----------------------------------------------------------------------------
(* Numbers and flattenings.                                                *)

\* A set of numbers that is not empty has a least element.
LEMMA LeastNat ==
    ASSUME NEW T \in SUBSET Nat, T # {}
    PROVE  \E x \in T : \A y \in T : x <= y
<1> DEFINE Less == OpToRel(<, Nat)
<1>1. IsWellFoundedOn(Less, Nat)
    BY NatLessThanWellFounded
<1>2. \A x, y \in Nat : x < y => <<x, y>> \in Less
    BY DEF OpToRel
<1> HIDE DEF Less
<1>3. PICK x \in T : \A y \in T : ~(<<y, x>> \in Less)
    BY <1>1, WFMin
<1>4. \A y \in T : ~(y < x)
    BY <1>2, <1>3
<1>5. \A y \in T : x <= y
    BY <1>4
<1>6. QED BY <1>5

\* So a set that has 0 and the successors of its elements has all numbers.
LEMMA SetInduction ==
    ASSUME NEW S \in SUBSET Nat, 0 \in S, \A k \in S : k + 1 \in S
    PROVE  S = Nat
<1> SUFFICES ASSUME Nat \ S # {} PROVE FALSE
    OBVIOUS
<1>1. PICK x \in Nat \ S : \A y \in Nat \ S : x <= y
    BY LeastNat
<1>2. x # 0 /\ x - 1 \in Nat
    BY <1>1
<1>3. x - 1 \in S
    BY <1>1, <1>2
<1>4. (x - 1) + 1 = x
    BY <1>1
<1>5. QED BY <1>1, <1>3, <1>4

\* Appending to the second part of a list appends to the list.
LEMMA ConcatAppend ==
    ASSUME NEW T, NEW s \in Seq(T), NEW t \in Seq(T), NEW r \in T
    PROVE  s \o Append(t, r) = Append(s \o t, r)
<1>1. Append(t, r) = t \o <<r>> /\ <<r>> \in Seq(T)
    BY AppendIsConcat
<1>2. s \o t \in Seq(T)
    BY ConcatProperties
<1>3. Append(s \o t, r) = (s \o t) \o <<r>>
    BY <1>2, AppendIsConcat
<1>4. (s \o t) \o <<r>> = s \o (t \o <<r>>)
    BY <1>1, ConcatAssociative
<1>5. QED BY <1>1, <1>3, <1>4

\* f holds the flattenings of the first parts of s, up to the k-th.
IsFlatten(f, s, k) == f = [i \in 1 .. k |-> IF i = 1 THEN s[i] ELSE f[i - 1] \o s[i]]

\* There is such a function for every k.
LEMMA FlattenExists ==
    ASSUME NEW s, NEW k \in Nat
    PROVE  \E f : IsFlatten(f, s, k)
<1> DEFINE S == {m \in Nat : \E f : IsFlatten(f, s, m)}
<1>1. 0 \in S
    <2>1. IsFlatten([i \in {} |-> 0], s, 0)
        BY DEF IsFlatten
    <2>2. QED BY <2>1
<1>2. ASSUME NEW m \in S PROVE m + 1 \in S
    <2>1. PICK f : IsFlatten(f, s, m)
        OBVIOUS
    <2> DEFINE last == IF m = 0 THEN s[m + 1] ELSE f[m] \o s[m + 1]
               g == [i \in 1 .. m + 1 |-> IF i = m + 1 THEN last ELSE f[i]]
    <2>2. m \in Nat
        OBVIOUS
    <2>3. \A i \in 1 .. m : f[i] = IF i = 1 THEN s[i] ELSE f[i - 1] \o s[i]
        BY <2>1, Zenon DEF IsFlatten
    <2> HIDE DEF last
    <2>4. g[m + 1] = last /\ \A i \in 1 .. m : g[i] = f[i]
        BY <2>2
    <2>5. DOMAIN g = 1 .. m + 1 /\ g = [i \in 1 .. m + 1 |-> g[i]]
        OBVIOUS
    <2> HIDE DEF g
    <2>6. ASSUME NEW i \in 1 .. m + 1 PROVE g[i] = IF i = 1 THEN s[i] ELSE g[i - 1] \o s[i]
        <3>1. CASE i = m + 1
            <4>1. i # 1 => i - 1 \in 1 .. m /\ i - 1 = m
                BY <2>2, <3>1
            <4>2. i # 1 => g[i - 1] = f[m]
                BY <2>4, <4>1
            <4>3. m = 0 <=> i = 1
                BY <2>2, <3>1
            <4>4. QED BY <2>4, <3>1, <4>2, <4>3 DEF last
        <3>2. CASE i # m + 1
            <4>1. i \in 1 .. m /\ (i # 1 => i - 1 \in 1 .. m)
                BY <2>2, <3>2
            <4>2. g[i] = f[i] /\ (i # 1 => g[i - 1] = f[i - 1])
                BY <2>4, <4>1
            <4>3. QED BY <2>3, <4>1, <4>2
        <3>3. QED BY <3>1, <3>2
    <2>7. IsFlatten(g, s, m + 1)
        BY <2>5, <2>6, Zenon DEF IsFlatten
    <2>8. m + 1 \in Nat
        BY <2>2
    <2>9. QED BY <2>7, <2>8, Zenon
<1> HIDE DEF S
<1>3. S = Nat
    <2>1. S \in SUBSET Nat
        BY DEF S
    <2>2. QED BY <1>1, <1>2, <2>1, SetInduction
<1>4. QED BY <1>3 DEF S

\* FlattenSeq is the last value of one.
LEMMA FlattenDef ==
    ASSUME NEW s, Len(s) \in Nat \ {0}
    PROVE  \E f : IsFlatten(f, s, Len(s)) /\ FlattenSeq(s) = f[Len(s)]
<1> DEFINE F == CHOOSE f : f = [i \in 1 .. Len(s) |-> IF i = 1 THEN s[i] ELSE f[i - 1] \o s[i]]
<1>1. IsFlatten(F, s, Len(s))
    <2>1. \E f : f = [i \in 1 .. Len(s) |-> IF i = 1 THEN s[i] ELSE f[i - 1] \o s[i]]
        BY FlattenExists, Zenon DEF IsFlatten
    <2>2. QED BY <2>1, Zenon DEF IsFlatten
<1>2. FlattenSeq(s) = F[Len(s)]
    BY Zenon DEF FlattenSeq
<1>3. QED BY <1>1, <1>2, Zenon

LEMMA FlattenEmpty == FlattenSeq(<<>>) = <<>>
BY DEF FlattenSeq

\* The prefixes of two sequences that agree up to m have the same partial flattenings.
LEMMA FlattenUnique ==
    ASSUME NEW s, NEW t, NEW f, NEW g, NEW m \in Nat, NEW l \in Nat, m <= l,
           IsFlatten(f, s, m), IsFlatten(g, t, l),
           \A i \in 1 .. m : s[i] = t[i]
    PROVE  \A i \in 1 .. m : f[i] = g[i]
<1> DEFINE T == {i \in 1 .. m : f[i] # g[i]}
<1> SUFFICES ASSUME T # {} PROVE FALSE
    OBVIOUS
<1>1. T \in SUBSET Nat
    OBVIOUS
<1>2. PICK i \in T : \A j \in T : i <= j
    BY <1>1, LeastNat
<1>3. i \in 1 .. m /\ i \in 1 .. l /\ s[i] = t[i] /\ f[i] # g[i]
    OBVIOUS
<1>4. /\ f[i] = IF i = 1 THEN s[i] ELSE f[i - 1] \o s[i]
      /\ g[i] = IF i = 1 THEN t[i] ELSE g[i - 1] \o t[i]
    BY <1>3, Zenon DEF IsFlatten
<1>5. i # 1
    BY <1>3, <1>4
<1>6. i - 1 \in 1 .. m /\ ~(i <= i - 1)
    BY <1>3, <1>5
<1>7. f[i - 1] = g[i - 1]
    BY <1>2, <1>6
<1>8. QED BY <1>3, <1>4, <1>5, <1>7

\* One more part is concatenated to the flattening.
LEMMA FlattenAppend ==
    ASSUME NEW T, NEW s \in Seq(T), NEW r \in T, Len(s) # 0
    PROVE  FlattenSeq(Append(s, r)) = FlattenSeq(s) \o r
<1> DEFINE t == Append(s, r)
<1>1. /\ Len(s) \in Nat \ {0} /\ Len(t) = Len(s) + 1 /\ Len(t) \in Nat \ {0}
      /\ t[Len(t)] = r /\ \A i \in 1 .. Len(s) : s[i] = t[i]
    BY AppendProperties, LenProperties
<1> HIDE DEF t
<1>2. PICK f : IsFlatten(f, s, Len(s)) /\ FlattenSeq(s) = f[Len(s)]
    BY <1>1, FlattenDef
<1>3. PICK g : IsFlatten(g, t, Len(t)) /\ FlattenSeq(t) = g[Len(t)]
    BY <1>1, FlattenDef
<1>4. Len(s) <= Len(s) /\ Len(s) <= Len(t) /\ Len(s) \in 1 .. Len(s)
    BY <1>1
<1>5. f[Len(s)] = g[Len(s)]
    <2>1. Len(s) \in Nat /\ Len(t) \in Nat
        BY <1>1
    <2>2. \A i \in 1 .. Len(s) : f[i] = g[i]
        <3>1. IsFlatten(f, s, Len(s)) /\ IsFlatten(g, t, Len(t))
            BY <1>2, <1>3
        <3>2. Len(s) <= Len(t) /\ \A i \in 1 .. Len(s) : s[i] = t[i]
            BY <1>1, <1>4
        <3>3. \A m, l \in Nat : IsFlatten(f, s, m) /\ IsFlatten(g, t, l) /\ m <= l
                                /\ (\A i \in 1 .. m : s[i] = t[i])
                                => \A i \in 1 .. m : f[i] = g[i]
            BY FlattenUnique
        <3>4. QED BY <2>1, <3>1, <3>2, <3>3
    <2>3. QED BY <1>4, <2>2
<1>6. Len(t) \in 1 .. Len(t) /\ Len(t) # 1 /\ Len(t) - 1 = Len(s)
    BY <1>1
<1>7. g[Len(t)] = IF Len(t) = 1 THEN t[Len(t)] ELSE g[Len(t) - 1] \o t[Len(t)]
    BY <1>3, <1>6, Zenon DEF IsFlatten
<1>8. QED BY <1>1, <1>2, <1>3, <1>5, <1>6, <1>7 DEF t

\* The first k parts of F, flattened.
FlatUpTo(F, k) == FlattenSeq([i \in 1 .. k |-> F[i]])

LEMMA FlatMore ==
    ASSUME NEW T, NEW F, NEW k \in Nat, \A i \in 1 .. k + 1 : F[i] \in Seq(T),
           FlatUpTo(F, k) \in Seq(T)
    PROVE  FlatUpTo(F, k + 1) = FlatUpTo(F, k) \o F[k + 1]
<1> DEFINE s == [i \in 1 .. k |-> F[i]]
           t == [i \in 1 .. k + 1 |-> F[i]]
<1>1. s \in Seq(Seq(T)) /\ Len(s) = k
    OBVIOUS
<1>2. t \in Seq(Seq(T)) /\ Len(t) = k + 1
    OBVIOUS
<1>3. F[k + 1] \in Seq(T)
    OBVIOUS
<1>4. t = Append(s, F[k + 1])
    <2>1. /\ Append(s, F[k + 1]) \in Seq(Seq(T)) /\ Len(Append(s, F[k + 1])) = k + 1
          /\ \A i \in 1 .. k : Append(s, F[k + 1])[i] = s[i]
          /\ Append(s, F[k + 1])[k + 1] = F[k + 1]
        BY <1>1, <1>3, AppendProperties
    <2>2. \A i \in 1 .. k + 1 : Append(s, F[k + 1])[i] = t[i]
        <3>1. \A i \in 1 .. k : s[i] = F[i]
            OBVIOUS
        <3>2. \A i \in 1 .. k + 1 : t[i] = F[i] /\ (i \in 1 .. k \/ i = k + 1)
            OBVIOUS
        <3>3. QED BY <2>1, <3>1, <3>2
    <2> HIDE DEF s, t
    <2>3. QED BY <1>2, <2>1, <2>2, SeqEqual
<1>5. CASE k # 0
    <2> HIDE DEF s, t
    <2>1. FlattenSeq(Append(s, F[k + 1])) = FlattenSeq(s) \o F[k + 1]
        BY <1>1, <1>3, <1>5, FlattenAppend
    <2>2. QED BY <1>4, <2>1 DEF FlatUpTo, s, t
<1>6. CASE k = 0
    <2>1. s = <<>>
        BY <1>6
    <2>2. FlatUpTo(F, k) = <<>>
        BY <2>1, FlattenEmpty DEF FlatUpTo
    <2>3. t = <<F[1]>>
        BY <1>6
    <2>4. FlattenSeq(t) = F[1]
        <3>1. Len(t) = 1 /\ Len(t) \in Nat \ {0}
            BY <1>6
        <3> HIDE DEF t
        <3>2. PICK f : IsFlatten(f, t, Len(t)) /\ FlattenSeq(t) = f[Len(t)]
            BY <3>1, FlattenDef
        <3>3. f[1] = t[1]
            <4>1. 1 \in 1 .. Len(t)
                BY <3>1
            <4>2. QED BY <3>2, <4>1, Zenon DEF IsFlatten
        <3>4. QED BY <3>1, <3>2, <3>3, <2>3
    <2>5. FlatUpTo(F, k + 1) = F[1]
        BY <2>4 DEF FlatUpTo
    <2>6. <<>> \o F[1] = F[1]
        BY <1>3, <1>6, ConcatEmptySeq
    <2>7. QED BY <1>6, <2>2, <2>5, <2>6
<1>7. QED BY <1>5, <1>6

\* A flattening of sequences over S is one.
LEMMA FlatType ==
    ASSUME NEW T, NEW F, NEW m \in Nat, \A i \in 1 .. m : F[i] \in Seq(T)
    PROVE  \A k \in 0 .. m : FlatUpTo(F, k) \in Seq(T)
<1> DEFINE S == {k \in Nat : k <= m => FlatUpTo(F, k) \in Seq(T)}
<1>1. 0 \in S
    <2>1. FlatUpTo(F, 0) = <<>>
        BY FlattenEmpty DEF FlatUpTo
    <2>2. <<>> \in Seq(T)
        OBVIOUS
    <2>3. QED BY <2>1, <2>2
<1>2. ASSUME NEW k \in S PROVE k + 1 \in S
    <2>1. k \in Nat /\ k + 1 \in Nat
        OBVIOUS
    <2>2. ASSUME k + 1 <= m PROVE FlatUpTo(F, k + 1) \in Seq(T)
        <3>1. k <= m /\ k + 1 \in 1 .. m /\ \A i \in 1 .. k + 1 : F[i] \in Seq(T)
            BY <2>1, <2>2
        <3>2. FlatUpTo(F, k) \in Seq(T) /\ F[k + 1] \in Seq(T)
            BY <3>1
        <3>3. FlatUpTo(F, k + 1) = FlatUpTo(F, k) \o F[k + 1]
            BY <2>1, <3>1, <3>2, FlatMore
        <3>4. QED BY <3>2, <3>3, ConcatProperties
    <2>3. QED BY <2>1, <2>2
<1>3. S \in SUBSET Nat
    OBVIOUS
<1> HIDE DEF S
<1>4. S = Nat
    BY <1>1, <1>2, <1>3, SetInduction
<1>5. QED BY <1>4 DEF S

LEMMA ToSetConcat ==
    ASSUME NEW T, NEW s \in Seq(T), NEW t \in Seq(T)
    PROVE  ToSet(s \o t) = ToSet(s) \cup ToSet(t)
<1>1. /\ s \o t \in Seq(T) /\ Len(s \o t) = Len(s) + Len(t) /\ Len(s) \in Nat /\ Len(t) \in Nat
      /\ \A i \in 1 .. Len(s) + Len(t) :
            (s \o t)[i] = IF i <= Len(s) THEN s[i] ELSE t[i - Len(s)]
    BY ConcatProperties, LenProperties
<1> DEFINE st == s \o t
<1> HIDE DEF st
<1>2. /\ ToSet(s) = {s[i] : i \in 1 .. Len(s)} /\ ToSet(t) = {t[i] : i \in 1 .. Len(t)}
      /\ ToSet(st) = {st[i] : i \in 1 .. Len(s) + Len(t)}
    BY <1>1, LenProperties DEF ToSet, st
<1>3. \A i \in 1 .. Len(s) : i \in 1 .. Len(s) + Len(t) /\ st[i] = s[i]
    BY <1>1 DEF st
<1>4. \A i \in 1 .. Len(t) : i + Len(s) \in 1 .. Len(s) + Len(t) /\ st[i + Len(s)] = t[i]
    BY <1>1 DEF st
<1>5. \A i \in 1 .. Len(s) + Len(t) : \/ i \in 1 .. Len(s) /\ st[i] = s[i]
                                      \/ i - Len(s) \in 1 .. Len(t) /\ st[i] = t[i - Len(s)]
    BY <1>1 DEF st
<1>6. QED BY <1>2, <1>3, <1>4, <1>5 DEF st

\* A flattening has exactly the elements of its parts.
LEMMA FlatMembers ==
    ASSUME NEW T, NEW F, NEW m \in Nat, \A i \in 1 .. m : F[i] \in Seq(T)
    PROVE  \A k \in 0 .. m : ToSet(FlatUpTo(F, k)) = UNION {ToSet(F[i]) : i \in 1 .. k}
<1> DEFINE S == {k \in Nat : k <= m => ToSet(FlatUpTo(F, k)) = UNION {ToSet(F[i]) : i \in 1 .. k}}
<1>1. 0 \in S
    <2>1. FlatUpTo(F, 0) = <<>>
        BY FlattenEmpty DEF FlatUpTo
    <2>2. ToSet(<<>>) = {}
        BY DEF ToSet
    <2>3. QED BY <2>1, <2>2
<1>2. ASSUME NEW k \in S PROVE k + 1 \in S
    <2>1. k \in Nat /\ k + 1 \in Nat
        OBVIOUS
    <2>2. ASSUME k + 1 <= m
          PROVE  ToSet(FlatUpTo(F, k + 1)) = UNION {ToSet(F[i]) : i \in 1 .. k + 1}
        <3>1. k \in 0 .. m /\ k <= m /\ k + 1 \in 1 .. m /\ \A i \in 1 .. k + 1 : F[i] \in Seq(T)
            BY <2>1, <2>2
        <3>2. FlatUpTo(F, k) \in Seq(T) /\ F[k + 1] \in Seq(T)
            BY <3>1, FlatType
        <3>3. FlatUpTo(F, k + 1) = FlatUpTo(F, k) \o F[k + 1]
            BY <2>1, <3>1, <3>2, FlatMore
        <3>4. ToSet(FlatUpTo(F, k + 1)) = ToSet(FlatUpTo(F, k)) \cup ToSet(F[k + 1])
            <4>1. \A s, t \in Seq(T) : ToSet(s \o t) = ToSet(s) \cup ToSet(t)
                BY ToSetConcat
            <4>2. QED BY <3>2, <3>3, <4>1, Zenon
        <3>5. 1 .. k + 1 = (1 .. k) \cup {k + 1}
            BY <2>1
        <3>6. ToSet(FlatUpTo(F, k)) = UNION {ToSet(F[i]) : i \in 1 .. k}
            BY <3>1
        <3>7. QED BY <3>4, <3>5, <3>6
    <2>3. QED BY <2>1, <2>2
<1>3. S \in SUBSET Nat
    OBVIOUS
<1> HIDE DEF S
<1>4. S = Nat
    BY <1>1, <1>2, <1>3, SetInduction
<1>5. QED BY <1>4 DEF S

\* A finite set of numbers has a greatest element.
LEMMA GreatestNat ==
    ASSUME NEW k \in Nat, NEW T \in SUBSET (1 .. k), T # {}
    PROVE  Max(T) \in T /\ \A y \in T : y <= Max(T)
<1> DEFINE S == {k - y : y \in T}
<1>1. S \in SUBSET Nat /\ S # {}
    <2>1. \A y \in T : y \in Int /\ k - y \in Nat
        OBVIOUS
    <2>2. QED BY <2>1
<1>2. PICK d \in S : \A c \in S : d <= c
    BY <1>1, LeastNat
<1>3. PICK x \in T : d = k - x
    OBVIOUS
<1>4. \A y \in T : x >= y
    <2>1. \A y \in T : k - x <= k - y
        BY <1>2, <1>3
    <2>2. T \subseteq 1 .. k /\ \A y \in 1 .. k : y \in Int
        OBVIOUS
    <2>3. QED BY <2>1, <2>2
<1>5. \E z \in T : \A y \in T : z >= y
    BY <1>4
<1>6. Max(T) \in T /\ \A y \in T : Max(T) >= y
    BY <1>5 DEF Max
<1>7. QED BY <1>6

\* The first m paths of an element: the last of a role, and the routes applied.
RouteUpTo(el, m, role) ==
    LET I == {i \in 1 .. m : el.paths[i].role = role}
    IN  IF I = {} THEN <<>> ELSE Usable(el.paths[Max(I)].ctls)

SectionsUpTo(el, m) ==
    IF ~Known(el) THEN <<>>
    ELSE LET rows == RowsNamed(el.name) IN
         [i \in 1 .. Len(rows) |->
            IF i < Len(rows) THEN EmptySection(rows[i])
            ELSE [mask |-> rows[i].mask, on |-> RouteUpTo(el, m, "on"),
                                         off |-> RouteUpTo(el, m, "off")]]

AppliedUpTo(el, m) ==
    FlattenSeq([i \in 1 .. m |->
                   IF ~Known(el) \/ el.paths[i].role = "off"
                   THEN <<Usable(el.paths[i].ctls)>> ELSE <<>>])

UsableUpTo(ctls, m) ==
    FlattenSeq([i \in 1 .. m |->
                   IF ctls[i].ctl # NoName /\ ctls[i].val # NoVal THEN <<ctls[i]>> ELSE <<>>])

\* The value that the first m of the routes leave in x, which held old.
ValueAfter(old, routes, m, x) ==
    LET I == {i \in 1 .. m : Value(routes[i], x) # NoVal}
    IN  IF I = {} THEN old ELSE Value(routes[Max(I)], x)

-----------------------------------------------------------------------------
\* The flattening of Those, a list of at most one element each.
LEMMA Singles ==
    ASSUME NEW S, NEW s \in Seq(S), NEW F,
           \A i \in 1 .. Len(s) : F[i] = <<s[i]>> \/ F[i] = <<>>
    PROVE  /\ \A i \in 1 .. Len(s) : F[i] \in Seq(S)
           /\ \A i \in 0 .. Len(s) : FlatUpTo(F, i) \in Seq(S)
           /\ \A i \in 0 .. Len(s) : i < Len(s) =>
                 FlatUpTo(F, i + 1) = IF F[i + 1] = <<>> THEN FlatUpTo(F, i)
                                      ELSE Append(FlatUpTo(F, i), s[i + 1])
           /\ ToSet(FlatUpTo(F, Len(s))) = {s[i] : i \in {j \in 1 .. Len(s) : F[j] # <<>>}}
<1>1. Len(s) \in Nat /\ \A i \in 1 .. Len(s) : s[i] \in S
    BY LenProperties, ElementOfSeq
<1>2. \A i \in 1 .. Len(s) : F[i] \in Seq(S)
    <2>1. \A v \in S : <<v>> \in Seq(S)
        OBVIOUS
    <2>2. <<>> \in Seq(S)
        OBVIOUS
    <2>3. QED BY <1>1, <2>1, <2>2
<1>3. \A i \in 0 .. Len(s) : FlatUpTo(F, i) \in Seq(S)
    BY <1>1, <1>2, FlatType
<1>4. ASSUME NEW i \in 0 .. Len(s), i < Len(s)
      PROVE  FlatUpTo(F, i + 1) = IF F[i + 1] = <<>> THEN FlatUpTo(F, i)
                                      ELSE Append(FlatUpTo(F, i), s[i + 1])
    <2>1. i \in Nat /\ i + 1 \in 1 .. Len(s) /\ \A j \in 1 .. i + 1 : F[j] \in Seq(S)
        BY <1>1, <1>2, <1>4
    <2>2. FlatUpTo(F, i) \in Seq(S) /\ F[i + 1] \in Seq(S) /\ s[i + 1] \in S
        BY <1>1, <1>2, <1>3, <2>1
    <2>3. FlatUpTo(F, i + 1) = FlatUpTo(F, i) \o F[i + 1]
        BY <2>1, <2>2, FlatMore
    <2>4. FlatUpTo(F, i) \o <<>> = FlatUpTo(F, i)
        BY <2>2, ConcatEmptySeq
    <2>5. FlatUpTo(F, i) \o <<s[i + 1]>> = Append(FlatUpTo(F, i), s[i + 1])
        BY <2>2, AppendIsConcat
    <2>6. <<s[i + 1]>> # <<>>
        OBVIOUS
    <2>7. F[i + 1] = <<s[i + 1]>> \/ F[i + 1] = <<>>
        BY <2>1
    <2>8. QED BY <2>3, <2>4, <2>5, <2>6, <2>7
<1>5. ToSet(FlatUpTo(F, Len(s))) = {s[i] : i \in {j \in 1 .. Len(s) : F[j] # <<>>}}
    <2>1. ToSet(FlatUpTo(F, Len(s))) = UNION {ToSet(F[i]) : i \in 1 .. Len(s)}
        <3>1. Len(s) \in 0 .. Len(s)
            BY <1>1
        <3>2. QED BY <1>1, <1>2, <3>1, FlatMembers
    <2>2. \A v : ToSet(<<v>>) = {v} /\ <<v>> # <<>>
        BY DEF ToSet
    <2>3. ToSet(<<>>) = {}
        BY DEF ToSet
    <2>4. \A i \in 1 .. Len(s) : ToSet(F[i]) = IF F[i] # <<>> THEN {s[i]} ELSE {}
        BY <2>2, <2>3
    <2>5. UNION {ToSet(F[i]) : i \in 1 .. Len(s)} = {s[i] : i \in {j \in 1 .. Len(s) : F[j] # <<>>}}
        <3> DEFINE A == UNION {ToSet(F[i]) : i \in 1 .. Len(s)}
                   B == {s[i] : i \in {j \in 1 .. Len(s) : F[j] # <<>>}}
        <3>1. ASSUME NEW v \in A PROVE v \in B
            <4>1. PICK i \in 1 .. Len(s) : v \in ToSet(F[i])
                OBVIOUS
            <4>2. v = s[i] /\ F[i] # <<>>
                BY <2>4, <4>1
            <4>3. QED BY <4>2
        <3>2. ASSUME NEW v \in B PROVE v \in A
            <4>1. PICK i \in 1 .. Len(s) : F[i] # <<>> /\ v = s[i]
                OBVIOUS
            <4>2. v \in ToSet(F[i])
                BY <2>4, <4>1
            <4>3. QED BY <4>2
        <3>3. QED BY <3>1, <3>2
    <2>6. QED BY <2>1, <2>5
<1>6. QED BY <1>2, <1>3, <1>4, <1>5

LEMMA SinglesSet ==
    ASSUME NEW S, NEW s \in Seq(S), NEW F,
           \A i \in 1 .. Len(s) : F[i] = <<s[i]>> \/ F[i] = <<>>
    PROVE  \A v : v \in ToSet(FlatUpTo(F, Len(s))) <=> \E j \in 1 .. Len(s) : F[j] # <<>> /\ v = s[j]
<1>1. ToSet(FlatUpTo(F, Len(s))) = {s[i] : i \in {j \in 1 .. Len(s) : F[j] # <<>>}}
    BY Singles
<1>2. QED BY <1>1

\* A control with both of its attributes.
Complete(s) == s.ctl # NoName /\ s.val # NoVal

\* The usable controls, control by control.
LEMMA UsableFacts ==
    ASSUME NEW S, NEW ctls \in Seq(S)
    PROVE  /\ UsableUpTo(ctls, 0) = <<>> /\ Usable(ctls) = UsableUpTo(ctls, Len(ctls))
           /\ \A i \in 0 .. Len(ctls) : UsableUpTo(ctls, i) \in Seq(S)
           /\ \A i \in 0 .. Len(ctls) : i < Len(ctls) =>
                 UsableUpTo(ctls, i + 1) =
                     IF Complete(ctls[i + 1]) THEN Append(UsableUpTo(ctls, i), ctls[i + 1])
                     ELSE UsableUpTo(ctls, i)
<1> DEFINE F == [i \in 1 .. Len(ctls) |-> IF Complete(ctls[i]) THEN <<ctls[i]>> ELSE <<>>]
<1>1. Len(ctls) \in Nat
    BY LenProperties
<1>2. \A i \in 1 .. Len(ctls) : F[i] = IF Complete(ctls[i]) THEN <<ctls[i]>> ELSE <<>>
    OBVIOUS
<1> HIDE DEF F
<1>3. \A i \in 0 .. Len(ctls) : UsableUpTo(ctls, i) = FlatUpTo(F, i)
    <2> SUFFICES ASSUME NEW i \in 0 .. Len(ctls) PROVE UsableUpTo(ctls, i) = FlatUpTo(F, i)
        OBVIOUS
    <2>1. [j \in 1 .. i |-> F[j]]
            = [j \in 1 .. i |-> IF ctls[j].ctl # NoName /\ ctls[j].val # NoVal THEN <<ctls[j]>> ELSE <<>>]
        BY <1>1, <1>2 DEF Complete
    <2>2. QED BY <2>1, Zenon DEF UsableUpTo, FlatUpTo
<1>4. UsableUpTo(ctls, 0) = <<>>
    BY FlattenEmpty DEF UsableUpTo
<1>5. Usable(ctls) = UsableUpTo(ctls, Len(ctls))
    BY DEF Usable, Those, UsableUpTo
<1>6. \A v : <<v>> # <<>>
    OBVIOUS
<1>7. \A i \in 1 .. Len(ctls) : F[i] = <<ctls[i]>> \/ F[i] = <<>>
    BY <1>2
<1>8. /\ \A i \in 0 .. Len(ctls) : FlatUpTo(F, i) \in Seq(S)
      /\ \A i \in 0 .. Len(ctls) : i < Len(ctls) =>
            FlatUpTo(F, i + 1) = IF F[i + 1] = <<>> THEN FlatUpTo(F, i)
                                 ELSE Append(FlatUpTo(F, i), ctls[i + 1])
    BY <1>7, Singles
<1>9. ASSUME NEW i \in 0 .. Len(ctls), i < Len(ctls)
      PROVE  UsableUpTo(ctls, i + 1) =
                     IF Complete(ctls[i + 1]) THEN Append(UsableUpTo(ctls, i), ctls[i + 1])
                     ELSE UsableUpTo(ctls, i)
    <2>1. i + 1 \in 0 .. Len(ctls) /\ i + 1 \in 1 .. Len(ctls)
        BY <1>1, <1>9
    <2>2. UsableUpTo(ctls, i + 1) = FlatUpTo(F, i + 1) /\ UsableUpTo(ctls, i) = FlatUpTo(F, i)
        BY <1>3, <2>1
    <2>3. F[i + 1] = <<>> <=> ~Complete(ctls[i + 1])
        BY <1>2, <1>6, <2>1
    <2>4. QED BY <1>8, <1>9, <2>2, <2>3
<1>10. QED BY <1>3, <1>4, <1>5, <1>8, <1>9

\* The rows of a name are those of dev_names.
LEMMA RowsFacts ==
    ASSUME NEW name
    PROVE  /\ RowsNamed(name) \in Seq({DevNames[i] : i \in 1 .. 10})
           /\ ToSet(RowsNamed(name)) = {DevNames[i] : i \in {j \in 1 .. 10 : DevNames[j].name = name}}
<1> DEFINE S == {DevNames[i] : i \in 1 .. 10}
           F == [i \in 1 .. 10 |-> IF DevNames[i].name = name THEN <<DevNames[i]>> ELSE <<>>]
<1>1. Len(DevNames) = 10
    BY DEF DevNames
<1>2. DevNames \in Seq(S)
    BY DEF DevNames
<1>3. \A i \in 1 .. 10 : F[i] = IF DevNames[i].name = name THEN <<DevNames[i]>> ELSE <<>>
    OBVIOUS
<1>4. F = [i \in 1 .. 10 |-> F[i]]
    OBVIOUS
<1>5. RowsNamed(name) = FlatUpTo(F, 10)
    BY <1>1 DEF RowsNamed, Those, FlatUpTo
<1> HIDE DEF F, S
<1>6. \A v : <<v>> # <<>>
    OBVIOUS
<1>7. \A i \in 1 .. Len(DevNames) : F[i] = <<DevNames[i]>> \/ F[i] = <<>>
    BY <1>1, <1>3
<1>8. /\ \A i \in 0 .. Len(DevNames) : FlatUpTo(F, i) \in Seq(S)
      /\ ToSet(FlatUpTo(F, Len(DevNames)))
            = {DevNames[i] : i \in {j \in 1 .. Len(DevNames) : F[j] # <<>>}}
    BY <1>2, <1>7, Singles
<1>9. {j \in 1 .. 10 : F[j] # <<>>} = {j \in 1 .. 10 : DevNames[j].name = name}
    BY <1>3, <1>6
<1>10. 10 \in 0 .. 10
    OBVIOUS
<1>11. QED BY <1>1, <1>5, <1>8, <1>9, <1>10 DEF S

\* The rows of dev_names, and the words that touch their masks.
Default == {"speaker", "headphone", "builtin-mic"}

LEMMA RowIs ==
    ASSUME NEW i \in 1 .. 10
    PROVE  /\ DevNames[i].mask \in SUBSET (0 .. 31)
           /\ DevNames[i].name \in AllNames
           /\ DevNames[i] = [mask |-> DevNames[i].mask, name |-> DevNames[i].name]
           /\ DevNames[i].mask \cap {R!SPEAKER} # {} <=> DevNames[i].name = "speaker"
           /\ DevNames[i].mask \cap R!IN_BUILTIN_MIC # {}
                 <=> DevNames[i].name \in {"headphone", "builtin-mic"}
BY DEF DevNames, Row, AllNames, R!SPEAKER, R!WIRED_HEADSET, R!WIRED_HEADPHONE, R!EARPIECE,
       R!ANLG_DOCK_HEADSET, R!DGTL_DOCK_HEADSET, R!ALL_SCO, R!BLUETOOTH_SCO, R!SCO_HEADSET,
       R!SCO_CARKIT, R!IN_BUILTIN_MIC, R!BIT_IN, R!IN_BACK_MIC, R!IN_WIRED_HEADSET, R!IN_SCO_HEADSET

LEMMA RowOfName ==
    ASSUME NEW name \in AllNames
    PROVE  \E i \in 1 .. 10 : DevNames[i].name = name
BY DEF DevNames, Row, AllNames

\* The default route's sections that are on, for any file.
LEMMA DefaultIs ==
    R!DefaultRoute.on = DeviceNames \cap Default
<1>1. \A cfg \in AllNames : /\ R!Mask(cfg) \cap {R!SPEAKER} # {} <=> cfg = "speaker"
                            /\ R!Mask(cfg) \cap R!IN_BUILTIN_MIC # {} <=> cfg \in {"headphone", "builtin-mic"}
    BY DEF R!Mask, AllNames, R!SPEAKER, R!WIRED_HEADSET, R!WIRED_HEADPHONE, R!EARPIECE,
       R!ANLG_DOCK_HEADSET, R!DGTL_DOCK_HEADSET, R!ALL_SCO, R!BLUETOOTH_SCO, R!SCO_HEADSET,
       R!SCO_CARKIT, R!IN_BUILTIN_MIC, R!BIT_IN, R!IN_BACK_MIC, R!IN_WIRED_HEADSET, R!IN_SCO_HEADSET
<1>2. R!Touched({}) = {}
    BY DEF R!Touched
<1>3. /\ R!Touched({R!SPEAKER}) = DeviceNames \cap {"speaker"}
      /\ R!Touched(R!IN_BUILTIN_MIC) = DeviceNames \cap {"headphone", "builtin-mic"}
    BY <1>1 DEF R!Touched, AllNames
<1>4. {R!SPEAKER} # {}
    OBVIOUS
<1>5. R!DefaultRoute.on = R!Touched({R!SPEAKER}) \cup R!Touched(R!IN_BUILTIN_MIC)
    BY <1>2, <1>4 DEF R!DefaultRoute, R!SelectDevices
<1>6. QED BY <1>3, <1>5 DEF Default

\* Names that are not known have no row, all others have some.
LEMMA RowsType ==
    ASSUME NEW name
    PROVE  /\ Len(RowsNamed(name)) \in Nat
           /\ Len(RowsNamed(name)) # 0 <=> name \in AllNames
           /\ \A k \in 1 .. Len(RowsNamed(name)) :
                 \E i \in 1 .. 10 : RowsNamed(name)[k] = DevNames[i] /\ DevNames[i].name = name
<1> DEFINE rows == RowsNamed(name)
<1>1. /\ rows \in Seq({DevNames[i] : i \in 1 .. 10})
      /\ ToSet(rows) = {DevNames[i] : i \in {j \in 1 .. 10 : DevNames[j].name = name}}
    BY RowsFacts
<1> HIDE DEF rows
<1>2. Len(rows) \in Nat /\ DOMAIN rows = 1 .. Len(rows)
    BY <1>1, LenProperties
<1>3. ToSet(rows) = {rows[k] : k \in 1 .. Len(rows)}
    BY <1>2 DEF ToSet
<1>4. \A k \in 1 .. Len(rows) : \E i \in 1 .. 10 : rows[k] = DevNames[i] /\ DevNames[i].name = name
    BY <1>1, <1>3
<1>5. Len(rows) # 0 => name \in AllNames
    <2>1. ASSUME Len(rows) # 0 PROVE name \in AllNames
        <3>1. 1 \in 1 .. Len(rows)
            BY <1>2, <2>1
        <3>2. QED BY <1>4, <3>1, RowIs
    <2>2. QED BY <2>1
<1>6. name \in AllNames => Len(rows) # 0
    <2>1. ASSUME name \in AllNames PROVE Len(rows) # 0
        <3>1. PICK i \in 1 .. 10 : DevNames[i].name = name
            BY <2>1, RowOfName
        <3>2. DevNames[i] \in ToSet(rows)
            BY <1>1, <3>1
        <3>3. PICK k \in 1 .. Len(rows) : rows[k] = DevNames[i]
            BY <1>3, <3>2
        <3>4. QED BY <1>2, <3>3
    <2>2. QED BY <2>1
<1>7. QED BY <1>2, <1>4, <1>5, <1>6 DEF rows

-----------------------------------------------------------------------------
\* The settings of a file.
SettingsIn(d) ==
    UNION {UNION {ToSet(d[i].paths[j].ctls) : j \in 1 .. Len(d[i].paths)} : i \in 1 .. Len(d)}

ElementOK(el, S) ==
    /\ Len(el.paths) \in Nat
    /\ \A j \in 1 .. Len(el.paths) : el.paths[j].ctls \in Seq(S)

LEMMA IsSeqIs ==
    ASSUME NEW s, IsSeq(s)
    PROVE  /\ Len(s) \in Nat /\ s \in Seq(ToSet(s))
<1>1. s \in Seq({s[i] : i \in 1 .. Len(s)})
    BY DEF IsSeq
<1>2. Len(s) \in Nat /\ DOMAIN s = 1 .. Len(s)
    BY <1>1, LenProperties
<1>3. {s[i] : i \in 1 .. Len(s)} = ToSet(s)
    BY <1>2 DEF ToSet
<1>4. QED BY <1>1, <1>2, <1>3

\* What DocumentsAssumption says of a file.
LEMMA DocFacts ==
    ASSUME NEW d \in Documents
    PROVE  /\ Len(d) \in Nat
           /\ \A i \in 1 .. Len(d) :
                 /\ ElementOK(d[i], SettingsIn(d))
                 /\ d[i].kind = "device" \/ (d[i].kind = "path" /\ Len(d[i].paths) = 1)
<1>1. Len(d) \in Nat
    BY DocumentsAssumption, IsSeqIs
<1>2. ASSUME NEW i \in 1 .. Len(d)
      PROVE  /\ ElementOK(d[i], SettingsIn(d))
             /\ d[i].kind = "device" \/ (d[i].kind = "path" /\ Len(d[i].paths) = 1)
    <2>1. /\ d[i].kind = "device" \/ (d[i].kind = "path" /\ Len(d[i].paths) = 1)
          /\ IsSeq(d[i].paths)
          /\ \A j \in 1 .. Len(d[i].paths) : IsSeq(d[i].paths[j].ctls)
        BY DocumentsAssumption
    <2>2. Len(d[i].paths) \in Nat
        BY <2>1, IsSeqIs
    <2>3. ASSUME NEW j \in 1 .. Len(d[i].paths) PROVE d[i].paths[j].ctls \in Seq(SettingsIn(d))
        <3>1. d[i].paths[j].ctls \in Seq(ToSet(d[i].paths[j].ctls))
            BY <2>1, IsSeqIs
        <3>2. ToSet(d[i].paths[j].ctls) \subseteq SettingsIn(d)
            BY DEF SettingsIn
        <3>3. QED BY <3>1, <3>2, SeqMonotonic
    <2>4. QED BY <2>1, <2>2, <2>3 DEF ElementOK
<1>3. QED BY <1>1, <1>2

-----------------------------------------------------------------------------
\* The routes and sections of an element, path by path.
Section(S) == [mask : SUBSET (0 .. 31), on : Seq(S), off : Seq(S)]

\* The route of a role is the one of its last path.
LEMMA RouteFacts ==
    ASSUME NEW S, NEW el, ElementOK(el, S), NEW role
    PROVE  /\ RouteUpTo(el, 0, role) = <<>>
           /\ RouteNamed(el, role) = RouteUpTo(el, Len(el.paths), role)
           /\ \A k \in 0 .. Len(el.paths) : RouteUpTo(el, k, role) \in Seq(S)
<1> DEFINE I(k) == {i \in 1 .. k : el.paths[i].role = role}
<1>1. Len(el.paths) \in Nat /\ \A j \in 1 .. Len(el.paths) : el.paths[j].ctls \in Seq(S)
    BY DEF ElementOK
<1>2. RouteUpTo(el, 0, role) = <<>>
    BY DEF RouteUpTo
<1>3. ASSUME NEW k \in 0 .. Len(el.paths), I(k) # {}
      PROVE  Max(I(k)) \in I(k) /\ \A i \in I(k) : i <= Max(I(k))
    <2>1. k \in Nat /\ I(k) \in SUBSET (1 .. k)
        BY <1>1
    <2>2. QED BY <1>3, <2>1, GreatestNat
<1>4. \A s \in Seq(S) : Usable(s) \in Seq(S)
    <2>1. ASSUME NEW s \in Seq(S) PROVE Usable(s) \in Seq(S)
        <3>1. Len(s) \in 0 .. Len(s)
            BY LenProperties
        <3>2. QED BY <3>1, UsableFacts
    <2>2. QED BY <2>1
<1>5. ASSUME NEW k \in 0 .. Len(el.paths) PROVE RouteUpTo(el, k, role) \in Seq(S)
    <2>1. CASE I(k) = {}
        <3>1. <<>> \in Seq(S)
            OBVIOUS
        <3>2. QED BY <2>1, <3>1 DEF RouteUpTo
    <2>2. CASE I(k) # {}
        <3>1. Max(I(k)) \in 1 .. Len(el.paths)
            <4>1. Max(I(k)) \in I(k)
                BY <1>3, <2>2
            <4>2. I(k) \subseteq 1 .. k /\ 1 .. k \subseteq 1 .. Len(el.paths)
                BY <1>1
            <4>3. QED BY <4>1, <4>2
        <3>2. RouteUpTo(el, k, role) = Usable(el.paths[Max(I(k))].ctls)
            BY <2>2 DEF RouteUpTo
        <3>3. QED BY <1>1, <1>4, <3>1, <3>2
    <2>3. QED BY <2>1, <2>2
<1>7. RouteNamed(el, role) = RouteUpTo(el, Len(el.paths), role)
    <2>1. CASE I(Len(el.paths)) = {}
        BY <2>1 DEF RouteNamed, RouteUpTo, SelectLastInSeq
    <2>2. CASE I(Len(el.paths)) # {}
        <3>1. Max(I(Len(el.paths))) # 0
            <4>1. Len(el.paths) \in 0 .. Len(el.paths)
                BY <1>1
            <4>2. Max(I(Len(el.paths))) \in I(Len(el.paths))
                BY <1>3, <2>2, <4>1
            <4>3. QED BY <4>2
        <3>2. QED BY <2>2, <3>1 DEF RouteNamed, RouteUpTo, SelectLastInSeq
    <2>3. QED BY <2>1, <2>2
<1>8. QED BY <1>2, <1>5, <1>7

LEMMA RouteStep ==
    ASSUME NEW S, NEW el, ElementOK(el, S), NEW role, NEW k \in 0 .. Len(el.paths),
           k < Len(el.paths)
    PROVE  /\ el.paths[k + 1].role = role =>
                 RouteUpTo(el, k + 1, role) = Usable(el.paths[k + 1].ctls)
           /\ el.paths[k + 1].role # role => RouteUpTo(el, k + 1, role) = RouteUpTo(el, k, role)
<1> DEFINE I(j) == {i \in 1 .. j : el.paths[i].role = role}
<1>1. k + 1 \in Nat /\ k \in Nat
    BY DEF ElementOK
<1>2. CASE el.paths[k + 1].role = role
    <2>1. k + 1 \in I(k + 1) /\ I(k + 1) \in SUBSET (1 .. k + 1)
        BY <1>1, <1>2
    <2>2. Max(I(k + 1)) \in I(k + 1) /\ k + 1 <= Max(I(k + 1))
        BY <1>1, <2>1, GreatestNat
    <2>3. Max(I(k + 1)) = k + 1
        BY <1>1, <2>2
    <2>4. RouteUpTo(el, k + 1, role) = Usable(el.paths[Max(I(k + 1))].ctls)
        BY <2>1 DEF RouteUpTo
    <2>5. QED BY <1>2, <2>3, <2>4
<1>3. CASE el.paths[k + 1].role # role
    <2>1. I(k + 1) = I(k)
        BY <1>1, <1>3
    <2>2. QED BY <1>3, <2>1 DEF RouteUpTo
<1>4. QED BY <1>2, <1>3

\* The sections of an element are those after its last path.
LEMMA SectionFacts ==
    ASSUME NEW S, NEW el, ElementOK(el, S)
    PROVE  /\ SectionsOf(el) = SectionsUpTo(el, Len(el.paths))
           /\ Len(SectionsOf(el)) \in Nat /\ Len(SectionsOf(el)) # 0 <=> Known(el)
           /\ \A k \in 0 .. Len(el.paths) : /\ SectionsUpTo(el, k) \in Seq(Section(S))
                                            /\ Len(SectionsUpTo(el, k)) = Len(SectionsOf(el))
<1>1. Len(el.paths) \in Nat
    BY DEF ElementOK
<1>2. \A role : RouteNamed(el, role) = RouteUpTo(el, Len(el.paths), role)
    BY RouteFacts
<1>3. SectionsOf(el) = SectionsUpTo(el, Len(el.paths))
    BY <1>2 DEF SectionsOf, SectionsUpTo
<1>4. CASE ~Known(el)
    <2>1. SectionsOf(el) = <<>> /\ \A k : SectionsUpTo(el, k) = <<>>
        BY <1>4 DEF SectionsOf, SectionsUpTo
    <2>2. <<>> \in Seq(Section(S)) /\ Len(<<>>) = 0
        OBVIOUS
    <2>3. QED BY <1>3, <1>4, <2>1, <2>2
<1>5. CASE Known(el)
    <2> DEFINE rows == RowsNamed(el.name)
    <2>1. /\ Len(rows) \in Nat /\ Len(rows) # 0
          /\ \A k \in 1 .. Len(rows) : rows[k].mask \in SUBSET (0 .. 31)
        <3>1. /\ Len(rows) \in Nat /\ Len(rows) # 0
              /\ \A k \in 1 .. Len(rows) :
                    \E i \in 1 .. 10 : rows[k] = DevNames[i] /\ DevNames[i].name = el.name
            BY <1>5, RowsType DEF Known
        <3>2. \A i \in 1 .. 10 : DevNames[i].mask \in SUBSET (0 .. 31)
            BY RowIs
        <3> HIDE DEF rows
        <3>3. QED BY <3>1, <3>2
    <2>2. <<>> \in Seq(S)
        OBVIOUS
    <2> HIDE DEF rows
    <2>3. ASSUME NEW k \in 0 .. Len(el.paths)
          PROVE  SectionsUpTo(el, k) \in Seq(Section(S)) /\ Len(SectionsUpTo(el, k)) = Len(rows)
        <3>1. RouteUpTo(el, k, "on") \in Seq(S) /\ RouteUpTo(el, k, "off") \in Seq(S)
            BY RouteFacts
        <3> DEFINE s == [i \in 1 .. Len(rows) |->
                           IF i < Len(rows) THEN EmptySection(rows[i])
                           ELSE [mask |-> rows[i].mask, on |-> RouteUpTo(el, k, "on"),
                                                        off |-> RouteUpTo(el, k, "off")]]
        <3>2. SectionsUpTo(el, k) = s
            BY <1>5 DEF SectionsUpTo, rows
        <3>3. \A i \in 1 .. Len(rows) : s[i] \in Section(S)
            BY <2>1, <2>2, <3>1 DEF EmptySection, Section
        <3>4. Len(s) = Len(rows)
            BY <2>1
        <3>5. s \in Seq(Section(S))
            BY <2>1, <3>3
        <3>6. QED BY <3>2, <3>4, <3>5
    <2>4. Len(SectionsOf(el)) = Len(rows)
        <3>1. Len(el.paths) \in 0 .. Len(el.paths)
            BY <1>1
        <3>2. QED BY <1>3, <2>3, <3>1
    <2>5. QED BY <1>3, <1>5, <2>1, <2>3, <2>4
<1>6. QED BY <1>4, <1>5

\* Nothing is in the sections before the first path.
LEMMA SectionsStart ==
    ASSUME NEW S, NEW el, ElementOK(el, S), Known(el)
    PROVE  SectionsUpTo(el, 0)
             = [i \in 1 .. Len(RowsNamed(el.name)) |-> EmptySection(RowsNamed(el.name)[i])]
<1>1. RouteUpTo(el, 0, "on") = <<>> /\ RouteUpTo(el, 0, "off") = <<>>
    BY RouteFacts
<1>2. QED BY <1>1 DEF SectionsUpTo, EmptySection

\* One more path, of role "on" or "off", changes the last section only.
LEMMA SectionsStep ==
    ASSUME NEW S, NEW el, ElementOK(el, S), Known(el), NEW k \in 0 .. Len(el.paths),
           k < Len(el.paths), el.paths[k + 1].role \in {"on", "off"},
           NEW i \in 1 .. Len(SectionsUpTo(el, k))
    PROVE  /\ i < Len(SectionsUpTo(el, k)) =>
                 SectionsUpTo(el, k + 1)[i] = SectionsUpTo(el, k)[i]
           /\ ~(i < Len(SectionsUpTo(el, k))) /\ el.paths[k + 1].role = "on" =>
                 SectionsUpTo(el, k + 1)[i]
                   = [SectionsUpTo(el, k)[i] EXCEPT !.on = Usable(el.paths[k + 1].ctls)]
           /\ ~(i < Len(SectionsUpTo(el, k))) /\ el.paths[k + 1].role = "off" =>
                 SectionsUpTo(el, k + 1)[i]
                   = [SectionsUpTo(el, k)[i] EXCEPT !.off = Usable(el.paths[k + 1].ctls)]
<1> DEFINE rows == RowsNamed(el.name)
           s == SectionsUpTo(el, k)
           t == SectionsUpTo(el, k + 1)
           route == Usable(el.paths[k + 1].ctls)
<1>1. Len(rows) \in Nat
    BY RowsType
<1>2. /\ RouteUpTo(el, k + 1, "on") = IF el.paths[k + 1].role = "on" THEN route ELSE RouteUpTo(el, k, "on")
      /\ RouteUpTo(el, k + 1, "off") = IF el.paths[k + 1].role = "off" THEN route ELSE RouteUpTo(el, k, "off")
    BY RouteStep
<1>3. s = [j \in 1 .. Len(rows) |->
            IF j < Len(rows) THEN EmptySection(rows[j])
            ELSE [mask |-> rows[j].mask, on |-> RouteUpTo(el, k, "on"), off |-> RouteUpTo(el, k, "off")]]
    BY DEF SectionsUpTo
<1>4. t = [j \in 1 .. Len(rows) |->
            IF j < Len(rows) THEN EmptySection(rows[j])
            ELSE [mask |-> rows[j].mask, on |-> RouteUpTo(el, k + 1, "on"),
                                         off |-> RouteUpTo(el, k + 1, "off")]]
    BY DEF SectionsUpTo
<1> HIDE DEF s, t, rows, route
<1>5. Len(s) = Len(rows)
    BY <1>1, <1>3
<1>6. CASE i < Len(rows)
    <2>1. t[i] = s[i]
        BY <1>3, <1>4, <1>5, <1>6 DEF s
    <2>2. QED BY <1>5, <1>6, <2>1 DEF s, t
<1>7. CASE ~(i < Len(rows))
    <2>1. i \in 1 .. Len(rows)
        BY <1>5 DEF s
    <2>2. s[i] = [mask |-> rows[i].mask, on |-> RouteUpTo(el, k, "on"), off |-> RouteUpTo(el, k, "off")]
        BY <1>3, <1>7, <2>1
    <2>3. t[i] = [mask |-> rows[i].mask, on |-> RouteUpTo(el, k + 1, "on"),
                                         off |-> RouteUpTo(el, k + 1, "off")]
        BY <1>4, <1>7, <2>1
    <2>4. "on" # "off"
        OBVIOUS
    <2>5. el.paths[k + 1].role = "on" => t[i] = [s[i] EXCEPT !.on = route]
        BY <1>2, <2>2, <2>3, <2>4
    <2>6. el.paths[k + 1].role = "off" => t[i] = [s[i] EXCEPT !.off = route]
        BY <1>2, <2>2, <2>3, <2>4
    <2>7. ~(i < Len(s))
        BY <1>5, <1>7
    <2>8. QED BY <2>5, <2>6, <2>7 DEF s, t, route
<1>8. QED BY <1>6, <1>7

\* The i-th path of an element is applied when it ends.
AppliedNow(el, i) == ~Known(el) \/ el.paths[i].role = "off"

LEMMA AppliedFacts ==
    ASSUME NEW S, NEW el, ElementOK(el, S)
    PROVE  /\ AppliedUpTo(el, 0) = <<>> /\ AppliedRoutes(el) = AppliedUpTo(el, Len(el.paths))
           /\ \A k \in 0 .. Len(el.paths) : AppliedUpTo(el, k) \in Seq(Seq(S))
           /\ \A k \in 0 .. Len(el.paths) : k < Len(el.paths) =>
                 AppliedUpTo(el, k + 1) =
                     IF AppliedNow(el, k + 1)
                     THEN Append(AppliedUpTo(el, k), Usable(el.paths[k + 1].ctls))
                     ELSE AppliedUpTo(el, k)
<1> DEFINE F == [i \in 1 .. Len(el.paths) |->
                    IF AppliedNow(el, i) THEN <<Usable(el.paths[i].ctls)>> ELSE <<>>]
           s == [i \in 1 .. Len(el.paths) |-> Usable(el.paths[i].ctls)]
<1>1. Len(el.paths) \in Nat /\ \A j \in 1 .. Len(el.paths) : el.paths[j].ctls \in Seq(S)
    BY DEF ElementOK
<1>2. \A j \in 1 .. Len(el.paths) : Usable(el.paths[j].ctls) \in Seq(S)
    <2>1. ASSUME NEW c \in Seq(S) PROVE Usable(c) \in Seq(S)
        <3>1. Len(c) \in 0 .. Len(c)
            BY LenProperties
        <3>2. QED BY <3>1, UsableFacts
    <2>2. QED BY <1>1, <2>1
<1>3. s \in Seq(Seq(S)) /\ Len(s) = Len(el.paths)
    BY <1>1, <1>2
<1>4. \A i \in 1 .. Len(el.paths) :
            /\ F[i] = IF AppliedNow(el, i) THEN <<s[i]>> ELSE <<>>
            /\ s[i] = Usable(el.paths[i].ctls)
    OBVIOUS
<1>5. \A k \in 0 .. Len(el.paths) : AppliedUpTo(el, k) = FlatUpTo(F, k)
    <2> SUFFICES ASSUME NEW k \in 0 .. Len(el.paths) PROVE AppliedUpTo(el, k) = FlatUpTo(F, k)
        OBVIOUS
    <2>1. [j \in 1 .. k |-> F[j]]
            = [j \in 1 .. k |-> IF ~Known(el) \/ el.paths[j].role = "off"
                                THEN <<Usable(el.paths[j].ctls)>> ELSE <<>>]
        BY <1>1 DEF AppliedNow
    <2>2. QED BY <2>1, Zenon DEF AppliedUpTo, FlatUpTo
<1>6. AppliedUpTo(el, 0) = <<>>
    BY FlattenEmpty DEF AppliedUpTo
<1>7. AppliedRoutes(el) = AppliedUpTo(el, Len(el.paths))
    BY DEF AppliedRoutes, AppliedUpTo
<1> HIDE DEF F, s
<1>8. \A v : <<v>> # <<>>
    OBVIOUS
<1>9. \A i \in 1 .. Len(s) : F[i] = <<s[i]>> \/ F[i] = <<>>
    BY <1>3, <1>4
<1>10. /\ \A i \in 0 .. Len(s) : FlatUpTo(F, i) \in Seq(Seq(S))
       /\ \A i \in 0 .. Len(s) : i < Len(s) =>
             FlatUpTo(F, i + 1) = IF F[i + 1] = <<>> THEN FlatUpTo(F, i)
                                  ELSE Append(FlatUpTo(F, i), s[i + 1])
    BY <1>3, <1>9, Singles
<1>11. ASSUME NEW k \in 0 .. Len(el.paths), k < Len(el.paths)
       PROVE  AppliedUpTo(el, k + 1) =
                     IF AppliedNow(el, k + 1)
                     THEN Append(AppliedUpTo(el, k), Usable(el.paths[k + 1].ctls))
                     ELSE AppliedUpTo(el, k)
    <2>1. k + 1 \in 0 .. Len(el.paths) /\ k + 1 \in 1 .. Len(el.paths)
        BY <1>1, <1>11
    <2>2. AppliedUpTo(el, k + 1) = FlatUpTo(F, k + 1) /\ AppliedUpTo(el, k) = FlatUpTo(F, k)
        BY <1>5, <2>1
    <2>3. (F[k + 1] = <<>> <=> ~AppliedNow(el, k + 1)) /\ s[k + 1] = Usable(el.paths[k + 1].ctls)
        BY <1>4, <1>8, <2>1
    <2>4. QED BY <1>3, <1>10, <1>11, <2>2, <2>3
<1>12. QED BY <1>3, <1>5, <1>6, <1>7, <1>10, <1>11

\* One more route overwrites the value of x if it sets it.
LEMMA ValueStep ==
    ASSUME NEW T, NEW routes \in Seq(T), NEW r \in T, NEW old, NEW x
    PROVE  LET s == Append(routes, r)
           IN  ValueAfter(old, s, Len(s), x) = IF Value(r, x) # NoVal THEN Value(r, x)
                                               ELSE ValueAfter(old, routes, Len(routes), x)
<1> DEFINE s == Append(routes, r)
           I == {i \in 1 .. Len(routes) : Value(routes[i], x) # NoVal}
           J == {i \in 1 .. Len(s) : Value(s[i], x) # NoVal}
<1>1. /\ Len(routes) \in Nat /\ Len(s) = Len(routes) + 1 /\ s[Len(s)] = r
      /\ \A i \in 1 .. Len(routes) : s[i] = routes[i]
    BY AppendProperties, LenProperties
<1> HIDE DEF s
<1>2. CASE Value(r, x) # NoVal
    <2>1. Len(s) \in J /\ J \in SUBSET (1 .. Len(s)) /\ Len(s) \in Nat
        BY <1>1, <1>2
    <2>2. Max(J) \in J /\ Len(s) <= Max(J)
        BY <2>1, GreatestNat
    <2>3. Max(J) = Len(s)
        BY <2>1, <2>2
    <2>4. ValueAfter(old, s, Len(s), x) = Value(s[Max(J)], x)
        BY <2>1 DEF ValueAfter
    <2>5. QED BY <1>1, <1>2, <2>3, <2>4 DEF s
<1>3. CASE Value(r, x) = NoVal
    <2>1. J = I
        BY <1>1, <1>3
    <2>2. CASE I = {}
        BY <1>3, <2>1, <2>2 DEF ValueAfter, s
    <2>3. CASE I # {}
        <3>1. Max(I) \in 1 .. Len(routes)
            BY <1>1, <2>3, GreatestNat
        <3>2. s[Max(I)] = routes[Max(I)]
            BY <1>1, <3>1
        <3> HIDE DEF I, J
        <3>3. ValueAfter(old, s, Len(s), x) = Value(s[Max(J)], x)
            BY <2>1, <2>3 DEF ValueAfter, I, J
        <3>4. ValueAfter(old, routes, Len(routes), x) = Value(routes[Max(I)], x)
            BY <2>3 DEF ValueAfter, I
        <3>5. QED BY <1>3, <2>1, <3>2, <3>3, <3>4 DEF s
    <2>4. QED BY <2>2, <2>3
<1>4. QED BY <1>2, <1>3

-----------------------------------------------------------------------------
\* FoldLeft over routes: the partial results are indexed by sets of positions.
IsFold(g, m, routes, k) ==
    g = [s \in SUBSET (1 .. k) |-> IF s = {} THEN m
                                   ELSE SetRouteByArray(g[s \ {Max(s)}], routes[Max(s)])]

LEMMA MaxOf ==
    ASSUME NEW k \in Nat, NEW s \in SUBSET (1 .. k + 1), k + 1 \in s
    PROVE  Max(s) = k + 1
<1>1. Max(s) \in s /\ \A y \in s : y <= Max(s)
    <2>1. k + 1 \in Nat /\ s # {}
        OBVIOUS
    <2>2. QED BY <2>1, GreatestNat
<1>2. s \subseteq 1 .. k + 1
    OBVIOUS
<1>3. Max(s) \in 1 .. k + 1 /\ k + 1 <= Max(s)
    BY <1>1, <1>2
<1>4. QED BY <1>3

LEMMA FoldExists ==
    ASSUME NEW m, NEW routes, NEW l \in Nat
    PROVE  \E g : IsFold(g, m, routes, l)
<1> DEFINE S == {k \in Nat : \E g : IsFold(g, m, routes, k)}
<1>1. 0 \in S
    <2>1. SUBSET (1 .. 0) = {{}}
        OBVIOUS
    <2>2. IsFold([s \in {{}} |-> m], m, routes, 0)
        BY <2>1 DEF IsFold
    <2>3. QED BY <2>2
<1>2. ASSUME NEW k \in S PROVE k + 1 \in S
    <2>1. PICK g : IsFold(g, m, routes, k)
        OBVIOUS
    <2>2. k \in Nat /\ k + 1 \in Nat
        OBVIOUS
    <2> DEFINE h == [s \in SUBSET (1 .. k + 1) |->
                        IF k + 1 \in s THEN SetRouteByArray(g[s \ {k + 1}], routes[k + 1])
                        ELSE g[s]]
    <2>3. \A s \in SUBSET (1 .. k) : g[s] = IF s = {} THEN m
                                   ELSE SetRouteByArray(g[s \ {Max(s)}], routes[Max(s)])
        BY <2>1, Zenon DEF IsFold
    <2>4. h = [s \in SUBSET (1 .. k + 1) |-> h[s]]
        OBVIOUS
    <2>5. \A s \in SUBSET (1 .. k + 1) :
             h[s] = IF k + 1 \in s THEN SetRouteByArray(g[s \ {k + 1}], routes[k + 1]) ELSE g[s]
        OBVIOUS
    <2> HIDE DEF h
    <2>6. ASSUME NEW s \in SUBSET (1 .. k + 1)
          PROVE  h[s] = IF s = {} THEN m ELSE SetRouteByArray(h[s \ {Max(s)}], routes[Max(s)])
        <3>1. CASE k + 1 \in s
            <4>1. Max(s) = k + 1 /\ s # {}
                BY <2>2, <3>1, MaxOf
            <4>2. s \ {k + 1} \in SUBSET (1 .. k + 1) /\ ~(k + 1 \in s \ {k + 1})
                OBVIOUS
            <4>3. h[s \ {k + 1}] = g[s \ {k + 1}]
                BY <2>5, <4>2
            <4>4. QED BY <2>5, <3>1, <4>1, <4>3
        <3>2. CASE k + 1 \notin s
            <4>1. s \in SUBSET (1 .. k)
                BY <2>2, <3>2
            <4>2. s \ {Max(s)} \in SUBSET (1 .. k + 1) /\ k + 1 \notin s \ {Max(s)}
                BY <3>2
            <4>3. h[s] = g[s] /\ h[s \ {Max(s)}] = g[s \ {Max(s)}]
                BY <2>5, <3>2, <4>2
            <4>4. QED BY <2>3, <4>1, <4>3
        <3>3. QED BY <3>1, <3>2
    <2>7. IsFold(h, m, routes, k + 1)
        BY <2>4, <2>6, Zenon DEF IsFold
    <2>8. QED BY <2>2, <2>7, Zenon
<1>3. S \in SUBSET Nat
    OBVIOUS
<1> HIDE DEF S
<1>4. S = Nat
    BY <1>1, <1>2, <1>3, SetInduction
<1>5. QED BY <1>4 DEF S

LEMMA FoldIs ==
    ASSUME NEW m, NEW T, NEW routes \in Seq(T)
    PROVE  \E g : /\ IsFold(g, m, routes, Len(routes))
                  /\ FoldLeft(SetRouteByArray, m, routes) = g[1 .. Len(routes)]
<1> DEFINE G == CHOOSE g : g = [s \in SUBSET (DOMAIN routes) |-> IF s = {} THEN m
                                   ELSE SetRouteByArray(g[s \ {Max(s)}], routes[Max(s)])]
<1>1. DOMAIN routes = 1 .. Len(routes) /\ Len(routes) \in Nat
    BY LenProperties
<1>2. IsFold(G, m, routes, Len(routes))
    <2>1. \E g : g = [s \in SUBSET (DOMAIN routes) |-> IF s = {} THEN m
                                   ELSE SetRouteByArray(g[s \ {Max(s)}], routes[Max(s)])]
        <3>1. PICK g : IsFold(g, m, routes, Len(routes))
            BY <1>1, FoldExists
        <3>2. g = [s \in SUBSET (DOMAIN routes) |-> IF s = {} THEN m
                                   ELSE SetRouteByArray(g[s \ {Max(s)}], routes[Max(s)])]
            BY <1>1, <3>1, Zenon DEF IsFold
        <3>3. QED BY <3>2, Zenon
    <2>2. G = [s \in SUBSET (DOMAIN routes) |-> IF s = {} THEN m
                                   ELSE SetRouteByArray(G[s \ {Max(s)}], routes[Max(s)])]
        BY <2>1, Zenon
    <2> HIDE DEF G
    <2>3. QED BY <1>1, <2>2, Zenon DEF IsFold
<1>3. FoldLeft(SetRouteByArray, m, routes) = G[DOMAIN routes]
    BY Zenon DEF FoldLeft, MapThenFoldSet
<1>4. QED BY <1>1, <1>2, <1>3, Zenon

\* Folding the routes over m leaves each control the value of the last that sets it.
LEMMA FoldRoutes ==
    ASSUME NEW T, NEW routes \in Seq(T), NEW m, m = [x \in Controls |-> m[x]]
    PROVE  FoldLeft(SetRouteByArray, m, routes)
             = [x \in Controls |-> ValueAfter(m[x], routes, Len(routes), x)]
<1>1. Len(routes) \in Nat
    BY LenProperties
<1>2. PICK g : /\ IsFold(g, m, routes, Len(routes))
               /\ FoldLeft(SetRouteByArray, m, routes) = g[1 .. Len(routes)]
    BY FoldIs
<1> DEFINE Left(k) == [x \in Controls |-> ValueAfter(m[x], routes, k, x)]
           S == {k \in Nat : k <= Len(routes) => g[1 .. k] = Left(k)}
<1>3. \A s \in SUBSET (1 .. Len(routes)) :
         g[s] = IF s = {} THEN m ELSE SetRouteByArray(g[s \ {Max(s)}], routes[Max(s)])
    BY <1>2, Zenon DEF IsFold
<1>4. 0 \in S
    <2>1. 1 .. 0 = {} /\ {} \in SUBSET (1 .. Len(routes))
        OBVIOUS
    <2>2. g[1 .. 0] = m
        BY <1>3, <2>1
    <2>3. \A x \in Controls : ValueAfter(m[x], routes, 0, x) = m[x]
        BY DEF ValueAfter
    <2>4. Left(0) = m
        BY <2>3
    <2>5. QED BY <2>2, <2>4
<1>5. ASSUME NEW k \in S PROVE k + 1 \in S
    <2>1. k \in Nat /\ k + 1 \in Nat
        OBVIOUS
    <2>2. ASSUME k + 1 <= Len(routes) PROVE g[1 .. k + 1] = Left(k + 1)
        <3>1. g[1 .. k] = Left(k)
            BY <1>1, <2>1, <2>2
        <3>2. /\ 1 .. k + 1 \in SUBSET (1 .. Len(routes)) /\ k + 1 \in 1 .. k + 1
              /\ (1 .. k + 1) \ {k + 1} = 1 .. k
            BY <1>1, <2>1, <2>2
        <3>3. Max(1 .. k + 1) = k + 1
            BY <2>1, <3>2, MaxOf
        <3>4. g[1 .. k + 1] = SetRouteByArray(g[1 .. k], routes[k + 1])
            BY <1>3, <3>2, <3>3
        <3>5. \A x \in Controls : Left(k)[x] = ValueAfter(m[x], routes, k, x)
            OBVIOUS
        <3>6. ASSUME NEW x \in Controls
              PROVE  (IF Value(routes[k + 1], x) = NoVal THEN Left(k)[x] ELSE Value(routes[k + 1], x))
                        = ValueAfter(m[x], routes, k + 1, x)
            <4> DEFINE I == {i \in 1 .. k : Value(routes[i], x) # NoVal}
                       J == {i \in 1 .. k + 1 : Value(routes[i], x) # NoVal}
            <4>1. CASE Value(routes[k + 1], x) # NoVal
                <5>1. k + 1 \in J /\ J \in SUBSET (1 .. k + 1)
                    BY <2>1, <4>1
                <5>2. Max(J) = k + 1
                    BY <2>1, <5>1, MaxOf
                <5>3. ValueAfter(m[x], routes, k + 1, x) = Value(routes[Max(J)], x)
                    BY <5>1 DEF ValueAfter
                <5>4. QED BY <4>1, <5>2, <5>3
            <4>2. CASE Value(routes[k + 1], x) = NoVal
                <5>1. J = I
                    BY <2>1, <4>2
                <5>2. QED BY <3>5, <4>2, <5>1 DEF ValueAfter
            <4>3. QED BY <4>1, <4>2
        <3>7. SetRouteByArray(Left(k), routes[k + 1]) = Left(k + 1)
            BY <3>6 DEF SetRouteByArray
        <3>8. QED BY <3>1, <3>4, <3>7
    <2>3. QED BY <2>1, <2>2
<1>6. S \in SUBSET Nat
    OBVIOUS
<1> HIDE DEF S
<1>7. S = Nat
    BY <1>4, <1>5, <1>6, SetInduction
<1>8. g[1 .. Len(routes)] = Left(Len(routes))
    <2>1. Len(routes) \in S
        BY <1>1, <1>7
    <2>2. Len(routes) <= Len(routes)
        BY <1>1
    <2> HIDE DEF Left
    <2>3. QED BY <2>1, <2>2, Zenon DEF S
<1>9. QED BY <1>2, <1>8

-----------------------------------------------------------------------------
\* The sections and the applied routes of the first k elements of d.
SectionsBefore(d, k) == FlattenSeq([i \in 1 .. k |-> SectionsOf(d[i])])
AppliedBefore(d, k)  == FlattenSeq([i \in 1 .. k |-> AppliedRoutes(d[i])])

LEMMA SectionsBeforeFacts ==
    ASSUME NEW d \in Documents
    PROVE  /\ SectionsBefore(d, 0) = <<>>
           /\ \A k \in 0 .. Len(d) :
                 /\ SectionsBefore(d, k) \in Seq(Section(SettingsIn(d)))
                 /\ ToSet(SectionsBefore(d, k)) = UNION {ToSet(SectionsOf(d[i])) : i \in 1 .. k}
           /\ \A k \in 0 .. Len(d) : k < Len(d) =>
                 SectionsBefore(d, k + 1) = SectionsBefore(d, k) \o SectionsOf(d[k + 1])
<1> DEFINE T == Section(SettingsIn(d))
           F == [i \in 1 .. Len(d) |-> SectionsOf(d[i])]
<1>1. Len(d) \in Nat
    BY DocFacts
<1>2. ASSUME NEW i \in 1 .. Len(d) PROVE F[i] = SectionsOf(d[i]) /\ F[i] \in Seq(T)
    <2>1. ElementOK(d[i], SettingsIn(d))
        BY DocFacts
    <2>2. Len(d[i].paths) \in 0 .. Len(d[i].paths)
        BY <2>1 DEF ElementOK
    <2>3. SectionsUpTo(d[i], Len(d[i].paths)) \in Seq(T)
          /\ SectionsOf(d[i]) = SectionsUpTo(d[i], Len(d[i].paths))
        BY <2>1, <2>2, SectionFacts
    <2>4. QED BY <2>3
<1>3. ASSUME NEW k \in 0 .. Len(d) PROVE SectionsBefore(d, k) = FlatUpTo(F, k)
    <2>1. [i \in 1 .. k |-> SectionsOf(d[i])] = [i \in 1 .. k |-> F[i]]
        BY <1>1
    <2>2. QED BY <2>1, Zenon DEF SectionsBefore, FlatUpTo
<1>4. SectionsBefore(d, 0) = <<>>
    BY FlattenEmpty DEF SectionsBefore
<1> HIDE DEF F, T
<1>5. ASSUME NEW k \in 0 .. Len(d)
      PROVE  /\ SectionsBefore(d, k) \in Seq(T)
             /\ ToSet(SectionsBefore(d, k)) = UNION {ToSet(SectionsOf(d[i])) : i \in 1 .. k}
    <2>1. FlatUpTo(F, k) \in Seq(T)
        BY <1>1, <1>2, FlatType
    <2>2. ToSet(FlatUpTo(F, k)) = UNION {ToSet(F[i]) : i \in 1 .. k}
        BY <1>1, <1>2, FlatMembers
    <2>3. {ToSet(F[i]) : i \in 1 .. k} = {ToSet(SectionsOf(d[i])) : i \in 1 .. k}
        BY <1>1, <1>2
    <2>4. QED BY <1>3, <2>1, <2>2, <2>3
<1>6. ASSUME NEW k \in 0 .. Len(d), k < Len(d)
      PROVE  SectionsBefore(d, k + 1) = SectionsBefore(d, k) \o SectionsOf(d[k + 1])
    <2>1. k \in Nat /\ k + 1 \in 0 .. Len(d) /\ k + 1 \in 1 .. Len(d) /\ \A i \in 1 .. k + 1 : F[i] \in Seq(T)
        BY <1>1, <1>2, <1>6
    <2>2. FlatUpTo(F, k) \in Seq(T)
        BY <1>3, <1>5
    <2>3. FlatUpTo(F, k + 1) = FlatUpTo(F, k) \o F[k + 1]
        BY <2>1, <2>2, FlatMore
    <2>4. QED BY <1>2, <1>3, <2>1, <2>3
<1>7. QED BY <1>4, <1>5, <1>6 DEF T

LEMMA AppliedBeforeFacts ==
    ASSUME NEW d \in Documents
    PROVE  /\ AppliedBefore(d, 0) = <<>>
           /\ \A k \in 0 .. Len(d) : AppliedBefore(d, k) \in Seq(Seq(SettingsIn(d)))
           /\ \A k \in 0 .. Len(d) : k < Len(d) =>
                 AppliedBefore(d, k + 1) = AppliedBefore(d, k) \o AppliedRoutes(d[k + 1])
<1> DEFINE T == Seq(SettingsIn(d))
           F == [i \in 1 .. Len(d) |-> AppliedRoutes(d[i])]
<1>1. Len(d) \in Nat
    BY DocFacts
<1>2. ASSUME NEW i \in 1 .. Len(d) PROVE F[i] = AppliedRoutes(d[i]) /\ F[i] \in Seq(T)
    <2>1. ElementOK(d[i], SettingsIn(d))
        BY DocFacts
    <2>2. Len(d[i].paths) \in 0 .. Len(d[i].paths)
        BY <2>1 DEF ElementOK
    <2>3. AppliedUpTo(d[i], Len(d[i].paths)) \in Seq(T)
          /\ AppliedRoutes(d[i]) = AppliedUpTo(d[i], Len(d[i].paths))
        BY <2>1, <2>2, AppliedFacts
    <2>4. QED BY <2>3
<1>3. ASSUME NEW k \in 0 .. Len(d) PROVE AppliedBefore(d, k) = FlatUpTo(F, k)
    <2>1. [i \in 1 .. k |-> AppliedRoutes(d[i])] = [i \in 1 .. k |-> F[i]]
        BY <1>1
    <2>2. QED BY <2>1, Zenon DEF AppliedBefore, FlatUpTo
<1>4. AppliedBefore(d, 0) = <<>>
    BY FlattenEmpty DEF AppliedBefore
<1> HIDE DEF F, T
<1>5. \A k \in 0 .. Len(d) : FlatUpTo(F, k) \in Seq(T)
    BY <1>1, <1>2, FlatType
<1>6. ASSUME NEW k \in 0 .. Len(d), k < Len(d)
      PROVE  AppliedBefore(d, k + 1) = AppliedBefore(d, k) \o AppliedRoutes(d[k + 1])
    <2>1. k \in Nat /\ k + 1 \in 0 .. Len(d) /\ k + 1 \in 1 .. Len(d) /\ \A i \in 1 .. k + 1 : F[i] \in Seq(T)
        BY <1>1, <1>2, <1>6
    <2>2. FlatUpTo(F, k) \in Seq(T)
        BY <1>5
    <2>3. FlatUpTo(F, k + 1) = FlatUpTo(F, k) \o F[k + 1]
        BY <2>1, <2>2, FlatMore
    <2>4. QED BY <1>2, <1>3, <2>1, <2>3
<1>7. QED BY <1>3, <1>4, <1>5, <1>6 DEF T

\* The sections a word touches.
TouchedIn(cfgs, word) == Those([k \in 1 .. Len(cfgs) |-> k], LAMBDA k : cfgs[k].mask \cap word # {})

LEMMA TouchedFacts ==
    ASSUME NEW cfgs, Len(cfgs) \in Nat, NEW word
    PROVE  /\ TouchedIn(cfgs, word) \in Seq(1 .. Len(cfgs))
           /\ ToSet(TouchedIn(cfgs, word)) = {k \in 1 .. Len(cfgs) : cfgs[k].mask \cap word # {}}
<1> DEFINE s == [k \in 1 .. Len(cfgs) |-> k]
           F == [i \in 1 .. Len(cfgs) |-> IF cfgs[s[i]].mask \cap word # {} THEN <<s[i]>> ELSE <<>>]
<1>1. s \in Seq(1 .. Len(cfgs)) /\ Len(s) = Len(cfgs) /\ \A i \in 1 .. Len(cfgs) : s[i] = i
    OBVIOUS
<1> HIDE DEF s
<1>2. \A i \in 1 .. Len(cfgs) : F[i] = IF cfgs[s[i]].mask \cap word # {} THEN <<s[i]>> ELSE <<>>
    OBVIOUS
<1>3. F = [i \in 1 .. Len(cfgs) |-> F[i]]
    OBVIOUS
<1>4. TouchedIn(cfgs, word) = FlatUpTo(F, Len(cfgs))
    BY <1>1 DEF TouchedIn, Those, FlatUpTo, s
<1> HIDE DEF F
<1>5. \A v : <<v>> # <<>>
    OBVIOUS
<1>6. \A i \in 1 .. Len(s) : F[i] = <<s[i]>> \/ F[i] = <<>>
    BY <1>1, <1>2
<1>7. /\ \A i \in 0 .. Len(s) : FlatUpTo(F, i) \in Seq(1 .. Len(cfgs))
      /\ ToSet(FlatUpTo(F, Len(s))) = {s[i] : i \in {j \in 1 .. Len(s) : F[j] # <<>>}}
    <2> DEFINE T == 1 .. Len(cfgs)
    <2>1. s \in Seq(T)
        BY <1>1
    <2> HIDE DEF T
    <2>2. \A i \in 0 .. Len(s) : FlatUpTo(F, i) \in Seq(T)
        BY <1>6, <2>1, Singles
    <2>3. \A v : v \in ToSet(FlatUpTo(F, Len(s))) <=> \E j \in 1 .. Len(s) : F[j] # <<>> /\ v = s[j]
        BY <1>6, <2>1, SinglesSet
    <2>4. ToSet(FlatUpTo(F, Len(s))) = {s[i] : i \in {j \in 1 .. Len(s) : F[j] # <<>>}}
        BY <2>3
    <2>5. QED BY <2>2, <2>4 DEF T
<1>8. {s[i] : i \in {j \in 1 .. Len(s) : F[j] # <<>>}} = {k \in 1 .. Len(cfgs) : cfgs[k].mask \cap word # {}}
    <2>1. \A i \in 1 .. Len(cfgs) : F[i] # <<>> <=> cfgs[i].mask \cap word # {}
        BY <1>1, <1>2, <1>5
    <2>2. {s[i] : i \in {j \in 1 .. Len(s) : F[j] # <<>>}} = {j \in 1 .. Len(cfgs) : F[j] # <<>>}
        BY <1>1
    <2>3. QED BY <2>1, <2>2
<1>9. Len(cfgs) \in 0 .. Len(s)
    BY <1>1
<1>10. QED BY <1>1, <1>4, <1>7, <1>8, <1>9

\* The routes that select_devices applies for the default route.
DefaultRoutes(cfgs) ==
    LET touched == TouchedIn(cfgs, {R!SPEAKER}) \o TouchedIn(cfgs, R!IN_BUILTIN_MIC)
    IN  [i \in 1 .. Len(touched) |-> cfgs[touched[i]].on]

\* A section of the default route, by its mask.
Wanted(mask) == mask \cap {R!SPEAKER} # {} \/ mask \cap R!IN_BUILTIN_MIC # {}

LEMMA DefaultRoutesList ==
    ASSUME NEW cfgs, Len(cfgs) \in Nat
    PROVE  \E t \in Seq(1 .. Len(cfgs)) :
              /\ ToSet(t) = {k \in 1 .. Len(cfgs) : Wanted(cfgs[k].mask)}
              /\ DefaultRoutes(cfgs) = [i \in 1 .. Len(t) |-> cfgs[t[i]].on]
<1> DEFINE a == TouchedIn(cfgs, {R!SPEAKER})
           b == TouchedIn(cfgs, R!IN_BUILTIN_MIC)
           t == a \o b
<1>1. /\ a \in Seq(1 .. Len(cfgs)) /\ b \in Seq(1 .. Len(cfgs))
      /\ ToSet(a) = {k \in 1 .. Len(cfgs) : cfgs[k].mask \cap {R!SPEAKER} # {}}
      /\ ToSet(b) = {k \in 1 .. Len(cfgs) : cfgs[k].mask \cap R!IN_BUILTIN_MIC # {}}
    BY TouchedFacts
<1> HIDE DEF a, b
<1>2. t \in Seq(1 .. Len(cfgs)) /\ ToSet(t) = {k \in 1 .. Len(cfgs) : Wanted(cfgs[k].mask)}
    <2>1. t \in Seq(1 .. Len(cfgs))
        BY <1>1, ConcatProperties
    <2>2. ToSet(t) = ToSet(a) \cup ToSet(b)
        BY <1>1, ToSetConcat
    <2>3. QED BY <1>1, <2>1, <2>2 DEF Wanted
<1>3. DefaultRoutes(cfgs) = [i \in 1 .. Len(t) |-> cfgs[t[i]].on]
    BY DEF DefaultRoutes, a, b
<1> HIDE DEF t
<1>4. QED BY <1>2, <1>3

LEMMA DefaultRoutesFacts ==
    ASSUME NEW S, NEW cfgs, Len(cfgs) \in Nat, \A k \in 1 .. Len(cfgs) : cfgs[k].on \in S
    PROVE  /\ DefaultRoutes(cfgs) \in Seq(S)
           /\ \A i \in 1 .. Len(DefaultRoutes(cfgs)) :
                 \E k \in 1 .. Len(cfgs) : DefaultRoutes(cfgs)[i] = cfgs[k].on /\ Wanted(cfgs[k].mask)
<1>1. PICK t \in Seq(1 .. Len(cfgs)) :
              /\ ToSet(t) = {k \in 1 .. Len(cfgs) : Wanted(cfgs[k].mask)}
              /\ DefaultRoutes(cfgs) = [i \in 1 .. Len(t) |-> cfgs[t[i]].on]
    BY DefaultRoutesList
<1>2. Len(t) \in Nat /\ ToSet(t) = {t[i] : i \in 1 .. Len(t)}
    BY <1>1, LenProperties DEF ToSet
<1>3. \A i \in 1 .. Len(t) : t[i] \in 1 .. Len(cfgs) /\ Wanted(cfgs[t[i]].mask)
    BY <1>1, <1>2
<1>4. Len(DefaultRoutes(cfgs)) = Len(t) /\ \A i \in 1 .. Len(t) : DefaultRoutes(cfgs)[i] = cfgs[t[i]].on
    BY <1>1, <1>2
<1>5. DefaultRoutes(cfgs) \in Seq(S)
    BY <1>1, <1>2, <1>3
<1>6. QED BY <1>3, <1>4, <1>5

LEMMA DefaultRoutesHave ==
    ASSUME NEW cfgs, Len(cfgs) \in Nat, NEW k \in 1 .. Len(cfgs), Wanted(cfgs[k].mask)
    PROVE  \E i \in 1 .. Len(DefaultRoutes(cfgs)) : DefaultRoutes(cfgs)[i] = cfgs[k].on
<1>1. PICK t \in Seq(1 .. Len(cfgs)) :
              /\ ToSet(t) = {j \in 1 .. Len(cfgs) : Wanted(cfgs[j].mask)}
              /\ DefaultRoutes(cfgs) = [i \in 1 .. Len(t) |-> cfgs[t[i]].on]
    BY DefaultRoutesList
<1>2. Len(t) \in Nat /\ ToSet(t) = {t[i] : i \in 1 .. Len(t)}
    BY <1>1, LenProperties DEF ToSet
<1>3. PICK i \in 1 .. Len(t) : t[i] = k
    BY <1>1, <1>2
<1>4. Len(DefaultRoutes(cfgs)) = Len(t) /\ DefaultRoutes(cfgs)[i] = cfgs[t[i]].on
    BY <1>1, <1>2
<1>5. QED BY <1>3, <1>4

\* The values of the controls after some routes.
ValuesAfter(m, routes) == [x \in Controls |-> ValueAfter(m[x], routes, Len(routes), x)]
Boot == [x \in Controls |-> BootValue]

LEMMA ValuesStep ==
    ASSUME NEW T, NEW routes \in Seq(T), NEW r \in T, NEW m
    PROVE  ValuesAfter(m, Append(routes, r)) = SetRouteByArray(ValuesAfter(m, routes), r)
<1> DEFINE s == Append(routes, r)
           V == ValuesAfter(m, routes)
<1>1. \A x \in Controls : ValueAfter(m[x], s, Len(s), x) = IF Value(r, x) # NoVal THEN Value(r, x)
                                               ELSE ValueAfter(m[x], routes, Len(routes), x)
    BY ValueStep
<1>2. \A x \in Controls : V[x] = ValueAfter(m[x], routes, Len(routes), x)
    BY DEF ValuesAfter
<1> HIDE DEF s, V
<1>3. ValuesAfter(m, s) = SetRouteByArray(V, r)
    BY <1>1, <1>2 DEF ValuesAfter, SetRouteByArray
<1>4. QED BY <1>3 DEF s, V

LEMMA ValuesOfNone ==
    ASSUME NEW m, m = [x \in Controls |-> m[x]]
    PROVE  ValuesAfter(m, <<>>) = m
BY DEF ValuesAfter, ValueAfter

-----------------------------------------------------------------------------
\* The elements begun, the device being read, and the routes applied so far.
Begun       == IF inside = "file" THEN e ELSE e + 1
InDevice    == inside # "file" /\ Element.kind = "device"
AppliedList == AppliedBefore(doc, e) \o (IF inside = "file" THEN <<>> ELSE AppliedUpTo(Element, p))

\* The cursor is in the file, and inside an element only while parsing.
CursorOK ==
    /\ doc \in Documents /\ e \in 0 .. Len(doc) /\ n \in Nat /\ p \in Nat
    /\ inside \in {"file", "device", "path"}
    /\ inside # "file" => e < Len(doc) /\ pc \in {"parse", "failed"}
    /\ inside = "device" => Element.kind = "device" /\ p <= Len(Element.paths)
    /\ inside = "path" => p < Len(Element.paths) /\ n <= Len(ThisPath.ctls)

\* The parser's state is well typed.
StateTyped ==
    /\ dropped \in BOOLEAN /\ on \in BOOLEAN /\ dev \in Nat
    /\ device_has_earpiece \in BOOLEAN
    /\ path \in Seq(SettingsIn(doc))
    /\ dev_cfgs \in Seq(Section(SettingsIn(doc)))
    /\ mixer = [x \in Controls |-> mixer[x]]

\* s->path holds the usable controls finished, and nothing between paths.
PathOK ==
    /\ inside # "path" => path = <<>>
    /\ ~dropped /\ inside = "path" => path = UsableUpTo(ThisPath.ctls, n)

\* s->dev is the last section of a known device being read, and the role is right.
DevOK ==
    ~dropped =>
        /\ dev = IF InDevice /\ Known(Element) THEN Len(dev_cfgs) ELSE 0
        /\ inside = "path" /\ dev # 0 /\ WellNamed(Element) => (on <=> ThisPath.role = "on")

\* Section k is the one of the file, up to devices with a path of unknown name.
FromFile(k) ==
    \/ dev_cfgs[k] = SectionsBefore(doc, e)[k]
    \/ \E i \in 1 .. e : /\ ~WellNamed(doc[i])
                         /\ k \in Len(SectionsBefore(doc, i - 1)) + 1 .. Len(SectionsBefore(doc, i))

\* The sections are those of the elements begun; those of a device that is being
\* read have the routes of its paths finished.
SectionsOK ==
    ~dropped =>
        /\ Len(dev_cfgs) = Len(SectionsBefore(doc, Begun))
        /\ \A k \in 1 .. Len(SectionsBefore(doc, e)) : FromFile(k)
        /\ InDevice /\ WellNamed(Element) =>
              \A j \in 1 .. Len(SectionsOf(Element)) :
                 dev_cfgs[Len(SectionsBefore(doc, e)) + j] = SectionsUpTo(Element, p)[j]
        /\ device_has_earpiece <=>
              \E i \in 1 .. Begun : doc[i].kind = "device" /\ doc[i].name = "earpiece"

\* The controls have the values of the routes applied so far, in the order of the
\* file, then those of the default route.
MixerOK ==
    ~dropped /\ (\A i \in 1 .. Begun : WellNamed(doc[i])) =>
        /\ pc # "opened" => mixer = ValuesAfter(Boot, AppliedList)
        /\ pc = "opened" =>
              mixer = ValuesAfter(ValuesAfter(Boot, AppliedList), DefaultRoutes(dev_cfgs))

ParserInv == CursorOK /\ StateTyped /\ PathOK /\ DevOK /\ SectionsOK /\ MixerOK

LEMMA InitParserInv == Init => ParserInv
<1> SUFFICES ASSUME Init PROVE ParserInv
    OBVIOUS
<1>1. /\ pc = "start" /\ doc \in Documents /\ inside = "file" /\ e = 0 /\ p = 0 /\ n = 0
      /\ dev = 0 /\ on = FALSE /\ path = <<>> /\ dev_cfgs = <<>> /\ device_has_earpiece = FALSE
      /\ mixer = Boot /\ dropped = FALSE
    BY DEF Init, Boot
<1>2. Len(doc) \in Nat
    BY <1>1, DocFacts
<1>3. CursorOK
    BY <1>1, <1>2 DEF CursorOK
<1>4. StateTyped
    <2>1. <<>> \in Seq(SettingsIn(doc)) /\ <<>> \in Seq(Section(SettingsIn(doc)))
        OBVIOUS
    <2>2. mixer = [x \in Controls |-> mixer[x]]
        BY <1>1 DEF Boot
    <2>3. QED BY <1>1, <2>1, <2>2 DEF StateTyped
<1>5. PathOK
    BY <1>1 DEF PathOK
<1>6. DevOK
    BY <1>1 DEF DevOK, InDevice
<1>7. SectionsBefore(doc, 0) = <<>> /\ AppliedBefore(doc, 0) = <<>> /\ Begun = 0
    BY <1>1, SectionsBeforeFacts, AppliedBeforeFacts DEF Begun
<1>8. SectionsOK
    BY <1>1, <1>7 DEF SectionsOK, InDevice
<1>9. MixerOK
    <2>1. AppliedList = <<>>
        BY <1>1, <1>7 DEF AppliedList
    <2>2. Boot = [x \in Controls |-> Boot[x]]
        BY DEF Boot
    <2>3. QED BY <1>1, <2>1, <2>2, ValuesOfNone DEF MixerOK
<1>10. QED BY <1>3, <1>4, <1>5, <1>6, <1>8, <1>9 DEF ParserInv

\* Steps that change pc at most.
LEMMA PcStepParserInv ==
    ASSUME ParserInv, UNCHANGED <<doc, cursor_vars, state_vars, cfg_vars, mixer, dropped>>,
           \/ UNCHANGED pc
           \/ pc # "opened" /\ pc' # "opened" /\ (inside = "file" \/ pc' = "failed")
    PROVE  ParserInv'
<1> USE DEF cursor_vars, state_vars, cfg_vars
<1>1. CursorOK'
    BY DEF ParserInv, CursorOK, Element, ThisPath
<1>2. StateTyped'
    BY DEF ParserInv, StateTyped
<1>3. PathOK'
    BY DEF ParserInv, PathOK, Element, ThisPath
<1>4. DevOK'
    BY DEF ParserInv, DevOK, InDevice, Element, ThisPath
<1>5. SectionsOK'
    BY DEF ParserInv, SectionsOK, InDevice, Element, Begun, FromFile
<1>6. MixerOK'
    BY DEF ParserInv, MixerOK, Begun, AppliedList, Element
<1>7. QED BY <1>1, <1>2, <1>3, <1>4, <1>5, <1>6 DEF ParserInv

\* The element the cursor is at, and what its end adds to the lists.
LEMMA AtElement ==
    ASSUME CursorOK, e < Len(doc)
    PROVE  /\ ElementOK(Element, SettingsIn(doc)) /\ Element = doc[e + 1]
           /\ Element.kind = "device" \/ (Element.kind = "path" /\ Len(Element.paths) = 1)
           /\ Len(doc) \in Nat /\ e \in Nat /\ e + 1 \in 1 .. Len(doc) /\ e + 1 \in 0 .. Len(doc)
           /\ SectionsBefore(doc, e) \in Seq(Section(SettingsIn(doc)))
           /\ SectionsOf(Element) \in Seq(Section(SettingsIn(doc)))
           /\ SectionsBefore(doc, e + 1) = SectionsBefore(doc, e) \o SectionsOf(Element)
           /\ Len(SectionsBefore(doc, e + 1)) = Len(SectionsBefore(doc, e)) + Len(SectionsOf(Element))
           /\ Len(SectionsBefore(doc, e)) \in Nat /\ Len(SectionsOf(Element)) \in Nat
           /\ AppliedBefore(doc, e) \in Seq(Seq(SettingsIn(doc)))
           /\ AppliedBefore(doc, e + 1) = AppliedBefore(doc, e) \o AppliedRoutes(Element)
<1>1. doc \in Documents /\ e \in 0 .. Len(doc) /\ Len(doc) \in Nat
    BY DocFacts DEF CursorOK
<1>2. e \in Nat /\ e + 1 \in 1 .. Len(doc) /\ e + 1 \in 0 .. Len(doc)
    BY <1>1
<1>3. ElementOK(doc[e + 1], SettingsIn(doc))
      /\ (doc[e + 1].kind = "device" \/ (doc[e + 1].kind = "path" /\ Len(doc[e + 1].paths) = 1))
    BY <1>1, <1>2, DocFacts
<1> DEFINE T == Section(SettingsIn(doc))
<1>4. /\ SectionsBefore(doc, e) \in Seq(T)
      /\ SectionsBefore(doc, e + 1) = SectionsBefore(doc, e) \o SectionsOf(doc[e + 1])
    BY <1>1, SectionsBeforeFacts
<1>5. SectionsOf(doc[e + 1]) \in Seq(T)
    <2>1. Len(doc[e + 1].paths) \in 0 .. Len(doc[e + 1].paths)
        BY <1>3 DEF ElementOK
    <2>2. SectionsOf(doc[e + 1]) = SectionsUpTo(doc[e + 1], Len(doc[e + 1].paths))
        BY <1>3, SectionFacts
    <2>3. \A k \in 0 .. Len(doc[e + 1].paths) : SectionsUpTo(doc[e + 1], k) \in Seq(T)
        BY <1>3, SectionFacts
    <2>4. QED BY <2>1, <2>2, <2>3
<1>6. /\ AppliedBefore(doc, e) \in Seq(Seq(SettingsIn(doc)))
      /\ AppliedBefore(doc, e + 1) = AppliedBefore(doc, e) \o AppliedRoutes(doc[e + 1])
    BY <1>1, AppliedBeforeFacts
<1>7. /\ Len(SectionsBefore(doc, e) \o SectionsOf(doc[e + 1]))
            = Len(SectionsBefore(doc, e)) + Len(SectionsOf(doc[e + 1]))
      /\ Len(SectionsBefore(doc, e)) \in Nat /\ Len(SectionsOf(doc[e + 1])) \in Nat
    BY <1>4, <1>5, ConcatProperties, LenProperties
<1>8. QED BY <1>1, <1>2, <1>3, <1>4, <1>5, <1>6, <1>7 DEF Element

\* The sections StartDevice adds are the element's, before its first path.
LEMMA FreshSections ==
    ASSUME NEW S, NEW el, ElementOK(el, S), el.kind = "device"
    PROVE  /\ Len(SectionsOf(el)) = Len(RowsNamed(el.name))
           /\ Known(el) <=> Len(RowsNamed(el.name)) # 0
           /\ Len(RowsNamed(el.name)) \in Nat
           /\ \A i \in 1 .. Len(RowsNamed(el.name)) :
                 /\ SectionsUpTo(el, 0)[i] = EmptySection(RowsNamed(el.name)[i])
                 /\ EmptySection(RowsNamed(el.name)[i]) \in Section(S)
<1> DEFINE rows == RowsNamed(el.name)
<1>1. /\ Len(rows) \in Nat /\ Len(rows) # 0 <=> el.name \in AllNames
      /\ \A k \in 1 .. Len(rows) : \E i \in 1 .. 10 : rows[k] = DevNames[i] /\ DevNames[i].name = el.name
    BY RowsType
<1>2. Known(el) <=> Len(rows) # 0
    BY <1>1 DEF Known
<1>3. Len(SectionsOf(el)) = Len(rows)
    <2>1. CASE Known(el)
        BY <1>1, <2>1 DEF SectionsOf
    <2>2. CASE ~Known(el)
        BY <1>2, <2>2 DEF SectionsOf
    <2>3. QED BY <2>1, <2>2
<1>4. ASSUME NEW i \in 1 .. Len(rows)
      PROVE  SectionsUpTo(el, 0)[i] = EmptySection(rows[i]) /\ EmptySection(rows[i]) \in Section(S)
    <2>1. Known(el)
        BY <1>1, <1>2
    <2>2. SectionsUpTo(el, 0) = [j \in 1 .. Len(rows) |-> EmptySection(rows[j])]
        BY <2>1, SectionsStart
    <2>3. rows[i].mask \in SUBSET (0 .. 31)
        BY <1>1, RowIs
    <2>4. <<>> \in Seq(S)
        OBVIOUS
    <2> HIDE DEF rows
    <2>5. EmptySection(rows[i]) \in Section(S)
        BY <2>3, <2>4 DEF EmptySection, Section
    <2>6. QED BY <2>2, <2>5
<1>5. QED BY <1>1, <1>2, <1>3, <1>4

LEMMA StartDeviceParserInv == ASSUME ParserInv, StartDevice PROVE ParserInv'
<1> DEFINE rows == RowsNamed(Element.name)
<1>1. /\ pc = "parse" /\ inside = "file" /\ e < Len(doc) /\ Element.kind = "device"
      /\ inside' = "device" /\ p' = 0
      /\ UNCHANGED <<pc, doc, e, n, on, path, mixer>>
    BY DEF StartDevice
<1>2. PICK k \in 0 .. Len(rows) :
          /\ dropped => k = Len(rows)
          /\ dev_cfgs' = dev_cfgs \o [i \in 1 .. k |-> EmptySection(rows[i])]
          /\ dev' = IF k > 0 THEN Len(dev_cfgs') ELSE dev
          /\ dropped' = (dropped \/ k < Len(rows))
          /\ device_has_earpiece' = (device_has_earpiece \/ (k > 0 /\ Element.name = "earpiece"))
    BY DEF StartDevice
<1> DEFINE S == SettingsIn(doc)
           fresh == [i \in 1 .. k |-> EmptySection(rows[i])]
<1>3. CursorOK /\ StateTyped
    BY DEF ParserInv
<1>4. /\ ElementOK(Element, S) /\ Element = doc[e + 1]
      /\ Len(doc) \in Nat /\ e \in Nat /\ e + 1 \in 1 .. Len(doc)
      /\ Len(SectionsBefore(doc, e + 1)) = Len(SectionsBefore(doc, e)) + Len(SectionsOf(Element))
      /\ Len(SectionsBefore(doc, e)) \in Nat /\ Len(SectionsOf(Element)) \in Nat
    BY <1>1, <1>3, AtElement
<1>5. /\ Len(SectionsOf(Element)) = Len(rows)
      /\ Known(Element) <=> Len(rows) # 0
      /\ Len(rows) \in Nat
      /\ \A i \in 1 .. Len(rows) : /\ SectionsUpTo(Element, 0)[i] = EmptySection(rows[i])
                                   /\ EmptySection(rows[i]) \in Section(S)
    BY <1>1, <1>4, FreshSections
<1> HIDE DEF rows
<1>6. fresh \in Seq(Section(S)) /\ Len(fresh) = k /\ \A i \in 1 .. k : fresh[i] = EmptySection(rows[i])
    <2>1. k \in Nat /\ \A i \in 1 .. k : EmptySection(rows[i]) \in Section(S)
        BY <1>5
    <2>2. QED BY <2>1
<1>7. dev_cfgs \in Seq(Section(S)) /\ dev_cfgs' = dev_cfgs \o fresh /\ Len(dev_cfgs) \in Nat
    BY <1>2, <1>3, LenProperties DEF StateTyped
<1> HIDE DEF fresh
<1>8. /\ dev_cfgs' \in Seq(Section(S)) /\ Len(dev_cfgs') = Len(dev_cfgs) + k
      /\ \A i \in 1 .. Len(dev_cfgs) + k :
            dev_cfgs'[i] = IF i <= Len(dev_cfgs) THEN dev_cfgs[i] ELSE fresh[i - Len(dev_cfgs)]
    BY <1>6, <1>7, ConcatProperties
<1>9. Element' = Element /\ S' = S
    BY <1>1 DEF Element
<1>10. CursorOK'
    <2>1. Len(Element.paths) \in Nat
        BY <1>4 DEF ElementOK
    <2>2. QED BY <1>1, <1>3, <1>9, <2>1 DEF CursorOK
<1>11. StateTyped'
    <2>1. dropped' \in BOOLEAN /\ device_has_earpiece' \in BOOLEAN
        BY <1>2, <1>3 DEF StateTyped
    <2>2. Len(dev_cfgs') \in Nat
        BY <1>8, LenProperties
    <2>3. dev' \in Nat
        BY <1>2, <1>3, <2>2 DEF StateTyped
    <2>4. QED BY <1>1, <1>3, <1>8, <1>9, <2>1, <2>3 DEF StateTyped
<1>12. PathOK'
    BY <1>1 DEF ParserInv, PathOK
<1>13. ASSUME ~dropped' PROVE ~dropped /\ k = Len(rows)
    <2>1. ~(dropped \/ k < Len(rows))
        BY <1>2, <1>13, Zenon
    <2>2. ~(k < Len(rows)) /\ ~dropped
        BY <2>1, Zenon
    <2>3. k = Len(rows)
        BY <1>5, <2>2
    <2>4. QED BY <2>2, <2>3
<1>14. InDevice' /\ Begun' = e + 1 /\ Begun = e /\ ~InDevice
    BY <1>1, <1>9 DEF InDevice, Begun
<1>15. DevOK'
    <2>1. ASSUME ~dropped' PROVE dev' = IF Known(Element) THEN Len(dev_cfgs') ELSE 0
        <3>1. ~dropped /\ k = Len(rows) /\ dev = 0
            BY <1>13, <1>14, <2>1 DEF ParserInv, DevOK
        <3>2. QED BY <1>2, <1>5, <3>1
    <2>2. QED BY <1>1, <1>9, <1>14, <2>1 DEF DevOK
<1>16. SectionsOK'
    <2> SUFFICES ASSUME ~dropped'
                 PROVE  /\ Len(dev_cfgs') = Len(SectionsBefore(doc, e + 1))
                        /\ \A i \in 1 .. Len(SectionsBefore(doc, e)) : FromFile(i)'
                        /\ \A j \in 1 .. Len(SectionsOf(Element)) :
                              dev_cfgs'[Len(SectionsBefore(doc, e)) + j] = SectionsUpTo(Element, 0)[j]
                        /\ device_has_earpiece' <=>
                              \E i \in 1 .. e + 1 : doc[i].kind = "device" /\ doc[i].name = "earpiece"
        BY <1>1, <1>9, <1>14 DEF SectionsOK
    <2>1. /\ ~dropped /\ k = Len(rows)
          /\ Len(dev_cfgs) = Len(SectionsBefore(doc, e))
          /\ \A i \in 1 .. Len(SectionsBefore(doc, e)) : FromFile(i)
          /\ device_has_earpiece <=> \E i \in 1 .. e : doc[i].kind = "device" /\ doc[i].name = "earpiece"
        BY <1>13, <1>14 DEF ParserInv, SectionsOK
    <2>2. Len(dev_cfgs') = Len(SectionsBefore(doc, e + 1))
        BY <1>4, <1>5, <1>8, <2>1
    <2>3. \A i \in 1 .. Len(SectionsBefore(doc, e)) : dev_cfgs'[i] = dev_cfgs[i]
        BY <1>5, <1>7, <1>8, <2>1
    <2>4. \A i \in 1 .. Len(SectionsBefore(doc, e)) : FromFile(i)'
        BY <1>1, <2>1, <2>3 DEF FromFile
    <2>5. ASSUME NEW j \in 1 .. Len(SectionsOf(Element))
          PROVE  dev_cfgs'[Len(SectionsBefore(doc, e)) + j] = SectionsUpTo(Element, 0)[j]
        <3>1. j \in 1 .. Len(rows) /\ j \in 1 .. k
            BY <1>5, <2>1
        <3>2. /\ Len(dev_cfgs) + j \in 1 .. Len(dev_cfgs) + k /\ ~(Len(dev_cfgs) + j <= Len(dev_cfgs))
              /\ (Len(dev_cfgs) + j) - Len(dev_cfgs) = j
            BY <1>7, <3>1
        <3>3. dev_cfgs'[Len(dev_cfgs) + j] = fresh[j]
            BY <1>8, <3>2
        <3>4. QED BY <1>5, <1>6, <2>1, <3>1, <3>3
    <2>6. device_has_earpiece' <=>
             \E i \in 1 .. e + 1 : doc[i].kind = "device" /\ doc[i].name = "earpiece"
        <3>1. 1 .. e + 1 = (1 .. e) \cup {e + 1}
            BY <1>4
        <3>2. Element.name = "earpiece" => k > 0
            BY <1>1, <1>5, <2>1 DEF Known, AllNames
        <3>3. device_has_earpiece' <=> device_has_earpiece \/ Element.name = "earpiece"
            BY <1>2, <1>3, <3>2 DEF StateTyped
        <3>4. QED BY <1>1, <1>4, <2>1, <3>1, <3>3
    <2>7. QED BY <2>2, <2>4, <2>5, <2>6
<1>17. MixerOK'
    <2> SUFFICES ASSUME ~dropped', \A i \in 1 .. e + 1 : WellNamed(doc[i])
                 PROVE  mixer' = ValuesAfter(Boot, AppliedList')
        BY <1>1, <1>14 DEF MixerOK
    <2>1. ~dropped /\ \A i \in 1 .. Begun : WellNamed(doc[i])
        BY <1>4, <1>13, <1>14
    <2>2. mixer = ValuesAfter(Boot, AppliedList)
        BY <1>1, <2>1 DEF ParserInv, MixerOK
    <2>3. AppliedUpTo(Element, 0) = <<>>
        BY <1>4, AppliedFacts
    <2>4. AppliedList' = AppliedList
        BY <1>1, <1>9, <2>3 DEF AppliedList
    <2>5. QED BY <1>1, <2>2, <2>4
<1>18. QED BY <1>10, <1>11, <1>12, <1>15, <1>16, <1>17 DEF ParserInv

LEMMA StartPathParserInv == ASSUME ParserInv, StartPath PROVE ParserInv'
<1>1. /\ pc = "parse" /\ inside' = "path" /\ n' = 0
      /\ \/ inside = "file" /\ e < Len(doc) /\ Element.kind = "path" /\ p' = 0
         \/ inside = "device" /\ p < Len(Element.paths) /\ p' = p
      /\ on' = IF dev # 0 /\ Element.paths[p' + 1].role \in {"on", "off"}
               THEN Element.paths[p' + 1].role = "on" ELSE on
      /\ UNCHANGED <<pc, doc, e, dev, path, dev_cfgs, device_has_earpiece, mixer, dropped>>
    BY DEF StartPath, cfg_vars
<1>2. CursorOK /\ StateTyped
    BY DEF ParserInv
<1>3. e < Len(doc)
    BY <1>1, <1>2 DEF CursorOK
<1> DEFINE S == SettingsIn(doc)
<1>4. /\ ElementOK(Element, S) /\ Element = doc[e + 1]
      /\ Element.kind = "device" \/ (Element.kind = "path" /\ Len(Element.paths) = 1)
      /\ Len(doc) \in Nat /\ e \in Nat
      /\ Len(SectionsBefore(doc, e + 1)) = Len(SectionsBefore(doc, e)) + Len(SectionsOf(Element))
      /\ Len(SectionsBefore(doc, e)) \in Nat /\ Len(SectionsOf(Element)) \in Nat
    BY <1>2, <1>3, AtElement
<1>5. Element' = Element /\ ThisPath' = Element.paths[p' + 1] /\ S' = S
    BY <1>1 DEF Element, ThisPath
<1>6. p' \in Nat /\ p' < Len(Element.paths)
    <2>1. CASE inside = "file" /\ Element.kind = "path" /\ p' = 0
        <3>1. Element.kind = "device" \/ (Element.kind = "path" /\ Len(Element.paths) = 1)
            BY <1>2, <1>3, AtElement
        <3>2. Len(Element.paths) = 1 /\ p' = 0
            BY <2>1, <3>1
        <3>3. QED BY <3>2
    <2>2. CASE inside = "device" /\ p < Len(Element.paths) /\ p' = p
        BY <1>2, <2>2 DEF CursorOK
    <2>3. \/ inside = "file" /\ Element.kind = "path" /\ p' = 0
          \/ inside = "device" /\ p < Len(Element.paths) /\ p' = p
        BY <1>1, Zenon
    <2>4. QED BY <2>1, <2>2, <2>3
<1>7. p' + 1 \in 1 .. Len(Element.paths) /\ Len(Element.paths) \in Nat
    <2>1. Len(Element.paths) \in Nat
        BY <1>4 DEF ElementOK
    <2> DEFINE q == p'
               l == Len(Element.paths)
    <2>2. q \in Nat /\ l \in Nat /\ q < l
        BY <1>6, <2>1
    <2> HIDE DEF q, l
    <2>3. q + 1 \in 1 .. l /\ l \in Nat
        BY <2>2
    <2>4. QED BY <2>3 DEF q, l
<1>8. ThisPath'.ctls \in Seq(S)
    BY <1>4, <1>5, <1>7 DEF ElementOK
<1>9. CursorOK'
    <2>1. Len(ThisPath'.ctls) \in Nat
        BY <1>8, LenProperties
    <2>2. n' \in Nat /\ n' <= Len(ThisPath'.ctls)
        BY <1>1, <2>1
    <2>3. QED BY <1>1, <1>2, <1>3, <1>5, <1>6, <2>2 DEF CursorOK
<1>10. StateTyped'
    <2>1. on' \in BOOLEAN
        BY <1>1, <1>2 DEF StateTyped
    <2>2. QED BY <1>1, <1>2, <1>5, <2>1 DEF StateTyped
<1>11. PathOK'
    <2>1. path = <<>>
        BY <1>1 DEF ParserInv, PathOK
    <2>2. UsableUpTo(ThisPath'.ctls, 0) = <<>>
        BY <1>8, UsableFacts
    <2>3. path' = UsableUpTo(ThisPath'.ctls, n')
        BY <1>1, <2>1, <2>2
    <2>4. QED BY <1>1, <2>3 DEF PathOK
<1>12. InDevice' <=> InDevice
    BY <1>1, <1>5 DEF InDevice
<1>13. DevOK'
    <2> SUFFICES ASSUME ~dropped
                 PROVE  /\ dev = IF InDevice /\ Known(Element) THEN Len(dev_cfgs) ELSE 0
                        /\ dev # 0 /\ WellNamed(Element) => (on' <=> Element.paths[p' + 1].role = "on")
        BY <1>1, <1>5, <1>12 DEF DevOK
    <2>1. dev = IF InDevice /\ Known(Element) THEN Len(dev_cfgs) ELSE 0
        BY DEF ParserInv, DevOK
    <2>2. ASSUME dev # 0, WellNamed(Element) PROVE on' <=> Element.paths[p' + 1].role = "on"
        <3>1. Element.paths[p' + 1].role \in {"on", "off"}
            BY <1>7, <2>1, <2>2 DEF WellNamed
        <3>2. QED BY <1>1, <2>2, <3>1
    <2>3. QED BY <2>1, <2>2
<1>14. SectionsOK'
    <2> SUFFICES ASSUME ~dropped
                 PROVE  /\ Len(dev_cfgs) = Len(SectionsBefore(doc, e + 1))
                        /\ \A i \in 1 .. Len(SectionsBefore(doc, e)) : FromFile(i)'
                        /\ InDevice /\ WellNamed(Element) =>
                              \A j \in 1 .. Len(SectionsOf(Element)) :
                                dev_cfgs[Len(SectionsBefore(doc, e)) + j] = SectionsUpTo(Element, p')[j]
                        /\ device_has_earpiece <=>
                              \E i \in 1 .. e + 1 : doc[i].kind = "device" /\ doc[i].name = "earpiece"
        BY <1>1, <1>5, <1>12 DEF SectionsOK, Begun
    <2>1. \A i \in 1 .. Len(SectionsBefore(doc, e)) : FromFile(i)'
        BY <1>1 DEF FromFile, ParserInv, SectionsOK
    <2>2. CASE inside = "device"
        BY <1>1, <2>1, <2>2 DEF ParserInv, SectionsOK, Begun
    <2>3. CASE inside = "file"
        <3>1. Element.kind = "path" /\ ~Known(Element) /\ ~InDevice
            BY <1>1, <2>3 DEF Known, InDevice
        <3>2. Len(SectionsOf(Element)) = 0
            BY <3>1 DEF SectionsOf
        <3>3. /\ Len(dev_cfgs) = Len(SectionsBefore(doc, e))
              /\ device_has_earpiece <=>
                              \E i \in 1 .. e : doc[i].kind = "device" /\ doc[i].name = "earpiece"
            BY <2>3 DEF ParserInv, SectionsOK, Begun
        <3>4. Len(dev_cfgs) = Len(SectionsBefore(doc, e + 1))
            BY <1>4, <3>2, <3>3
        <3>5. 1 .. e + 1 = (1 .. e) \cup {e + 1}
            BY <1>4
        <3>6. QED BY <1>4, <2>1, <3>1, <3>3, <3>4, <3>5
    <2>4. QED BY <1>1, <2>2, <2>3
<1>15. MixerOK'
    <2> SUFFICES ASSUME ~dropped, \A i \in 1 .. e + 1 : WellNamed(doc[i])
                 PROVE  mixer' = ValuesAfter(Boot, AppliedList')
        BY <1>1 DEF MixerOK, Begun
    <2>1. \A i \in 1 .. Begun : WellNamed(doc[i])
        BY <1>4 DEF Begun
    <2>2. mixer = ValuesAfter(Boot, AppliedList)
        BY <1>1, <2>1 DEF ParserInv, MixerOK
    <2>3. AppliedUpTo(Element, 0) = <<>>
        BY <1>4, AppliedFacts
    <2>4. AppliedList' = AppliedList
        BY <1>1, <1>5, <2>3 DEF AppliedList
    <2>5. QED BY <1>1, <2>2, <2>4
<1>16. QED BY <1>9, <1>10, <1>11, <1>13, <1>14, <1>15 DEF ParserInv

LEMMA StartControlParserInv == ASSUME ParserInv, StartControl PROVE ParserInv'
<1>1. /\ pc = "parse" /\ inside = "path" /\ n < Len(ThisPath.ctls) /\ n' = n + 1
      /\ UNCHANGED <<pc, doc, inside, e, p, dev, on, dev_cfgs, device_has_earpiece, mixer>>
      /\ \/ ~Complete(ThisPath.ctls[n + 1]) /\ UNCHANGED <<path, dropped>>
         \/ /\ Complete(ThisPath.ctls[n + 1])
            /\ path' = Append(path, ThisPath.ctls[n + 1]) /\ UNCHANGED dropped
         \/ dropped' = TRUE /\ UNCHANGED path
    BY DEF StartControl, cfg_vars, Complete
<1>2. CursorOK /\ StateTyped
    BY DEF ParserInv
<1> DEFINE S == SettingsIn(doc)
<1>3. ElementOK(Element, S) /\ p \in Nat /\ p < Len(Element.paths)
    BY <1>1, <1>2, AtElement DEF CursorOK
<1>4. ThisPath.ctls \in Seq(S)
    <2>1. p + 1 \in 1 .. Len(Element.paths)
        BY <1>3 DEF ElementOK
    <2>2. QED BY <1>3, <2>1 DEF ElementOK, ThisPath
<1>5. Element' = Element /\ ThisPath' = ThisPath /\ S' = S
    BY <1>1 DEF Element, ThisPath
<1>6. /\ n \in Nat /\ Len(ThisPath.ctls) \in Nat /\ n + 1 \in 1 .. Len(ThisPath.ctls)
      /\ n \in 0 .. Len(ThisPath.ctls)
    BY <1>1, <1>2, <1>4, LenProperties DEF CursorOK
<1>7. ThisPath.ctls[n + 1] \in S
    BY <1>4, <1>6, ElementOfSeq
<1>8. CursorOK'
    BY <1>1, <1>2, <1>5, <1>6 DEF CursorOK
<1>9. StateTyped'
    <2>1. path \in Seq(S) /\ Append(path, ThisPath.ctls[n + 1]) \in Seq(S)
        BY <1>2, <1>7, AppendProperties DEF StateTyped
    <2>2. path' \in Seq(S)
        BY <1>1, <2>1
    <2>3. dropped' \in BOOLEAN
        BY <1>1, <1>2 DEF StateTyped
    <2>4. QED BY <1>1, <1>2, <1>5, <2>2, <2>3 DEF StateTyped
<1>10. ASSUME ~dropped' PROVE ~dropped
    BY <1>1, <1>10
<1>11. PathOK'
    <2> SUFFICES ASSUME ~dropped' PROVE path' = UsableUpTo(ThisPath.ctls, n + 1)
        BY <1>1, <1>5 DEF PathOK
    <2>1. path = UsableUpTo(ThisPath.ctls, n)
        BY <1>1, <1>10 DEF ParserInv, PathOK
    <2>2. UsableUpTo(ThisPath.ctls, n + 1) =
                     IF Complete(ThisPath.ctls[n + 1])
                     THEN Append(UsableUpTo(ThisPath.ctls, n), ThisPath.ctls[n + 1])
                     ELSE UsableUpTo(ThisPath.ctls, n)
        BY <1>1, <1>4, <1>6, UsableFacts
    <2>3. CASE ~Complete(ThisPath.ctls[n + 1]) /\ UNCHANGED path
        BY <2>1, <2>2, <2>3
    <2>4. CASE Complete(ThisPath.ctls[n + 1]) /\ path' = Append(path, ThisPath.ctls[n + 1])
        BY <2>1, <2>2, <2>4
    <2>5. QED BY <1>1, <2>3, <2>4, Zenon
<1>12. DevOK'
    BY <1>1, <1>5, <1>10 DEF ParserInv, DevOK, InDevice
<1>13. SectionsOK'
    BY <1>1, <1>5, <1>10 DEF ParserInv, SectionsOK, InDevice, Begun, FromFile
<1>14. MixerOK'
    BY <1>1, <1>5, <1>10 DEF ParserInv, MixerOK, Begun, AppliedList
<1>15. QED BY <1>8, <1>9, <1>11, <1>12, <1>13, <1>14 DEF ParserInv

LEMMA EndDeviceParserInv == ASSUME ParserInv, EndDevice PROVE ParserInv'
<1>1. /\ pc = "parse" /\ inside = "device" /\ p = Len(Element.paths)
      /\ inside' = "file" /\ e' = e + 1 /\ dev' = 0
      /\ UNCHANGED <<pc, doc, p, n, on, path, dev_cfgs, device_has_earpiece, mixer, dropped>>
    BY DEF EndDevice, cfg_vars
<1>2. CursorOK /\ StateTyped
    BY DEF ParserInv
<1>3. e < Len(doc) /\ Element.kind = "device"
    BY <1>1, <1>2 DEF CursorOK
<1> DEFINE S == SettingsIn(doc)
<1>4. /\ ElementOK(Element, S) /\ Element = doc[e + 1]
      /\ Len(doc) \in Nat /\ e \in Nat /\ e + 1 \in 0 .. Len(doc)
      /\ SectionsBefore(doc, e) \in Seq(Section(S)) /\ SectionsOf(Element) \in Seq(Section(S))
      /\ SectionsBefore(doc, e + 1) = SectionsBefore(doc, e) \o SectionsOf(Element)
      /\ Len(SectionsBefore(doc, e + 1)) = Len(SectionsBefore(doc, e)) + Len(SectionsOf(Element))
      /\ Len(SectionsBefore(doc, e)) \in Nat /\ Len(SectionsOf(Element)) \in Nat
      /\ AppliedBefore(doc, e + 1) = AppliedBefore(doc, e) \o AppliedRoutes(Element)
    BY <1>2, <1>3, AtElement
<1>5. CursorOK'
    BY <1>1, <1>2, <1>4 DEF CursorOK
<1>6. StateTyped'
    BY <1>1, <1>2 DEF StateTyped
<1>7. PathOK'
    BY <1>1 DEF ParserInv, PathOK
<1>8. DevOK'
    BY <1>1 DEF DevOK, InDevice
<1>9. Begun = e + 1 /\ Begun' = e + 1 /\ InDevice /\ ~InDevice'
    BY <1>1, <1>3 DEF Begun, InDevice
<1>10. SectionsOK'
    <2> SUFFICES ASSUME ~dropped
                 PROVE  /\ Len(dev_cfgs) = Len(SectionsBefore(doc, e + 1))
                        /\ \A i \in 1 .. Len(SectionsBefore(doc, e + 1)) : FromFile(i)'
                        /\ device_has_earpiece <=>
                              \E i \in 1 .. e + 1 : doc[i].kind = "device" /\ doc[i].name = "earpiece"
        BY <1>1, <1>9 DEF SectionsOK
    <2>1. /\ Len(dev_cfgs) = Len(SectionsBefore(doc, e + 1))
          /\ \A k \in 1 .. Len(SectionsBefore(doc, e)) : FromFile(k)
          /\ WellNamed(Element) =>
              \A j \in 1 .. Len(SectionsOf(Element)) :
                 dev_cfgs[Len(SectionsBefore(doc, e)) + j] = SectionsUpTo(Element, p)[j]
          /\ device_has_earpiece <=>
              \E i \in 1 .. e + 1 : doc[i].kind = "device" /\ doc[i].name = "earpiece"
        BY <1>9 DEF ParserInv, SectionsOK
    <2> DEFINE a == SectionsBefore(doc, e)
               b == SectionsOf(Element)
    <2>2. /\ Len(a \o b) = Len(a) + Len(b)
          /\ \A i \in 1 .. Len(a) + Len(b) : (a \o b)[i] = IF i <= Len(a) THEN a[i] ELSE b[i - Len(a)]
        BY <1>4, ConcatProperties
    <2>3. ASSUME NEW i \in 1 .. Len(SectionsBefore(doc, e + 1))
          PROVE  \/ dev_cfgs[i] = SectionsBefore(doc, e + 1)[i]
                 \/ \E j \in 1 .. e + 1 : /\ ~WellNamed(doc[j])
                         /\ i \in Len(SectionsBefore(doc, j - 1)) + 1 .. Len(SectionsBefore(doc, j))
        <3>1. SectionsBefore(doc, e + 1)[i] = IF i <= Len(a) THEN a[i] ELSE b[i - Len(a)]
            BY <1>4, <2>2
        <3>2. CASE i <= Len(a)
            <4>1. FromFile(i)
                BY <1>4, <2>1, <3>2
            <4>2. \A j \in 1 .. e : j \in 1 .. e + 1
                BY <1>4
            <4>3. QED BY <3>1, <3>2, <4>1, <4>2 DEF FromFile
        <3>3. CASE ~(i <= Len(a)) /\ WellNamed(Element)
            <4>1. i - Len(a) \in 1 .. Len(b) /\ Len(a) + (i - Len(a)) = i
                BY <1>4, <3>3
            <4>2. dev_cfgs[i] = SectionsUpTo(Element, p)[i - Len(a)]
                BY <2>1, <3>3, <4>1
            <4>3. b = SectionsUpTo(Element, p)
                BY <1>1, <1>4, SectionFacts
            <4>4. QED BY <3>1, <3>3, <4>2, <4>3
        <3>4. CASE ~(i <= Len(a)) /\ ~WellNamed(Element)
            <4>1. (e + 1) - 1 = e /\ e + 1 \in 1 .. e + 1
                BY <1>4
            <4>2. i \in Len(a) + 1 .. Len(SectionsBefore(doc, e + 1))
                BY <1>4, <3>4
            <4>3. QED BY <1>4, <3>4, <4>1, <4>2
        <3>5. QED BY <3>2, <3>3, <3>4
    <2>4. \A i \in 1 .. Len(SectionsBefore(doc, e + 1)) : FromFile(i)'
        BY <1>1, <2>3 DEF FromFile
    <2>5. QED BY <2>1, <2>4
<1>11. MixerOK'
    <2> SUFFICES ASSUME ~dropped, \A i \in 1 .. e + 1 : WellNamed(doc[i])
                 PROVE  mixer' = ValuesAfter(Boot, AppliedList')
        BY <1>1, <1>9 DEF MixerOK
    <2>1. mixer = ValuesAfter(Boot, AppliedList)
        BY <1>1, <1>9 DEF ParserInv, MixerOK
    <2>2. AppliedList' = AppliedBefore(doc, e + 1) \o <<>>
        BY <1>1 DEF AppliedList
    <2>3. AppliedBefore(doc, e + 1) \in Seq(Seq(S))
        BY <1>2, <1>4, AppliedBeforeFacts DEF CursorOK
    <2>4. AppliedRoutes(Element) = AppliedUpTo(Element, p)
        BY <1>1, <1>4, AppliedFacts
    <2>5. AppliedList = AppliedBefore(doc, e + 1)
        BY <1>1, <1>4, <2>4 DEF AppliedList
    <2>6. AppliedList' = AppliedList
        BY <2>2, <2>3, <2>5, ConcatEmptySeq
    <2>7. QED BY <1>1, <2>1, <2>6
<1>12. QED BY <1>5, <1>6, <1>7, <1>8, <1>10, <1>11 DEF ParserInv

\* The path that ends: what s->path holds, and where it goes.
LEMMA EndPathFacts ==
    ASSUME ParserInv, EndPath
    PROVE  /\ pc = "parse" /\ inside = "path" /\ e < Len(doc) /\ p \in Nat
           /\ p \in 0 .. Len(Element.paths) /\ p < Len(Element.paths) /\ p + 1 \in 1 .. Len(Element.paths)
           /\ ElementOK(Element, SettingsIn(doc)) /\ Len(Element.paths) \in Nat
           /\ path \in Seq(SettingsIn(doc)) /\ dev_cfgs \in Seq(Section(SettingsIn(doc)))
           /\ Len(dev_cfgs) \in Nat
           /\ ~dropped => path = Usable(ThisPath.ctls)
           /\ p' = p + 1 /\ path' = <<>>
           /\ UNCHANGED <<pc, doc, n, dev, on, device_has_earpiece, dropped>>
           /\ mixer' = IF Applied THEN SetRouteByArray(mixer, path) ELSE mixer
           /\ dev_cfgs' = [k \in 1 .. Len(dev_cfgs) |->
                       IF k # dev THEN dev_cfgs[k]
                       ELSE IF on THEN [dev_cfgs[k] EXCEPT !.on = path]
                       ELSE [dev_cfgs[k] EXCEPT !.off = path]]
           /\ inside' = (IF Element.kind = "device" THEN "device" ELSE "file")
           /\ e' = (IF Element.kind = "device" THEN e ELSE e + 1)
<1> DEFINE S == SettingsIn(doc)
<1>1. /\ pc = "parse" /\ inside = "path" /\ n = Len(ThisPath.ctls) /\ path' = <<>>
      /\ p' = p + 1 /\ UNCHANGED <<pc, doc, n, dev, on, device_has_earpiece, dropped>>
      /\ inside' = (IF Element.kind = "device" THEN "device" ELSE "file")
      /\ e' = (IF Element.kind = "device" THEN e ELSE e + 1)
    BY DEF EndPath, TakenPath
<1>2. /\ mixer' = IF Applied THEN SetRouteByArray(mixer, path) ELSE mixer
      /\ dev_cfgs' = [k \in 1 .. Len(dev_cfgs) |->
                       IF k # dev THEN dev_cfgs[k]
                       ELSE IF on THEN [dev_cfgs[k] EXCEPT !.on = path]
                       ELSE [dev_cfgs[k] EXCEPT !.off = path]]
    BY DEF EndPath
<1>3. CursorOK /\ StateTyped
    BY DEF ParserInv
<1>4. e < Len(doc) /\ p \in Nat /\ p < Len(Element.paths)
    BY <1>1, <1>3 DEF CursorOK
<1>5. ElementOK(Element, S)
    BY <1>3, <1>4, AtElement
<1>6. Len(Element.paths) \in Nat
    BY <1>5 DEF ElementOK
<1>7. p + 1 \in 1 .. Len(Element.paths) /\ p \in 0 .. Len(Element.paths)
    BY <1>4, <1>6
<1>8. ThisPath.ctls \in Seq(S)
    BY <1>5, <1>7 DEF ElementOK, ThisPath
<1>9. ~dropped => path = Usable(ThisPath.ctls)
    <2>1. ~dropped => path = UsableUpTo(ThisPath.ctls, n)
        BY <1>1 DEF ParserInv, PathOK
    <2>2. QED BY <1>1, <1>8, <2>1, UsableFacts
<1>10. path \in Seq(S) /\ dev_cfgs \in Seq(Section(S)) /\ Len(dev_cfgs) \in Nat
    BY <1>3, LenProperties DEF StateTyped
<1> HIDE DEF S
<1>11. QED BY <1>1, <1>2, <1>4, <1>5, <1>6, <1>7, <1>9, <1>10 DEF S

LEMMA EndPathTyped == ASSUME ParserInv, EndPath PROVE CursorOK' /\ StateTyped' /\ PathOK' /\ DevOK'
<1> DEFINE S == SettingsIn(doc)
           T == Section(S)
<1>1. /\ inside = "path" /\ e < Len(doc) /\ p \in Nat
      /\ p < Len(Element.paths) /\ Len(Element.paths) \in Nat
      /\ path \in Seq(S) /\ dev_cfgs \in Seq(T) /\ Len(dev_cfgs) \in Nat
      /\ p' = p + 1 /\ path' = <<>>
      /\ UNCHANGED <<pc, doc, n, dev, on, device_has_earpiece, dropped>>
      /\ inside' = (IF Element.kind = "device" THEN "device" ELSE "file")
      /\ e' = (IF Element.kind = "device" THEN e ELSE e + 1)
    BY EndPathFacts
<1>2. /\ mixer' = IF Applied THEN SetRouteByArray(mixer, path) ELSE mixer
      /\ dev_cfgs' = [k \in 1 .. Len(dev_cfgs) |->
                       IF k # dev THEN dev_cfgs[k]
                       ELSE IF on THEN [dev_cfgs[k] EXCEPT !.on = path]
                       ELSE [dev_cfgs[k] EXCEPT !.off = path]]
    BY EndPathFacts
<1>3. CursorOK /\ StateTyped
    BY DEF ParserInv
<1>4. /\ Element.kind = "device" \/ (Element.kind = "path" /\ Len(Element.paths) = 1)
      /\ Len(doc) \in Nat /\ e \in Nat
    BY <1>1, <1>3, AtElement
<1>5. CursorOK'
    <2>1. doc' \in Documents /\ n' \in Nat /\ p' \in Nat /\ inside' \in {"file", "device"}
        BY <1>1, <1>3 DEF CursorOK
    <2>2. e' \in 0 .. Len(doc') /\ (inside' # "file" => e' < Len(doc'))
        BY <1>1, <1>4
    <2>3. inside' = "device" => Element'.kind = "device" /\ p' <= Len(Element'.paths)
        BY <1>1, <1>4 DEF Element
    <2>4. inside' # "file" => pc' \in {"parse", "failed"}
        BY <1>1, <1>3 DEF CursorOK
    <2>5. QED BY <2>1, <2>2, <2>3, <2>4 DEF CursorOK
<1>6. dev_cfgs' \in Seq(T) /\ Len(dev_cfgs') = Len(dev_cfgs)
    <2>1. ASSUME NEW k \in 1 .. Len(dev_cfgs) PROVE dev_cfgs'[k] \in T
        <3>1. dev_cfgs[k] \in T
            BY <1>1, <2>1, ElementOfSeq
        <3>2. [dev_cfgs[k] EXCEPT !.on = path] \in T /\ [dev_cfgs[k] EXCEPT !.off = path] \in T
            BY <1>1, <3>1 DEF Section
        <3>3. dev_cfgs'[k] = IF k # dev THEN dev_cfgs[k]
                       ELSE IF on THEN [dev_cfgs[k] EXCEPT !.on = path]
                       ELSE [dev_cfgs[k] EXCEPT !.off = path]
            BY <1>2
        <3>4. QED BY <3>1, <3>2, <3>3, Zenon
    <2>2. dev_cfgs' = [k \in 1 .. Len(dev_cfgs) |-> dev_cfgs'[k]]
        BY <1>2
    <2> DEFINE g == dev_cfgs'
    <2> HIDE DEF g, T
    <2>3. g = [k \in 1 .. Len(dev_cfgs) |-> g[k]] /\ \A k \in 1 .. Len(dev_cfgs) : g[k] \in T
        BY <2>1, <2>2 DEF g
    <2>4. g \in Seq(T) /\ Len(g) = Len(dev_cfgs)
        BY <1>1, <2>3
    <2>5. QED BY <2>4 DEF g
<1>7. StateTyped'
    <2>1. mixer' = [x \in Controls |-> mixer'[x]]
        <3>1. CASE Applied
            BY <1>2, <3>1 DEF SetRouteByArray
        <3>2. CASE ~Applied
            BY <1>2, <1>3, <3>2 DEF StateTyped
        <3>3. QED BY <3>1, <3>2
    <2>2. <<>> \in Seq(S)
        OBVIOUS
    <2>3. QED BY <1>1, <1>3, <1>6, <2>1, <2>2 DEF StateTyped
<1>8. PathOK'
    BY <1>1 DEF PathOK
<1>9. DevOK'
    <2> SUFFICES ASSUME ~dropped PROVE dev = IF InDevice' /\ Known(Element') THEN Len(dev_cfgs') ELSE 0
        BY <1>1 DEF DevOK
    <2>1. dev = IF InDevice /\ Known(Element) THEN Len(dev_cfgs) ELSE 0
        BY DEF ParserInv, DevOK
    <2>2. CASE Element.kind = "device"
        BY <1>1, <1>6, <2>1, <2>2 DEF InDevice, Element
    <2>3. CASE Element.kind # "device"
        BY <1>1, <2>1, <2>3 DEF InDevice
    <2>4. QED BY <2>2, <2>3
<1>10. QED BY <1>5, <1>7, <1>8, <1>9

\* A role that is kept belongs to the device being read: the last section gets the path.
LEMMA EndPathSections == ASSUME ParserInv, EndPath PROVE SectionsOK'
<1> DEFINE S == SettingsIn(doc)
           a == SectionsBefore(doc, e)
           b == SectionsOf(Element)
<1>1. /\ inside = "path" /\ e < Len(doc) /\ p \in 0 .. Len(Element.paths)
      /\ p < Len(Element.paths) /\ p + 1 \in 1 .. Len(Element.paths)
      /\ ElementOK(Element, S)
      /\ Len(dev_cfgs) \in Nat /\ (~dropped => path = Usable(ThisPath.ctls))
      /\ p' = p + 1
      /\ UNCHANGED <<doc, dev, on, device_has_earpiece, dropped>>
      /\ inside' = (IF Element.kind = "device" THEN "device" ELSE "file")
      /\ e' = (IF Element.kind = "device" THEN e ELSE e + 1)
    BY EndPathFacts
<1>2. /\ \A k \in 1 .. Len(dev_cfgs) :
            dev_cfgs'[k] = IF k # dev THEN dev_cfgs[k]
                           ELSE IF on THEN [dev_cfgs[k] EXCEPT !.on = path]
                           ELSE [dev_cfgs[k] EXCEPT !.off = path]
      /\ Len(dev_cfgs') = Len(dev_cfgs)
    <2>1. dev_cfgs' = [k \in 1 .. Len(dev_cfgs) |->
                       IF k # dev THEN dev_cfgs[k]
                       ELSE IF on THEN [dev_cfgs[k] EXCEPT !.on = path]
                       ELSE [dev_cfgs[k] EXCEPT !.off = path]]
        BY EndPathFacts
    <2>2. \A k \in 1 .. Len(dev_cfgs) :
            dev_cfgs'[k] = IF k # dev THEN dev_cfgs[k]
                           ELSE IF on THEN [dev_cfgs[k] EXCEPT !.on = path]
                           ELSE [dev_cfgs[k] EXCEPT !.off = path]
        BY <2>1, Zenon
    <2> DEFINE new(k) == IF k # dev THEN dev_cfgs[k]
                       ELSE IF on THEN [dev_cfgs[k] EXCEPT !.on = path]
                       ELSE [dev_cfgs[k] EXCEPT !.off = path]
    <2> HIDE DEF new
    <2>3. Len([k \in 1 .. Len(dev_cfgs) |-> new(k)]) = Len(dev_cfgs)
        BY <1>1
    <2>4. QED BY <2>1, <2>2, <2>3 DEF new
<1>3. CursorOK
    BY DEF ParserInv
<1>4. /\ Element.kind = "device" \/ (Element.kind = "path" /\ Len(Element.paths) = 1)
      /\ Len(doc) \in Nat /\ e \in Nat /\ Element = doc[e + 1]
      /\ a \in Seq(Section(S)) /\ b \in Seq(Section(S))
      /\ SectionsBefore(doc, e + 1) = a \o b
      /\ Len(SectionsBefore(doc, e + 1)) = Len(a) + Len(b)
      /\ Len(a) \in Nat /\ Len(b) \in Nat
    BY <1>1, <1>3, AtElement
<1>5. Begun = e + 1 /\ Begun' = e + 1 /\ (InDevice <=> Element.kind = "device")
      /\ (InDevice' <=> Element.kind = "device")
    <2>1. CASE Element.kind = "device"
        BY <1>1, <2>1 DEF Begun, InDevice, Element
    <2>2. CASE Element.kind # "device"
        BY <1>1, <2>2 DEF Begun, InDevice
    <2>3. QED BY <2>1, <2>2
<1> SUFFICES ASSUME ~dropped PROVE SectionsOK'
    BY <1>1 DEF SectionsOK
<1>6. /\ Len(dev_cfgs) = Len(a) + Len(b)
      /\ \A k \in 1 .. Len(a) : FromFile(k)
      /\ (InDevice /\ WellNamed(Element) =>
              \A j \in 1 .. Len(b) : dev_cfgs[Len(a) + j] = SectionsUpTo(Element, p)[j])
      /\ (device_has_earpiece <=>
              \E i \in 1 .. e + 1 : doc[i].kind = "device" /\ doc[i].name = "earpiece")
    BY <1>4, <1>5 DEF ParserInv, SectionsOK
<1>7. dev = (IF InDevice /\ Known(Element) THEN Len(dev_cfgs) ELSE 0)
    BY DEF ParserInv, DevOK
<1>8. Len(b) # 0 <=> Known(Element)
    BY <1>1, SectionFacts
<1>9. ASSUME NEW k \in 1 .. Len(a) PROVE dev_cfgs'[k] = dev_cfgs[k] /\ FromFile(k)
    <2>1. k \in 1 .. Len(dev_cfgs) /\ k # dev
        BY <1>4, <1>6, <1>7, <1>8
    <2>2. QED BY <1>2, <1>6, <2>1
<1>10. CASE Element.kind = "device"
    <2> HIDE DEF a, b
    <2>1. e' = e /\ Element' = Element
        BY <1>1, <1>10 DEF Element
    <2>2. \A k \in 1 .. Len(a) : FromFile(k)'
        BY <1>1, <1>9, <2>1 DEF FromFile
    <2>3. ASSUME WellNamed(Element), NEW j \in 1 .. Len(b)
          PROVE  dev_cfgs'[Len(a) + j] = SectionsUpTo(Element, p + 1)[j]
        <3>1. Known(Element) /\ dev = Len(dev_cfgs) /\ dev # 0
            BY <1>4, <1>5, <1>6, <1>7, <1>8, <1>10
        <3>2. Element.paths[p + 1].role \in {"on", "off"}
            BY <1>1, <2>3, <3>1 DEF WellNamed
        <3>3. on <=> Element.paths[p + 1].role = "on"
            BY <1>1, <2>3, <3>1 DEF ParserInv, DevOK, ThisPath
        <3> DEFINE s == SectionsUpTo(Element, p)
                   route == Usable(Element.paths[p + 1].ctls)
        <3>4. Len(s) = Len(b)
            BY <1>1, SectionFacts DEF b
        <3>5. /\ j < Len(s) => SectionsUpTo(Element, p + 1)[j] = s[j]
              /\ ~(j < Len(s)) /\ Element.paths[p + 1].role = "on" =>
                    SectionsUpTo(Element, p + 1)[j] = [s[j] EXCEPT !.on = route]
              /\ ~(j < Len(s)) /\ Element.paths[p + 1].role = "off" =>
                    SectionsUpTo(Element, p + 1)[j] = [s[j] EXCEPT !.off = route]
            <4>1. j \in 1 .. Len(s)
                BY <3>4
            <4>2. ElementOK(Element, S) /\ p \in 0 .. Len(Element.paths) /\ p < Len(Element.paths)
                BY <1>1
            <4>3. Known(Element) /\ Element.paths[p + 1].role \in {"on", "off"}
                BY <3>1, <3>2
            <4>4. QED BY <4>1, <4>2, <4>3, SectionsStep
        <3>6. path = route
            BY <1>1 DEF ThisPath
        <3>7. dev_cfgs[Len(a) + j] = s[j]
            BY <1>5, <1>6, <1>10, <2>3
        <3>8. Len(a) + j \in 1 .. Len(dev_cfgs) /\ (Len(a) + j = Len(dev_cfgs) <=> ~(j < Len(b)))
            <4>1. Len(dev_cfgs) = Len(a) + Len(b) /\ Len(a) \in Nat /\ Len(b) \in Nat
                BY <1>4, <1>6
            <4>2. QED BY <4>1
        <3> HIDE DEF s, route
        <3>9. CASE j < Len(b)
            <4>1. Len(a) + j # dev
                BY <3>1, <3>8, <3>9
            <4>2. dev_cfgs'[Len(a) + j] = s[j]
                BY <1>2, <3>7, <3>8, <4>1
            <4>3. QED BY <3>4, <3>5, <3>9, <4>2
        <3>10. CASE ~(j < Len(b))
            <4>1. Len(a) + j = dev
                BY <3>1, <3>8, <3>10
            <4>2. dev_cfgs'[Len(a) + j] = IF on THEN [s[j] EXCEPT !.on = path] ELSE [s[j] EXCEPT !.off = path]
                <5> DEFINE k == Len(a) + j
                <5>1. k \in 1 .. Len(dev_cfgs) /\ k = dev /\ dev_cfgs[k] = s[j]
                    BY <3>7, <3>8, <4>1
                <5> HIDE DEF k
                <5>2. dev_cfgs'[k] = IF on THEN [dev_cfgs[k] EXCEPT !.on = path]
                                     ELSE [dev_cfgs[k] EXCEPT !.off = path]
                    BY <1>2, <5>1, Zenon
                <5>3. dev_cfgs'[k] = IF on THEN [s[j] EXCEPT !.on = path] ELSE [s[j] EXCEPT !.off = path]
                    BY <5>1, <5>2, Zenon
                <5>4. QED BY <5>3 DEF k
            <4>3. ~(j < Len(s))
                BY <3>4, <3>10
            <4>4. CASE on
                <5>1. Element.paths[p + 1].role = "on"
                    BY <3>3, <4>4, Zenon
                <5>2. dev_cfgs'[Len(a) + j] = [s[j] EXCEPT !.on = path]
                    BY <4>2, <4>4, Zenon
                <5>3. QED BY <3>5, <3>6, <4>3, <5>1, <5>2
            <4>5. CASE ~on
                <5>1. Element.paths[p + 1].role = "off"
                    BY <3>2, <3>3, <4>5, Zenon
                <5>2. dev_cfgs'[Len(a) + j] = [s[j] EXCEPT !.off = path]
                    BY <4>2, <4>5, Zenon
                <5>3. QED BY <3>5, <3>6, <4>3, <5>1, <5>2
            <4>6. QED BY <4>4, <4>5
        <3>11. QED BY <3>9, <3>10
    <2>4. QED BY <1>1, <1>2, <1>4, <1>5, <1>6, <1>10, <2>1, <2>2, <2>3 DEF SectionsOK, a, b
<1>11. CASE Element.kind # "device"
    <2>1. dev = 0 /\ Len(b) = 0 /\ e' = e + 1 /\ inside' = "file" /\ ~InDevice'
        BY <1>1, <1>5, <1>7, <1>8, <1>11 DEF Known
    <2>2. SectionsBefore(doc, e + 1) = a
        <3>1. b = <<>>
            BY <1>11 DEF SectionsOf, Known
        <3>2. QED BY <1>4, <3>1, ConcatEmptySeq
    <2>3. ASSUME NEW k \in 1 .. Len(SectionsBefore(doc, e + 1)) PROVE FromFile(k)'
        <3>1. k \in 1 .. Len(a)
            BY <2>2
        <3>2. dev_cfgs'[k] = dev_cfgs[k] /\ FromFile(k)
            BY <1>9, <3>1
        <3>3. \A i \in 1 .. e : i \in 1 .. e + 1
            BY <1>4
        <3>4. QED BY <1>1, <2>1, <2>2, <3>2, <3>3 DEF FromFile
    <2>4. Len(dev_cfgs') = Len(SectionsBefore(doc, e + 1))
        BY <1>2, <1>4, <1>6
    <2>5. QED BY <1>1, <1>5, <1>6, <2>1, <2>3, <2>4 DEF SectionsOK
<1>12. QED BY <1>10, <1>11

\* What is applied when a path ends is what the file says is applied.
LEMMA EndPathMixer == ASSUME ParserInv, EndPath PROVE MixerOK'
<1> DEFINE S == SettingsIn(doc)
           T == Seq(S)
           a == AppliedBefore(doc, e)
<1>1. /\ pc = "parse" /\ inside = "path" /\ e < Len(doc) /\ p \in 0 .. Len(Element.paths)
      /\ p < Len(Element.paths) /\ p + 1 \in 1 .. Len(Element.paths)
      /\ ElementOK(Element, S) /\ path \in T
      /\ (~dropped => path = Usable(ThisPath.ctls))
      /\ p' = p + 1 /\ UNCHANGED <<pc, doc, dev, on, dropped>>
      /\ mixer' = (IF Applied THEN SetRouteByArray(mixer, path) ELSE mixer)
      /\ inside' = (IF Element.kind = "device" THEN "device" ELSE "file")
      /\ e' = (IF Element.kind = "device" THEN e ELSE e + 1)
    BY EndPathFacts
<1>2. CursorOK
    BY DEF ParserInv
<1>3. /\ Element.kind = "device" \/ (Element.kind = "path" /\ Len(Element.paths) = 1)
      /\ Len(doc) \in Nat /\ e \in Nat /\ Element = doc[e + 1] /\ e + 1 \in 0 .. Len(doc)
      /\ a \in Seq(T) /\ AppliedBefore(doc, e + 1) = a \o AppliedRoutes(Element)
      /\ Len(SectionsBefore(doc, e + 1)) = Len(SectionsBefore(doc, e)) + Len(SectionsOf(Element))
      /\ Len(SectionsBefore(doc, e)) \in Nat /\ Len(SectionsOf(Element)) \in Nat
    BY <1>1, <1>2, AtElement
<1>4. Begun = e + 1 /\ Begun' = e + 1
    BY <1>1 DEF Begun
<1> SUFFICES ASSUME ~dropped, \A i \in 1 .. e + 1 : WellNamed(doc[i])
             PROVE  mixer' = ValuesAfter(Boot, AppliedList')
    BY <1>1, <1>4 DEF MixerOK
<1> DEFINE done == AppliedUpTo(Element, p)
           more == AppliedUpTo(Element, p + 1)
           route == Usable(Element.paths[p + 1].ctls)
<1>5. mixer = ValuesAfter(Boot, a \o done)
    BY <1>1, <1>4 DEF ParserInv, MixerOK, AppliedList
<1>6. WellNamed(Element)
    BY <1>3
<1>7. Applied <=> AppliedNow(Element, p + 1)
    <2>1. dev = (IF InDevice /\ Known(Element) THEN Len(dev_cfgs) ELSE 0)
        BY DEF ParserInv, DevOK
    <2>2. CASE Known(Element)
        <3>1. InDevice
            BY <1>1, <2>2 DEF InDevice, Known
        <3>2. dev # 0
            <4>1. Len(SectionsOf(Element)) # 0
                BY <1>1, <2>2, SectionFacts
            <4>2. Len(dev_cfgs) = Len(SectionsBefore(doc, e + 1))
                BY <1>4 DEF ParserInv, SectionsOK
            <4>3. QED BY <1>3, <2>1, <2>2, <3>1, <4>1, <4>2
        <3>3. on <=> Element.paths[p + 1].role = "on"
            BY <1>1, <1>6, <3>2 DEF ParserInv, DevOK, ThisPath
        <3>4. Element.paths[p + 1].role \in {"on", "off"}
            BY <1>1, <1>6, <2>2 DEF WellNamed
        <3>5. AppliedNow(Element, p + 1) <=> ~on
            BY <2>2, <3>3, <3>4 DEF AppliedNow
        <3>6. QED BY <3>2, <3>5, Zenon DEF Applied
    <2>3. CASE ~Known(Element)
        <3>1. dev = 0
            BY <2>1, <2>3
        <3>2. QED BY <2>3, <3>1, Zenon DEF Applied, AppliedNow
    <2>4. QED BY <2>2, <2>3
<1>8. path = route
    BY <1>1 DEF ThisPath
<1>9. /\ done \in Seq(T) /\ more = (IF AppliedNow(Element, p + 1) THEN Append(done, route) ELSE done)
    BY <1>1, AppliedFacts
<1> HIDE DEF T, a, done, more, route
<1>10. mixer' = ValuesAfter(Boot, a \o more)
    <2>1. CASE Applied
        <3>1. more = Append(done, route) /\ mixer' = SetRouteByArray(mixer, route) /\ route \in T
            BY <1>1, <1>7, <1>8, <1>9, <2>1, Zenon
        <3>2. a \o done \in Seq(T)
            BY <1>3, <1>9, ConcatProperties
        <3>3. a \o Append(done, route) = Append(a \o done, route)
            <4>1. a \in Seq(T) /\ done \in Seq(T) /\ route \in T
                BY <1>3, <1>9, <3>1
            <4>2. QED BY <4>1, ConcatAppend
        <3>4. ValuesAfter(Boot, Append(a \o done, route))
                = SetRouteByArray(ValuesAfter(Boot, a \o done), route)
            BY <3>1, <3>2, ValuesStep
        <3>5. QED BY <1>5, <3>1, <3>3, <3>4
    <2>2. CASE ~Applied
        <3>1. mixer' = mixer
            BY <1>1, <2>2, Zenon
        <3>2. more = done
            BY <1>7, <1>9, <2>2, Zenon
        <3>3. QED BY <1>5, <3>1, <3>2
    <2>3. QED BY <2>1, <2>2
<1>11. AppliedList' = a \o more
    <2>1. CASE Element.kind = "device"
        BY <1>1, <2>1 DEF AppliedList, Element, a, more
    <2>2. CASE Element.kind # "device"
        <3>1. Len(Element.paths) = 1 /\ p + 1 = Len(Element.paths)
            <4>1. Len(Element.paths) = 1
                BY <1>3, <2>2
            <4>2. p \in 0 .. Len(Element.paths) /\ p < Len(Element.paths)
                BY EndPathFacts
            <4>3. QED BY <4>1, <4>2
        <3>2. AppliedRoutes(Element) = more
            BY <1>1, <3>1, AppliedFacts DEF more
        <3>3. AppliedList' = AppliedBefore(doc, e + 1) \o <<>>
            BY <1>1, <2>2 DEF AppliedList
        <3>4. AppliedBefore(doc, e + 1) \in Seq(T)
            BY <1>2, <1>3, AppliedBeforeFacts DEF CursorOK, T
        <3>5. QED BY <1>3, <3>2, <3>3, <3>4, ConcatEmptySeq
    <2>3. QED BY <2>1, <2>2
<1>12. QED BY <1>10, <1>11

LEMMA EndPathParserInv == ASSUME ParserInv, EndPath PROVE ParserInv'
BY EndPathTyped, EndPathSections, EndPathMixer DEF ParserInv

LEMMA SelectDefaultParserInv == ASSUME ParserInv, SelectDefault PROVE ParserInv'
<1> DEFINE S == SettingsIn(doc)
           routes == DefaultRoutes(dev_cfgs)
<1>1. /\ pc = "select" /\ pc' = "opened"
      /\ mixer' = FoldLeft(SetRouteByArray, mixer, routes)
      /\ UNCHANGED <<doc, inside, e, p, n, dev, on, path, dev_cfgs, device_has_earpiece, dropped>>
    BY DEF SelectDefault, DefaultRoutes, TouchedBy, TouchedIn, cursor_vars, state_vars, cfg_vars
<1>2. CursorOK /\ StateTyped
    BY DEF ParserInv
<1>3. inside = "file"
    BY <1>1, <1>2 DEF CursorOK
<1>4. routes \in Seq(Seq(S))
    <2>1. Len(dev_cfgs) \in Nat /\ \A k \in 1 .. Len(dev_cfgs) : dev_cfgs[k] \in Section(S)
        BY <1>2, LenProperties, ElementOfSeq DEF StateTyped
    <2>2. \A k \in 1 .. Len(dev_cfgs) : dev_cfgs[k].on \in Seq(S)
        BY <2>1 DEF Section
    <2>3. QED BY <2>1, <2>2, DefaultRoutesFacts
<1>5. mixer = [x \in Controls |-> mixer[x]]
    BY <1>2 DEF StateTyped
<1> HIDE DEF routes, S
<1>6. mixer' = ValuesAfter(mixer, routes)
    BY <1>1, <1>4, <1>5, FoldRoutes DEF ValuesAfter
<1>7. mixer' = [x \in Controls |-> mixer'[x]]
    BY <1>6 DEF ValuesAfter
<1>8. CursorOK'
    BY <1>1, <1>2, <1>3 DEF CursorOK
<1>9. StateTyped'
    BY <1>1, <1>2, <1>7 DEF StateTyped
<1>10. PathOK'
    BY <1>1, <1>3 DEF ParserInv, PathOK
<1>11. DevOK'
    BY <1>1, <1>3 DEF ParserInv, DevOK, InDevice
<1>12. SectionsOK'
    BY <1>1, <1>3 DEF ParserInv, SectionsOK, InDevice, Begun, FromFile
<1>13. MixerOK'
    <2> SUFFICES ASSUME ~dropped, \A i \in 1 .. Begun : WellNamed(doc[i])
                 PROVE  mixer' = ValuesAfter(ValuesAfter(Boot, AppliedList'), routes)
        BY <1>1 DEF MixerOK, Begun, routes
    <2>1. mixer = ValuesAfter(Boot, AppliedList)
        BY <1>1 DEF ParserInv, MixerOK
    <2>2. AppliedList' = AppliedList
        BY <1>1, <1>3 DEF AppliedList
    <2>3. QED BY <1>6, <2>1, <2>2
<1>14. QED BY <1>8, <1>9, <1>10, <1>11, <1>12, <1>13 DEF ParserInv

LEMMA NextParserInv == ParserInv /\ [Next]_vars => ParserInv'
<1> SUFFICES ASSUME ParserInv, [Next]_vars PROVE ParserInv'
    OBVIOUS
<1>1. CASE OpenConfig
    <2>1. CursorOK
        BY DEF ParserInv
    <2>2. pc = "start" /\ pc' # "opened" /\ inside = "file"
        BY <1>1, <2>1 DEF OpenConfig, CursorOK
    <2>3. UNCHANGED <<doc, cursor_vars, state_vars, cfg_vars, mixer, dropped>>
        BY <1>1 DEF OpenConfig
    <2>4. QED BY <2>2, <2>3, PcStepParserInv
<1>2. CASE StartDevice
    BY <1>2, StartDeviceParserInv
<1>3. CASE StartPath
    BY <1>3, StartPathParserInv
<1>4. CASE StartControl
    BY <1>4, StartControlParserInv
<1>5. CASE EndPath
    BY <1>5, EndPathParserInv
<1>6. CASE EndDevice
    BY <1>6, EndDeviceParserInv
<1>7. CASE EndFile
    BY <1>7, PcStepParserInv DEF EndFile
<1>8. CASE ParseFails
    BY <1>8, PcStepParserInv DEF ParseFails
<1>9. CASE SelectDefault
    BY <1>9, SelectDefaultParserInv
<1>10. CASE UNCHANGED vars
    BY <1>10, PcStepParserInv DEF vars
<1>11. QED BY <1>1, <1>2, <1>3, <1>4, <1>5, <1>6, <1>7, <1>8, <1>9, <1>10 DEF Next

LEMMA SpecParserInv == Spec => []ParserInv
BY InitParserInv, NextParserInv, PTL DEF Spec

-----------------------------------------------------------------------------
\* Between elements the sections are those of the elements finished.
LEMMA SectionsFromInv == ParserInv => SectionsMatchFile
<1> SUFFICES ASSUME ParserInv, ~dropped, inside = "file"
             PROVE  /\ Len(dev_cfgs) = Len(Flat(SectionsOf, e))
                    /\ \A k \in 1 .. Len(dev_cfgs) :
                          \/ dev_cfgs[k] = Flat(SectionsOf, e)[k]
                          \/ \E i \in 1 .. e :
                                /\ ~WellNamed(doc[i])
                                /\ k \in Len(Flat(SectionsOf, i - 1)) + 1 .. Len(Flat(SectionsOf, i))
                    /\ device_has_earpiece <=>
                          \E i \in 1 .. e : doc[i].kind = "device" /\ doc[i].name = "earpiece"
    BY DEF SectionsMatchFile
<1>1. \A k : Flat(SectionsOf, k) = SectionsBefore(doc, k)
    BY DEF Flat, SectionsBefore
<1>2. /\ Len(dev_cfgs) = Len(SectionsBefore(doc, e))
      /\ \A k \in 1 .. Len(SectionsBefore(doc, e)) : FromFile(k)
      /\ (device_has_earpiece <=>
              \E i \in 1 .. e : doc[i].kind = "device" /\ doc[i].name = "earpiece")
    BY DEF ParserInv, SectionsOK, Begun
<1>3. QED BY <1>1, <1>2, Zenon DEF FromFile

\* A control's value after two lists of routes, the second of which may set it.
LEMMA ValueIs ==
    ASSUME NEW routes, Len(routes) \in Nat, NEW old, NEW x
    PROVE  \/ /\ \E i \in 1 .. Len(routes) :
                    /\ Value(routes[i], x) # NoVal
                    /\ ValueAfter(old, routes, Len(routes), x) = Value(routes[i], x)
           \/ /\ \A i \in 1 .. Len(routes) : Value(routes[i], x) = NoVal
              /\ ValueAfter(old, routes, Len(routes), x) = old
<1> DEFINE I == {i \in 1 .. Len(routes) : Value(routes[i], x) # NoVal}
<1>1. CASE I = {}
    BY <1>1 DEF ValueAfter
<1>2. CASE I # {}
    <2>1. Max(I) \in I
        BY <1>2, GreatestNat
    <2>2. ValueAfter(old, routes, Len(routes), x) = Value(routes[Max(I)], x)
        BY <1>2 DEF ValueAfter
    <2> HIDE DEF I
    <2>3. PICK m : m = Max(I)
        OBVIOUS
    <2>4. m \in I /\ ValueAfter(old, routes, Len(routes), x) = Value(routes[m], x)
        BY <2>1, <2>2, <2>3
    <2>5. QED BY <2>4 DEF I
<1>3. QED BY <1>1, <1>2

\* The last route that sets x, as MixerAfterOpen finds it.
LEMMA LastIs ==
    ASSUME NEW T, NEW routes \in Seq(T), NEW old, NEW x
    PROVE  LET last == SelectLastInSeq(routes, LAMBDA q : Value(q, x) # NoVal)
           IN  ValueAfter(old, routes, Len(routes), x) =
                  IF last = 0 THEN old ELSE Value(routes[last], x)
<1> DEFINE I == {i \in 1 .. Len(routes) : Value(routes[i], x) # NoVal}
<1>1. Len(routes) \in Nat /\ DOMAIN routes = 1 .. Len(routes)
    BY LenProperties
<1>2. SelectLastInSeq(routes, LAMBDA q : Value(q, x) # NoVal) = IF I # {} THEN Max(I) ELSE 0
    BY <1>1 DEF SelectLastInSeq
<1>3. CASE I = {}
    BY <1>2, <1>3 DEF ValueAfter
<1>4. CASE I # {}
    <2>1. Max(I) \in I
        BY <1>1, <1>4, GreatestNat
    <2>2. Max(I) # 0
        BY <1>1, <2>1
    <2>3. ValueAfter(old, routes, Len(routes), x) = Value(routes[Max(I)], x)
        BY <1>4 DEF ValueAfter
    <2> HIDE DEF I
    <2>4. QED BY <1>2, <1>4, <2>2, <2>3
<1>5. QED BY <1>3, <1>4

\* The sections of a device with a name of the default route, and no others, are touched.
LEMMA SectionKinds ==
    ASSUME NEW S, NEW el, ElementOK(el, S), Known(el)
    PROVE  /\ \A s \in ToSet(SectionsOf(el)) :
                 /\ Wanted(s.mask) <=> el.name \in Default
                 /\ s.on = <<>> \/ s.on = RouteNamed(el, "on")
           /\ \E s \in ToSet(SectionsOf(el)) : s.on = RouteNamed(el, "on")
<1> DEFINE rows == RowsNamed(el.name)
           l == Len(rows)
           F == SectionsOf(el)
           Sec(i) == IF i < l THEN EmptySection(rows[i])
                     ELSE [mask |-> rows[i].mask, on |-> RouteNamed(el, "on"), off |-> RouteNamed(el, "off")]
<1>1. /\ l \in Nat /\ l # 0
      /\ \A k \in 1 .. l : \E i \in 1 .. 10 : rows[k] = DevNames[i] /\ DevNames[i].name = el.name
    BY RowsType DEF Known
<1>2. F = [i \in 1 .. l |-> Sec(i)]
    BY DEF SectionsOf
<1> HIDE DEF l, rows, F
<1>3. /\ \A i \in 1 .. l : F[i] = Sec(i)
      /\ \A s : s \in ToSet(F) <=> \E i \in 1 .. l : s = Sec(i)
    <2> HIDE DEF Sec
    <2>1. Len(F) = l
        BY <1>1, <1>2
    <2>2. \A i \in 1 .. l : F[i] = Sec(i)
        BY <1>2
    <2>3. QED BY <2>1, <2>2 DEF ToSet
<1>4. ASSUME NEW i \in 1 .. l PROVE Wanted(rows[i].mask) <=> el.name \in Default
    <2>1. PICK j \in 1 .. 10 : rows[i] = DevNames[j] /\ DevNames[j].name = el.name
        BY <1>1
    <2>2. /\ DevNames[j].mask \cap {R!SPEAKER} # {} <=> DevNames[j].name = "speaker"
          /\ DevNames[j].mask \cap R!IN_BUILTIN_MIC # {} <=> DevNames[j].name \in {"headphone", "builtin-mic"}
        BY RowIs
    <2>3. QED BY <2>1, <2>2 DEF Wanted, Default
<1>5. ASSUME NEW i \in 1 .. l
      PROVE  /\ Sec(i).mask = rows[i].mask
             /\ Sec(i).on = <<>> \/ Sec(i).on = RouteNamed(el, "on")
             /\ i = l => Sec(i).on = RouteNamed(el, "on")
    <2>1. CASE i < l
        BY <1>1, <2>1 DEF EmptySection
    <2>2. CASE ~(i < l)
        BY <2>2
    <2>3. QED BY <2>1, <2>2
<1>6. l \in 1 .. l
    BY <1>1
<1> HIDE DEF Sec
<1>7. \E s \in ToSet(F) : s.on = RouteNamed(el, "on")
    BY <1>3, <1>5, <1>6
<1>8. \A s \in ToSet(F) : /\ Wanted(s.mask) <=> el.name \in Default
                          /\ s.on = <<>> \/ s.on = RouteNamed(el, "on")
    BY <1>3, <1>4, <1>5
<1>9. QED BY <1>7, <1>8 DEF F

\* The devices of the default route, and the routes that are applied for it.
DefaultElements == {i \in 1 .. e : Known(doc[i]) /\ doc[i].name \in R!DefaultRoute.on}

LEMMA DefaultRoutesAre ==
    ASSUME CursorOK, Len(dev_cfgs) = Len(SectionsBefore(doc, e)),
           \A k \in 1 .. Len(dev_cfgs) : dev_cfgs[k] = SectionsBefore(doc, e)[k]
    PROVE  /\ DefaultRoutes(dev_cfgs) \in Seq(Seq(SettingsIn(doc)))
           /\ \A k \in 1 .. Len(DefaultRoutes(dev_cfgs)) :
                 \/ DefaultRoutes(dev_cfgs)[k] = <<>>
                 \/ \E i \in DefaultElements : DefaultRoutes(dev_cfgs)[k] = RouteNamed(doc[i], "on")
           /\ \A i \in DefaultElements :
                 \E k \in 1 .. Len(DefaultRoutes(dev_cfgs)) :
                    DefaultRoutes(dev_cfgs)[k] = RouteNamed(doc[i], "on")
<1> DEFINE S == SettingsIn(doc)
           a == SectionsBefore(doc, e)
           routes == DefaultRoutes(dev_cfgs)
<1>1. /\ doc \in Documents /\ Len(doc) \in Nat /\ e \in 0 .. Len(doc)
      /\ \A i \in 1 .. e : ElementOK(doc[i], S)
    <2>1. doc \in Documents /\ e \in 0 .. Len(doc)
        BY DEF CursorOK
    <2>2. Len(doc) \in Nat /\ \A i \in 1 .. Len(doc) : ElementOK(doc[i], S)
        BY <2>1, DocFacts
    <2>3. QED BY <2>1, <2>2
<1>2. a \in Seq(Section(S)) /\ ToSet(a) = UNION {ToSet(SectionsOf(doc[i])) : i \in 1 .. e}
    BY <1>1, SectionsBeforeFacts
<1>3. /\ Len(a) \in Nat /\ \A k \in 1 .. Len(a) : a[k] \in Section(S)
      /\ \A s : s \in ToSet(a) <=> \E k \in 1 .. Len(a) : s = a[k]
    BY <1>2, LenProperties, ElementOfSeq DEF ToSet
<1>4. \A k \in 1 .. Len(dev_cfgs) : dev_cfgs[k].on \in Seq(S)
    BY <1>3 DEF Section
<1>5. /\ routes \in Seq(Seq(S))
      /\ \A k \in 1 .. Len(routes) :
            \E j \in 1 .. Len(dev_cfgs) : routes[k] = dev_cfgs[j].on /\ Wanted(dev_cfgs[j].mask)
      /\ \A j \in 1 .. Len(dev_cfgs) : Wanted(dev_cfgs[j].mask) =>
            \E k \in 1 .. Len(routes) : routes[k] = dev_cfgs[j].on
    <2> DEFINE cfgs == dev_cfgs
               T == Seq(S)
    <2>1. Len(cfgs) \in Nat /\ \A k \in 1 .. Len(cfgs) : cfgs[k].on \in T
        BY <1>3, <1>4
    <2> HIDE DEF cfgs, T
    <2>2. DefaultRoutes(cfgs) \in Seq(T)
        BY <2>1, DefaultRoutesFacts
    <2>3. \A k \in 1 .. Len(DefaultRoutes(cfgs)) :
                \E j \in 1 .. Len(cfgs) : DefaultRoutes(cfgs)[k] = cfgs[j].on /\ Wanted(cfgs[j].mask)
        BY <2>1, DefaultRoutesFacts
    <2>4. ASSUME NEW j \in 1 .. Len(cfgs), Wanted(cfgs[j].mask)
          PROVE  \E k \in 1 .. Len(DefaultRoutes(cfgs)) : DefaultRoutes(cfgs)[k] = cfgs[j].on
        BY <2>1, <2>4, DefaultRoutesHave
    <2>5. QED BY <2>2, <2>3, <2>4, Zenon DEF cfgs, T, routes
<1> HIDE DEF routes
<1>6. \A i \in 1 .. e : i \in DefaultElements <=> Known(doc[i]) /\ doc[i].name \in Default
    <2>1. ASSUME NEW i \in 1 .. e, Known(doc[i]) PROVE doc[i].name \in DeviceNames
        BY <1>1, <2>1 DEF Known, DeviceNames
    <2>2. QED BY <2>1, DefaultIs DEF DefaultElements
<1>7. ASSUME NEW i \in 1 .. e, NEW s \in ToSet(SectionsOf(doc[i]))
      PROVE  Known(doc[i])
    <2>1. CASE ~Known(doc[i])
        <3>1. SectionsOf(doc[i]) = <<>>
            BY <2>1 DEF SectionsOf
        <3>2. QED BY <3>1 DEF ToSet
    <2>2. QED BY <2>1
<1>8. ASSUME NEW k \in 1 .. Len(routes), routes[k] # <<>>
      PROVE  \E i \in DefaultElements : routes[k] = RouteNamed(doc[i], "on")
    <2>1. PICK j \in 1 .. Len(dev_cfgs) : routes[k] = dev_cfgs[j].on /\ Wanted(dev_cfgs[j].mask)
        BY <1>5
    <2>2. dev_cfgs[j] \in ToSet(a)
        BY <1>3
    <2>3. PICK i \in 1 .. e : dev_cfgs[j] \in ToSet(SectionsOf(doc[i]))
        BY <1>2, <2>2
    <2>4. Known(doc[i]) /\ ElementOK(doc[i], S)
        BY <1>1, <1>7, <2>3
    <2>5. /\ Wanted(dev_cfgs[j].mask) <=> doc[i].name \in Default
          /\ dev_cfgs[j].on = <<>> \/ dev_cfgs[j].on = RouteNamed(doc[i], "on")
        BY <2>3, <2>4, SectionKinds
    <2>6. QED BY <1>6, <1>8, <2>1, <2>4, <2>5
<1>9. ASSUME NEW i \in DefaultElements
      PROVE  \E k \in 1 .. Len(routes) : routes[k] = RouteNamed(doc[i], "on")
    <2>1. i \in 1 .. e /\ Known(doc[i]) /\ doc[i].name \in Default
        BY <1>6 DEF DefaultElements
    <2>2. PICK s \in ToSet(SectionsOf(doc[i])) : s.on = RouteNamed(doc[i], "on")
        BY <1>1, <2>1, SectionKinds
    <2>3. Wanted(s.mask)
        BY <1>1, <2>1, SectionKinds
    <2>4. PICK j \in 1 .. Len(dev_cfgs) : s = dev_cfgs[j]
        BY <1>2, <1>3, <2>1
    <2>5. QED BY <1>5, <2>2, <2>3, <2>4
<1>10. QED BY <1>5, <1>8, <1>9 DEF routes

\* Once the device is open, the last route to set a control is one of the default
\* route if any of these sets it.
LEMMA MixerFromInv == ParserInv => MixerAfterOpen
<1> DEFINE wanted(x) == {Value(RouteNamed(doc[i], "on"), x) :
                            i \in {j \in 1 .. e : Known(doc[j]) /\ doc[j].name \in R!DefaultRoute.on}}
                        \ {NoVal}
           last(x) == SelectLastInSeq(Flat(AppliedRoutes, e), LAMBDA q : Value(q, x) # NoVal)
           routes == DefaultRoutes(dev_cfgs)
           before == AppliedBefore(doc, e)
<1> SUFFICES ASSUME ParserInv, pc = "opened", ~dropped, \A i \in 1 .. e : WellNamed(doc[i]),
                    NEW x \in Controls
             PROVE  IF wanted(x) # {} THEN mixer[x] \in wanted(x)
                    ELSE mixer[x] = IF last(x) = 0 THEN BootValue
                                    ELSE Value(Flat(AppliedRoutes, e)[last(x)], x)
    BY DEF MixerAfterOpen
<1>1. CursorOK /\ inside = "file"
    BY DEF ParserInv, CursorOK
<1>2. doc \in Documents /\ e \in 0 .. Len(doc)
    BY <1>1 DEF CursorOK
<1>3. before \in Seq(Seq(SettingsIn(doc)))
    BY <1>2, AppliedBeforeFacts
<1>4. Len(dev_cfgs) = Len(SectionsBefore(doc, e)) /\ \A k \in 1 .. Len(dev_cfgs) : FromFile(k)
    BY <1>1 DEF ParserInv, SectionsOK, Begun
<1>5. \A k \in 1 .. Len(dev_cfgs) : dev_cfgs[k] = SectionsBefore(doc, e)[k]
    BY <1>4 DEF FromFile
<1>6. /\ routes \in Seq(Seq(SettingsIn(doc)))
      /\ \A k \in 1 .. Len(routes) :
            routes[k] = <<>> \/ \E i \in DefaultElements : routes[k] = RouteNamed(doc[i], "on")
      /\ \A i \in DefaultElements : \E k \in 1 .. Len(routes) : routes[k] = RouteNamed(doc[i], "on")
    BY <1>1, <1>4, <1>5, DefaultRoutesAre
<1>7. mixer = ValuesAfter(ValuesAfter(Boot, before), routes)
    <2>1. AppliedList = before \o <<>>
        BY <1>1 DEF AppliedList
    <2>2. AppliedList = before
        BY <1>3, <2>1, ConcatEmptySeq
    <2>3. QED BY <1>1, <2>2 DEF ParserInv, MixerOK, Begun
<1> DEFINE old == ValueAfter(BootValue, before, Len(before), x)
<1> HIDE DEF routes, before
<1>8. mixer[x] = ValueAfter(old, routes, Len(routes), x)
    BY <1>7 DEF ValuesAfter, Boot
<1>9. Flat(AppliedRoutes, e) = before
    BY DEF Flat, AppliedBefore, before
<1>10. Value(<<>>, x) = NoVal
    BY DEF Value, Settings, Reached
<1>11. \A v : v \in wanted(x) <=> /\ v # NoVal
                                  /\ \E i \in DefaultElements : v = Value(RouteNamed(doc[i], "on"), x)
    BY DEF DefaultElements
<1> HIDE DEF wanted, old
<1>12. Len(routes) \in Nat
    BY <1>6, LenProperties
<1>13. CASE \E k \in 1 .. Len(routes) :
               Value(routes[k], x) # NoVal /\ ValueAfter(old, routes, Len(routes), x) = Value(routes[k], x)
    <2>1. PICK k \in 1 .. Len(routes) : Value(routes[k], x) # NoVal /\ mixer[x] = Value(routes[k], x)
        BY <1>8, <1>13
    <2>2. PICK i \in DefaultElements : routes[k] = RouteNamed(doc[i], "on")
        BY <1>6, <1>10, <2>1
    <2>3. mixer[x] \in wanted(x)
        BY <1>11, <2>1, <2>2
    <2>4. QED BY <2>3
<1>14. CASE /\ \A k \in 1 .. Len(routes) : Value(routes[k], x) = NoVal
            /\ ValueAfter(old, routes, Len(routes), x) = old
    <2>1. wanted(x) = {}
        BY <1>6, <1>11, <1>14
    <2>2. old = IF last(x) = 0 THEN BootValue ELSE Value(Flat(AppliedRoutes, e)[last(x)], x)
        BY <1>3, <1>9, LastIs DEF old
    <2>3. QED BY <1>8, <1>14, <2>1, <2>2
<1>15. QED BY <1>12, <1>13, <1>14, ValueIs

-----------------------------------------------------------------------------
(* The parser in the life of the device.                                   *)

\* DeviceSpec leaves the parser alone but for its own steps.
LEMMA DeviceReads == DeviceSpec => Spec
<1>1. DeviceInit => Init
    BY DEF DeviceInit
<1>2. [DeviceNext]_<<vars, ril, modem_vars>> => [Next]_vars
    BY DEF DeviceNext, ReadRoutes, RilOpen, Call, AdevClose
<1>3. QED BY <1>1, <1>2, PTL DEF DeviceSpec, Spec

\* The cursor stays in the file and the parser's state well typed, for any file.
THEOREM ParserTypeCorrect == DeviceSpec => [](CursorOK /\ StateTyped)
<1>1. ParserInv => CursorOK /\ StateTyped
    BY DEF ParserInv
<1>2. QED BY <1>1, DeviceReads, SpecParserInv, PTL

\* Nothing leaks from one element of the file into the sections of another.
THEOREM SectionsDoMatch == DeviceSpec => []SectionsMatchFile
BY SectionsFromInv, DeviceReads, SpecParserInv, PTL

\* An opened device has the values of the default route, then of the file.
THEOREM MixerIsRight == DeviceSpec => []MixerAfterOpen
BY MixerFromInv, DeviceReads, SpecParserInv, PTL

-----------------------------------------------------------------------------
USE DEF M!hal_vars, M!link_vars

-----------------------------------------------------------------------------
(* A link: the connection, what is under way on it and what the modem has. *)

LinkType == [connected : BOOLEAN, messages : Seq(BOOLEAN), modem : M!Told,
             dropped : SUBSET (M!Kinds \cup {"rate"})]

\* The bandwidth is known through the messages of l, or by the HAL's wb, unless
\* it was asked for in vain.
Informed(l, wb) ==
    l.connected /\ HasGetWbAmr /\ "rate" \notin l.dropped =>
        amr = IF l.messages = <<>> THEN wb ELSE l.messages[Len(l.messages)]

\* What a request leaves alone, and what it gets through or drops.
After(l, k, kind, value) ==
    /\ k \in LinkType
    /\ \A o \in M!Kinds \ {kind} : /\ k.modem[o] = l.modem[o]
                                   /\ o \in k.dropped <=> o \in l.dropped
    /\ kind \in k.dropped \/ k.modem[kind] = value
    /\ \A wb \in BOOLEAN : Informed(l, wb) => Informed(k, wb)

\* Connecting makes no request of any kind.
SameRequests(l, k) ==
    k.modem = l.modem /\ \A o \in M!Kinds : o \in k.dropped <=> o \in l.dropped

\* A new connection asks for the bandwidth, and the answer is the last message.
LEMMA ConnectInforms ==
    ASSUME NEW l \in LinkType, amr \in BOOLEAN, HasGetWbAmr \in BOOLEAN,
           NEW c \in M!ConnectIfRequired(l)
    PROVE  /\ c \in LinkType /\ SameRequests(l, c)
           /\ \A wb \in BOOLEAN : Informed(l, wb) => Informed(c, wb)
           /\ c = l \/ c.connected
<1>1. CASE c = l
    BY <1>1 DEF SameRequests
<1> DEFINE linked == [l EXCEPT !.connected = TRUE]
<1>2. CASE ~l.connected /\ c \in M!Queried(linked)
    <2>1. /\ linked \in LinkType /\ linked.connected = TRUE /\ linked.messages = l.messages
          /\ linked.modem = l.modem /\ linked.dropped = l.dropped
        BY DEF LinkType
    <2> HIDE DEF linked
    <2>2. "rate" \notin M!Kinds
        BY DEF M!Kinds
    <2>3. /\ Append(linked.messages, amr) \in Seq(BOOLEAN) /\ Append(linked.messages, amr) # <<>>
          /\ Append(linked.messages, amr)[Len(Append(linked.messages, amr))] = amr
        BY <2>1, AppendProperties DEF LinkType
    <2>4. CASE c = linked /\ ~HasGetWbAmr
        BY <2>1, <2>4 DEF SameRequests, Informed
    <2>5. CASE c = M!Answered(linked)
        <3>1. /\ c.connected = TRUE /\ c.messages = Append(linked.messages, amr)
              /\ c.modem = l.modem /\ c.dropped = l.dropped \ {"rate"}
            BY <2>1, <2>5 DEF M!Answered, LinkType
        <3>2. c \in LinkType
            BY <2>1, <2>3, <2>5 DEF M!Answered, LinkType
        <3>3. SameRequests(l, c)
            BY <2>2, <3>1 DEF SameRequests
        <3>4. \A wb \in BOOLEAN : Informed(c, wb)
            BY <2>3, <3>1 DEF Informed
        <3>5. QED BY <3>1, <3>2, <3>3, <3>4
    <2>6. CASE c = M!Unanswered(linked)
        <3>1. /\ c.connected = TRUE /\ c.messages = l.messages
              /\ c.modem = l.modem /\ c.dropped = l.dropped \cup {"rate"}
            BY <2>1, <2>6 DEF M!Unanswered, LinkType
        <3>2. c \in LinkType
            BY <2>1, <2>6 DEF M!Unanswered, LinkType
        <3>3. SameRequests(l, c)
            BY <2>2, <3>1 DEF SameRequests
        <3>4. \A wb \in BOOLEAN : Informed(c, wb)
            BY <3>1 DEF Informed
        <3>5. QED BY <3>1, <3>2, <3>3, <3>4
    <2>7. QED BY <1>2, <2>4, <2>5, <2>6 DEF M!Queried
<1>3. QED BY <1>1, <1>2 DEF M!ConnectIfRequired

\* The modem's side of a request: one setting changes.
LEMMA ToldOne ==
    ASSUME NEW m \in M!Told
    PROVE  /\ \A ap \in Paths \cup {"UNSET"} :
                [m EXCEPT !["path"] = ap] \in M!Told /\ [m EXCEPT !["path"] = ap].path = ap
           /\ \A c \in {"STOP", "START"} :
                [m EXCEPT !["clock"] = c] \in M!Told /\ [m EXCEPT !["clock"] = c].clock = c
           /\ \A v \in 0 .. VolumeSteps :
                [m EXCEPT !["volume"] = v] \in M!Told /\ [m EXCEPT !["volume"] = v].volume = v
           /\ \A b \in BOOLEAN :
                [m EXCEPT !["mute"] = b] \in M!Told /\ [m EXCEPT !["mute"] = b].mute = b
BY DEF M!Told

LEMMA SentKeeps ==
    ASSUME NEW l \in LinkType, amr \in BOOLEAN, HasGetWbAmr \in BOOLEAN,
           NEW kind \in M!Kinds, NEW value,
           \A m \in M!Told : [m EXCEPT ![kind] = value] \in M!Told,
           NEW k \in M!Sent(l, kind, value)
    PROVE  After(l, k, kind, value)
<1>1. PICK c \in M!ConnectIfRequired(l) :
        \/ k = [c EXCEPT !.dropped = @ \cup {kind}]
        \/ k = [c EXCEPT !.dropped = @ \ {kind}, !.modem[kind] = value]
    BY DEF M!Sent
<1>2. /\ c \in LinkType /\ SameRequests(l, c)
      /\ \A wb \in BOOLEAN : Informed(l, wb) => Informed(c, wb)
    BY ConnectInforms
<1>r. kind # "rate"
    BY DEF M!Kinds
<1>3. CASE k = [c EXCEPT !.dropped = @ \cup {kind}]
    <2>1. /\ k \in LinkType /\ k.modem = c.modem /\ k.dropped = c.dropped \cup {kind}
          /\ k.connected = c.connected /\ k.messages = c.messages
        BY <1>2, <1>3 DEF LinkType
    <2>2. \A wb \in BOOLEAN : Informed(c, wb) => Informed(k, wb)
        BY <1>r, <2>1 DEF Informed
    <2>3. QED BY <1>2, <2>1, <2>2 DEF After, SameRequests
<1>4. CASE k = [c EXCEPT !.dropped = @ \ {kind}, !.modem[kind] = value]
    <2>1. /\ k.modem = [c.modem EXCEPT ![kind] = value] /\ k.dropped = c.dropped \ {kind}
          /\ k.connected = c.connected /\ k.messages = c.messages
          /\ k \in LinkType
        BY <1>2, <1>4 DEF LinkType
    <2>2. \A o \in M!Kinds \ {kind} : k.modem[o] = c.modem[o]
        BY <2>1
    <2>3. k.modem[kind] = value
        BY <1>2, <2>1 DEF LinkType, M!Told, M!Kinds
    <2>4. \A wb \in BOOLEAN : Informed(c, wb) => Informed(k, wb)
        BY <1>r, <2>1 DEF Informed
    <2>5. QED BY <1>2, <2>1, <2>2, <2>3, <2>4 DEF After, SameRequests
<1>5. QED BY <1>1, <1>3, <1>4

-----------------------------------------------------------------------------
(* The invariant of the client, in terms of the link.                      *)

\* What l must have of the requests named in K.
Follows(l, K, ap, vol, told, mute) ==
    /\ "path" \in K /\ "path" \notin l.dropped => l.modem.path = ap
    /\ "clock" \in K /\ "clock" \notin l.dropped => l.modem.clock = "START"
    /\ "volume" \in K /\ "volume" \notin l.dropped => l.modem.volume = M!Level(vol)
    /\ "mute" \in K /\ told /\ "mute" \notin l.dropped => l.modem.mute = mute

MInv == M!TypeOK /\ M!ModemFollows /\ M!RateKnown

LEMMA LevelType == ASSUME NEW v \in Volumes PROVE M!Level(v) \in 0 .. VolumeSteps
<1>1. v \in 0 .. 100 /\ VolumeSteps \in Nat
    BY ClientAssumption
<1>2. v * VolumeSteps \in 0 .. 100 * VolumeSteps
    BY <1>1
<1>3. QED BY <1>1, <1>2 DEF M!Level

LEMMA LinkIs ==
    ASSUME MInv
    PROVE  /\ M!Link \in LinkType /\ Informed(M!Link, wb_amr)
           /\ amr \in BOOLEAN /\ wb_amr \in BOOLEAN /\ HasGetWbAmr \in BOOLEAN
           /\ in_call => Follows(M!Link, M!Kinds, audio_path, voice_volume, mute_told, mic_mute)
<1>1. M!Link \in LinkType
    BY DEF MInv, M!TypeOK, M!Link, LinkType
<1>2. Informed(M!Link, wb_amr)
    BY DEF MInv, M!RateKnown, M!Link, Informed
<1>3. in_call => Follows(M!Link, M!Kinds, audio_path, voice_volume, mute_told, mic_mute)
    BY DEF MInv, M!ModemFollows, M!Link, Follows
<1>4. QED BY <1>1, <1>2, <1>3, ClientAssumption DEF MInv, M!TypeOK

HalTyped ==
    /\ in_call \in BOOLEAN /\ wb_amr \in BOOLEAN /\ mic_mute \in BOOLEAN
    /\ voice_volume \in Volumes /\ audio_path \in Paths \cup {"UNSET"}
    /\ mute_told \in BOOLEAN /\ amr \in BOOLEAN

LEMMA InvIsTyped == MInv => HalTyped
BY DEF MInv, M!TypeOK, HalTyped

\* Each handler ends with a link; what it has to be like.
LEMMA LinkGivesInv ==
    ASSUME NEW l \in LinkType, M!IsLink(l), HalTyped', amr' = amr, Informed(l, wb_amr'),
           in_call' => Follows(l, M!Kinds, audio_path', voice_volume', mute_told', mic_mute')
    PROVE  MInv'
<1>1. /\ connected' = l.connected /\ messages' = l.messages
      /\ modem' = l.modem /\ dropped_requests' = l.dropped
    BY DEF M!IsLink
<1>2. M!TypeOK'
    BY <1>1 DEF HalTyped, M!TypeOK, LinkType
<1>3. M!ModemFollows'
    BY <1>1 DEF M!ModemFollows, Follows, M!Kinds
<1>4. M!RateKnown'
    BY <1>1 DEF M!RateKnown, Informed
<1>5. QED BY <1>2, <1>3, <1>4 DEF MInv

\* Values a request may carry.
LEMMA Sendable ==
    /\ \A ap \in Paths, m \in M!Told : [m EXCEPT !["path"] = ap] \in M!Told
    /\ \A m \in M!Told : [m EXCEPT !["clock"] = "START"] \in M!Told
    /\ \A v \in Volumes, m \in M!Told : [m EXCEPT !["volume"] = M!Level(v)] \in M!Told
    /\ \A b \in BOOLEAN, m \in M!Told : [m EXCEPT !["mute"] = b] \in M!Told
BY ToldOne, LevelType

LEMMA KindsAre == M!Kinds = {"path", "clock", "volume", "mute"}
BY DEF M!Kinds

\* Entering a call makes three requests, and each leaves the others' alone.
LEMMA EnterCallKeeps ==
    ASSUME MInv, NEW ap \in Paths, M!EnterCall(ap) PROVE MInv'
<1>1. /\ M!Link \in LinkType /\ Informed(M!Link, wb_amr)
      /\ amr \in BOOLEAN /\ wb_amr \in BOOLEAN /\ HasGetWbAmr \in BOOLEAN
    BY LinkIs
<1>2. /\ in_call' = TRUE /\ audio_path' = ap /\ mute_told' = FALSE
      /\ UNCHANGED <<wb_amr, voice_volume, mic_mute, amr>>
      /\ \E l \in M!CallRequests(ap) : M!IsLink(l)
    BY DEF M!EnterCall
<1>3. PICK l \in M!CallRequests(ap) : M!IsLink(l)
    BY <1>2
<1>4a. PICK k \in M!Sent(M!Link, "path", ap) :
          \E c \in M!Sent(k, "clock", "START") :
              l \in M!Sent(c, "volume", M!Level(voice_volume))
    BY <1>3 DEF M!CallRequests
<1>4. PICK c \in M!Sent(k, "clock", "START") :
          l \in M!Sent(c, "volume", M!Level(voice_volume))
    BY <1>4a
<1>5. HalTyped /\ voice_volume \in Volumes
    BY InvIsTyped DEF HalTyped
<1>6. After(M!Link, k, "path", ap)
    BY <1>1, SentKeeps, Sendable, KindsAre
<1>7. After(k, c, "clock", "START")
    <2>1. k \in LinkType /\ "clock" \in M!Kinds
        BY <1>6, KindsAre DEF After
    <2>2. QED BY <1>1, <1>4, <2>1, SentKeeps, Sendable
<1>8. After(c, l, "volume", M!Level(voice_volume))
    <2>1. c \in LinkType /\ "volume" \in M!Kinds
        BY <1>7, KindsAre DEF After
    <2>2. \A m \in M!Told : [m EXCEPT !["volume"] = M!Level(voice_volume)] \in M!Told
        BY <1>5, Sendable
    <2>3. QED BY <1>1, <1>4, <2>1, <2>2, SentKeeps
<1>9. l \in LinkType /\ Informed(l, wb_amr)
    BY <1>1, <1>6, <1>7, <1>8 DEF After
<1>10. Follows(l, M!Kinds, ap, voice_volume, FALSE, mic_mute)
    <2>1. "path" \notin l.dropped => l.modem.path = ap
        BY <1>6, <1>7, <1>8, KindsAre DEF After
    <2>2. "clock" \notin l.dropped => l.modem.clock = "START"
        BY <1>7, <1>8, KindsAre DEF After
    <2>3. "volume" \notin l.dropped => l.modem.volume = M!Level(voice_volume)
        BY <1>8 DEF After
    <2>4. QED BY <2>1, <2>2, <2>3 DEF Follows
<1>11. HalTyped'
    BY <1>2, <1>5 DEF HalTyped
<1>12. QED BY <1>2, <1>3, <1>9, <1>10, <1>11, LinkGivesInv

\* One request in a call, after which its own setting is up to date.
LEMMA RequestKeeps ==
    ASSUME MInv, NEW kind \in M!Kinds, NEW value,
           \A m \in M!Told : [m EXCEPT ![kind] = value] \in M!Told,
           NEW l \in M!Sent(M!Link, kind, value)
    PROVE  /\ l \in LinkType /\ Informed(l, wb_amr)
           /\ kind \in l.dropped \/ l.modem[kind] = value
           /\ in_call => Follows(l, M!Kinds \ {kind}, audio_path, voice_volume,
                                 mute_told, mic_mute)
<1>1. After(M!Link, l, kind, value)
    BY LinkIs, SentKeeps
<1>2. in_call => Follows(M!Link, M!Kinds, audio_path, voice_volume, mute_told, mic_mute)
    BY LinkIs
<1>3. in_call => Follows(l, M!Kinds \ {kind}, audio_path, voice_volume, mute_told, mic_mute)
    BY <1>1, <1>2, KindsAre DEF After, Follows
<1>4. QED BY <1>1, <1>3, LinkIs DEF After

LEMMA SelectPathKeeps ==
    ASSUME MInv, NEW ap \in Paths, M!SelectPath(ap) PROVE MInv'
<1>1. /\ in_call /\ audio_path' = ap
      /\ UNCHANGED <<in_call, wb_amr, voice_volume, mic_mute, mute_told, amr>>
    BY DEF M!SelectPath
<1>2. PICK l \in M!Sent(M!Link, "path", ap) : M!IsLink(l)
    BY DEF M!SelectPath, M!Request
<1>3. "path" \in M!Kinds /\ \A m \in M!Told : [m EXCEPT !["path"] = ap] \in M!Told
    BY Sendable, KindsAre
<1>4. /\ l \in LinkType /\ Informed(l, wb_amr)
      /\ "path" \in l.dropped \/ l.modem["path"] = ap
      /\ Follows(l, M!Kinds \ {"path"}, audio_path, voice_volume, mute_told, mic_mute)
    BY <1>1, <1>3, RequestKeeps
<1>5. Follows(l, M!Kinds, ap, voice_volume, mute_told, mic_mute)
    BY <1>4, KindsAre DEF Follows
<1>6. HalTyped'
    BY <1>1, InvIsTyped DEF HalTyped
<1>7. QED BY <1>1, <1>2, <1>4, <1>5, <1>6, LinkGivesInv

LEMMA SetVoiceVolumeKeeps ==
    ASSUME MInv, NEW v \in Volumes, M!SetVoiceVolume(v) PROVE MInv'
<1>1. /\ voice_volume' = v
      /\ UNCHANGED <<in_call, wb_amr, mic_mute, audio_path, mute_told, amr>>
    BY DEF M!SetVoiceVolume
<1>2. HalTyped'
    BY <1>1, InvIsTyped DEF HalTyped
<1>3. CASE in_call
    <2>1. PICK l \in M!Sent(M!Link, "volume", M!Level(v)) : M!IsLink(l)
        BY <1>3 DEF M!SetVoiceVolume, M!Request
    <2>2. "volume" \in M!Kinds /\ \A m \in M!Told : [m EXCEPT !["volume"] = M!Level(v)] \in M!Told
        BY Sendable, KindsAre
    <2>3. /\ l \in LinkType /\ Informed(l, wb_amr)
          /\ "volume" \in l.dropped \/ l.modem["volume"] = M!Level(v)
          /\ Follows(l, M!Kinds \ {"volume"}, audio_path, voice_volume, mute_told, mic_mute)
        BY <1>3, <2>1, <2>2, RequestKeeps
    <2>4. Follows(l, M!Kinds, audio_path, v, mute_told, mic_mute)
        BY <2>3, KindsAre DEF Follows
    <2>5. QED BY <1>1, <1>2, <2>1, <2>3, <2>4, LinkGivesInv
<1>4. CASE ~in_call
    <2>1. UNCHANGED <<connected, messages, modem, dropped_requests>>
        BY <1>4 DEF M!SetVoiceVolume
    <2>2. QED BY <1>1, <1>2, <1>4, <2>1 DEF MInv, M!TypeOK, HalTyped, M!ModemFollows, M!RateKnown
<1>5. QED BY <1>3, <1>4

LEMMA SetMicMuteKeeps ==
    ASSUME MInv, NEW state \in BOOLEAN, M!SetMicMute(state) PROVE MInv'
<1>1. /\ mic_mute' = state /\ mute_told' = in_call
      /\ UNCHANGED <<in_call, wb_amr, voice_volume, audio_path, amr>>
    BY DEF M!SetMicMute
<1>2. HalTyped'
    BY <1>1, InvIsTyped DEF HalTyped
<1>3. CASE in_call
    <2>1. PICK l \in M!Sent(M!Link, "mute", state) : M!IsLink(l)
        BY <1>3 DEF M!SetMicMute, M!Request
    <2>2. "mute" \in M!Kinds /\ \A m \in M!Told : [m EXCEPT !["mute"] = state] \in M!Told
        BY Sendable, KindsAre
    <2>3. /\ l \in LinkType /\ Informed(l, wb_amr)
          /\ "mute" \in l.dropped \/ l.modem["mute"] = state
          /\ Follows(l, M!Kinds \ {"mute"}, audio_path, voice_volume, mute_told, mic_mute)
        BY <1>3, <2>1, <2>2, RequestKeeps
    <2>4. Follows(l, M!Kinds, audio_path, voice_volume, mute_told', state)
        BY <2>3, KindsAre DEF Follows
    <2>5. QED BY <1>1, <1>2, <2>1, <2>3, <2>4, LinkGivesInv
<1>4. CASE ~in_call
    <2>1. UNCHANGED <<connected, messages, modem, dropped_requests>>
        BY <1>4 DEF M!SetMicMute
    <2>2. QED BY <1>1, <1>2, <1>4, <2>1 DEF MInv, M!TypeOK, HalTyped, M!ModemFollows, M!RateKnown
<1>5. QED BY <1>3, <1>4

\* A message that changes the bandwidth makes a request, on a connection that
\* may have to be made first.
LEMMA ReceiveKeeps == ASSUME MInv, M!Receive PROVE MInv'
<1>1. /\ messages # <<>> /\ wb_amr' = Head(messages)
      /\ UNCHANGED <<in_call, voice_volume, mic_mute, audio_path, mute_told, amr>>
    BY DEF M!Receive
<1> DEFINE rest == [M!Link EXCEPT !.messages = Tail(@)]
<1>2. /\ messages \in Seq(BOOLEAN) /\ Tail(messages) \in Seq(BOOLEAN)
      /\ Head(messages) \in BOOLEAN
    BY <1>1, HeadTailProperties DEF MInv, M!TypeOK
<1>3. HalTyped'
    BY <1>1, <1>2, InvIsTyped DEF HalTyped
<1>4. /\ rest \in LinkType /\ rest.messages = Tail(messages) /\ rest.modem = modem
      /\ rest.dropped = dropped_requests /\ rest.connected = connected
    BY <1>2, LinkIs DEF LinkType, M!Link
<1>5. Tail(messages) = <<>> => messages[Len(messages)] = Head(messages)
    <2>1. Len(messages) \in Nat /\ Len(Tail(messages)) = Len(messages) - 1
        BY <1>1, <1>2, HeadTailProperties, LenProperties
    <2>2. Tail(messages) = <<>> => Len(Tail(messages)) = 0
        BY <1>2, EmptySeq
    <2>3. Tail(messages) = <<>> => Len(messages) = 1
        BY <2>1, <2>2
    <2>4. Head(messages) = messages[1]
        BY <1>1, <1>2
    <2>5. QED BY <2>3, <2>4
<1>6. Tail(messages) # <<>> => Tail(messages)[Len(Tail(messages))] = messages[Len(messages)]
    <2>1. /\ Len(Tail(messages)) = Len(messages) - 1
          /\ \A i \in 1 .. Len(Tail(messages)) : Tail(messages)[i] = messages[i + 1]
        BY <1>1, <1>2, HeadTailProperties
    <2>2. Tail(messages) # <<>> => Len(Tail(messages)) \in Nat \ {0}
        BY <1>2, EmptySeq
    <2>3. Len(messages) \in Nat
        BY <1>2, LenProperties
    <2>4. QED BY <2>1, <2>2, <2>3
<1>7. Informed(rest, wb_amr')
    BY <1>1, <1>4, <1>5, <1>6 DEF MInv, M!RateKnown, Informed
<1>8. CASE in_call /\ wb_amr' # wb_amr
    <2>1. PICK l \in M!Sent(rest, "path", audio_path) : M!IsLink(l)
        BY <1>8 DEF M!Receive
    <2>2. After(rest, l, "path", audio_path)
        <3>1. audio_path \in Paths \cup {"UNSET"} /\ "path" \in M!Kinds
            BY KindsAre, InvIsTyped DEF HalTyped
        <3>2. \A m \in M!Told : [m EXCEPT !["path"] = audio_path] \in M!Told
            BY <3>1, ToldOne
        <3>3. QED BY <1>4, <2>1, <3>1, <3>2, LinkIs, SentKeeps
    <2>3. l \in LinkType /\ Informed(l, wb_amr')
        BY <1>2, <1>1, <1>7, <2>2 DEF After
    <2>4. Follows(rest, M!Kinds, audio_path, voice_volume, mute_told, mic_mute)
        BY <1>4, <1>8 DEF MInv, M!ModemFollows, Follows
    <2>5. Follows(l, M!Kinds, audio_path, voice_volume, mute_told, mic_mute)
        BY <2>2, <2>4, KindsAre DEF After, Follows
    <2>6. QED BY <1>1, <1>3, <2>1, <2>3, <2>5, LinkGivesInv
<1>9. CASE ~(in_call /\ wb_amr' # wb_amr)
    <2>1. messages' = Tail(messages) /\ UNCHANGED <<connected, modem, dropped_requests>>
        BY <1>9 DEF M!Receive
    <2>2. M!TypeOK'
        BY <1>2, <1>3, <2>1 DEF MInv, M!TypeOK, HalTyped
    <2>3. M!RateKnown'
        BY <1>1, <1>4, <1>7, <2>1 DEF M!RateKnown, Informed
    <2>4. M!ModemFollows'
        BY <1>1, <2>1 DEF MInv, M!ModemFollows
    <2>5. QED BY <2>2, <2>3, <2>4 DEF MInv
<1>10. QED BY <1>8, <1>9

LEMMA OthersKeep ==
    ASSUME MInv,
           M!LeaveCall \/ M!SetNoiseSuppression \/ M!AmrChanges \/ M!Disconnect
    PROVE  MInv'
<1>1. CASE M!LeaveCall
    BY <1>1 DEF M!LeaveCall, MInv, M!TypeOK, M!ModemFollows, M!RateKnown
<1>2. CASE M!SetNoiseSuppression
    <2>1. PICK l \in M!ConnectIfRequired(M!Link) : M!IsLink(l)
        BY <1>2 DEF M!SetNoiseSuppression
    <2>2. UNCHANGED <<in_call, wb_amr, voice_volume, mic_mute, audio_path, mute_told, amr>>
        BY <1>2 DEF M!SetNoiseSuppression
    <2>3. l \in LinkType /\ SameRequests(M!Link, l) /\ Informed(l, wb_amr)
        BY <2>1, LinkIs, ConnectInforms
    <2>4. in_call => Follows(l, M!Kinds, audio_path, voice_volume, mute_told, mic_mute)
        BY <2>3, LinkIs, KindsAre DEF Follows, SameRequests
    <2>5. HalTyped'
        BY <2>2, InvIsTyped DEF HalTyped
    <2>6. QED BY <2>1, <2>2, <2>3, <2>4, <2>5, LinkGivesInv
<1>3. CASE M!AmrChanges
    <2>1. /\ amr' = ~amr /\ messages' = IF connected THEN Append(messages, amr') ELSE messages
          /\ dropped_requests' = IF connected THEN dropped_requests \ {"rate"} ELSE dropped_requests
          /\ UNCHANGED <<in_call, wb_amr, voice_volume, mic_mute, audio_path, mute_told,
                         connected, modem>>
        BY <1>3 DEF M!AmrChanges
    <2>2. amr' \in BOOLEAN /\ messages \in Seq(BOOLEAN)
        BY <2>1 DEF MInv, M!TypeOK
    <2>3. /\ Append(messages, amr') \in Seq(BOOLEAN) /\ Append(messages, amr') # <<>>
          /\ Append(messages, amr')[Len(Append(messages, amr'))] = amr'
        BY <2>2, AppendProperties
    <2>4. M!TypeOK'
        BY <2>1, <2>2, <2>3 DEF MInv, M!TypeOK
    <2>5. M!ModemFollows' /\ M!RateKnown'
        <3>1. M!ModemFollows'
            BY <2>1 DEF MInv, M!ModemFollows
        <3>2. M!RateKnown'
            BY <2>1, <2>3 DEF MInv, M!RateKnown
        <3>3. QED BY <3>1, <3>2
    <2>6. QED BY <2>4, <2>5 DEF MInv
<1>4. CASE M!Disconnect
    <2>1. <<>> \in Seq(BOOLEAN)
        OBVIOUS
    <2>2. QED BY <1>4, <2>1 DEF M!Disconnect, MInv, M!TypeOK, M!ModemFollows, M!RateKnown
<1>5. QED BY <1>1, <1>2, <1>3, <1>4

-----------------------------------------------------------------------------
(* The device.                                                             *)

LEMMA DeviceInitMInv == DeviceInit => MInv
<1> SUFFICES ASSUME DeviceInit PROVE MInv
    OBVIOUS
<1>1. <<>> \in Seq(BOOLEAN)
    OBVIOUS
<1>2. modem \in M!Told
    BY ClientAssumption DEF DeviceInit, M!Init, M!NothingTold, M!Told
<1>3. M!TypeOK
    BY <1>1, <1>2, ClientAssumption DEF DeviceInit, M!Init, M!TypeOK
<1>4. QED BY <1>3 DEF MInv, DeviceInit, M!Init, M!ModemFollows, M!RateKnown

LEMMA DeviceNextMInv == MInv /\ [DeviceNext]_<<vars, ril, modem_vars>> => MInv'
<1> SUFFICES ASSUME MInv, [DeviceNext]_<<vars, ril, modem_vars>> PROVE MInv'
    OBVIOUS
<1>1. CASE UNCHANGED modem_vars
    BY <1>1 DEF modem_vars, MInv, M!TypeOK, M!ModemFollows, M!RateKnown
<1>2. CASE Call
    BY <1>2, EnterCallKeeps, SelectPathKeeps, SetVoiceVolumeKeeps, SetMicMuteKeeps,
       ReceiveKeeps, OthersKeep DEF Call, M!Next
<1>3. CASE AdevClose
    <2>1. messages \in Seq(BOOLEAN) /\ <<>> \in Seq(BOOLEAN) /\ connected \in BOOLEAN
        BY DEF MInv, M!TypeOK
    <2>2. connected' \in BOOLEAN
        BY <1>3, <2>1 DEF AdevClose
    <2>3. messages' = messages \/ messages' = <<>>
        BY <1>3 DEF AdevClose
    <2>4. messages' \in Seq(BOOLEAN)
        BY <2>1, <2>3
    <2>5. connected' => connected /\ messages' = messages
        BY <1>3, <2>1 DEF AdevClose
    <2>6. QED BY <1>3, <2>2, <2>4, <2>5 DEF AdevClose, MInv, M!TypeOK, M!ModemFollows, M!RateKnown
<1>4. QED BY <1>1, <1>2, <1>3 DEF DeviceNext, ReadRoutes, RilOpen

LEMMA SpecMInv == DeviceSpec => []MInv
BY DeviceInitMInv, DeviceNextMInv, PTL DEF DeviceSpec

-----------------------------------------------------------------------------
(* The client in the life of the device is ModemClient.                    *)

\* Nothing is under way on a broken connection.
QuietLink(l) == l \in LinkType /\ (~l.connected => l.messages = <<>>)
Quiet == ~connected => messages = <<>>

LEMMA SentQuiet ==
    ASSUME NEW l, QuietLink(l), amr \in BOOLEAN, HasGetWbAmr \in BOOLEAN,
           NEW kind \in M!Kinds, NEW value,
           \A m \in M!Told : [m EXCEPT ![kind] = value] \in M!Told,
           NEW k \in M!Sent(l, kind, value)
    PROVE  QuietLink(k)
<1>1. k \in LinkType
    BY SentKeeps DEF After, QuietLink
<1>2. PICK c \in M!ConnectIfRequired(l) :
        \/ k = [c EXCEPT !.dropped = @ \cup {kind}]
        \/ k = [c EXCEPT !.dropped = @ \ {kind}, !.modem[kind] = value]
    BY DEF M!Sent
<1>3. c \in LinkType
    BY ConnectInforms DEF QuietLink
<1>4. k.connected = c.connected /\ k.messages = c.messages
    BY <1>2, <1>3 DEF LinkType
<1>5. ~c.connected => c.messages = <<>>
    BY <1>2, ConnectInforms DEF QuietLink
<1>6. QED BY <1>1, <1>4, <1>5 DEF QuietLink

LEMMA LinkQuiet == ASSUME NEW l, QuietLink(l), M!IsLink(l) PROVE Quiet'
BY DEF QuietLink, M!IsLink, Quiet

LEMMA LinkIsQuiet == ASSUME MInv, Quiet PROVE QuietLink(M!Link)
<1>1. M!Link \in LinkType
    BY LinkIs
<1>2. M!Link.connected = connected /\ M!Link.messages = messages
    BY DEF M!Link
<1>3. QED BY <1>1, <1>2 DEF QuietLink, Quiet

LEMMA RequestQuiet ==
    ASSUME MInv, Quiet, NEW kind \in M!Kinds, NEW value,
           \A m \in M!Told : [m EXCEPT ![kind] = value] \in M!Told,
           M!Request(kind, value)
    PROVE  Quiet'
<1>1. PICK l \in M!Sent(M!Link, kind, value) : M!IsLink(l)
    BY DEF M!Request
<1>2. QED BY <1>1, LinkIs, LinkIsQuiet, SentQuiet, LinkQuiet

LEMMA EnterCallQuiet == ASSUME MInv, Quiet, NEW ap \in Paths, M!EnterCall(ap) PROVE Quiet'
<1>1. PICK l \in M!CallRequests(ap) : M!IsLink(l)
    BY DEF M!EnterCall
<1>2. PICK k \in M!Sent(M!Link, "path", ap) :
          \E c \in M!Sent(k, "clock", "START") :
              l \in M!Sent(c, "volume", M!Level(voice_volume))
    BY <1>1 DEF M!CallRequests
<1>3. PICK c \in M!Sent(k, "clock", "START") :
          l \in M!Sent(c, "volume", M!Level(voice_volume))
    BY <1>2
<1>4. amr \in BOOLEAN /\ HasGetWbAmr \in BOOLEAN /\ {"path", "clock", "volume"} \subseteq M!Kinds
    BY LinkIs, KindsAre
<1>5. QuietLink(k)
    BY <1>4, LinkIsQuiet, SentQuiet, Sendable
<1>6. QuietLink(c)
    BY <1>4, <1>5, <1>3, SentQuiet, Sendable
<1>7. \A m \in M!Told : [m EXCEPT !["volume"] = M!Level(voice_volume)] \in M!Told
    BY Sendable, InvIsTyped DEF HalTyped
<1>8. QuietLink(l)
    BY <1>3, <1>4, <1>6, <1>7, SentQuiet
<1>9. QED BY <1>1, <1>8, LinkQuiet

LEMMA ReceiveQuiet == ASSUME MInv, Quiet, M!Receive PROVE Quiet'
<1>1. messages # <<>> /\ messages \in Seq(BOOLEAN) /\ connected
    BY DEF M!Receive, MInv, M!TypeOK, Quiet
<1> DEFINE rest == [M!Link EXCEPT !.messages = Tail(@)]
<1>2. CASE in_call /\ wb_amr' # wb_amr
    <2>1. PICK l \in M!Sent(rest, "path", audio_path) : M!IsLink(l)
        BY <1>2 DEF M!Receive
    <2>2. M!Link \in LinkType /\ amr \in BOOLEAN /\ HasGetWbAmr \in BOOLEAN
        BY LinkIs
    <2>3. Tail(messages) \in Seq(BOOLEAN)
        BY <1>1, HeadTailProperties
    <2>4. rest \in LinkType /\ rest.connected
        BY <1>1, <2>2, <2>3 DEF LinkType, M!Link
    <2>5. QuietLink(rest)
        BY <2>4 DEF QuietLink
    <2> HIDE DEF rest
    <2>6. PICK c \in M!ConnectIfRequired(rest) : l.connected = c.connected
        <3>1. PICK c \in M!ConnectIfRequired(rest) :
                \/ l = [c EXCEPT !.dropped = @ \cup {"path"}]
                \/ l = [c EXCEPT !.dropped = @ \ {"path"}, !.modem["path"] = audio_path]
            BY <2>1 DEF M!Sent
        <3>2. c \in LinkType
            BY <2>2, <2>4, ConnectInforms
        <3>3. QED BY <3>1, <3>2 DEF LinkType
    <2>7. l.connected
        BY <2>4, <2>6 DEF M!ConnectIfRequired
    <2>8. QED BY <2>1, <2>7 DEF Quiet, M!IsLink
<1>3. CASE ~(in_call /\ wb_amr' # wb_amr)
    BY <1>1, <1>3 DEF M!Receive, Quiet
<1>4. QED BY <1>2, <1>3

LEMMA NextQuiet == ASSUME MInv, Quiet, [DeviceNext]_<<vars, ril, modem_vars>> PROVE Quiet'
<1>1. CASE UNCHANGED modem_vars
    BY <1>1 DEF modem_vars, Quiet
<1>2. CASE AdevClose
    BY <1>2 DEF AdevClose, Quiet
<1>3. ASSUME NEW ap \in Paths, M!SelectPath(ap) PROVE Quiet'
    <2>1. M!Request("path", ap)
        BY <1>3 DEF M!SelectPath
    <2>2. QED BY <2>1, RequestQuiet, Sendable, KindsAre
<1>4. ASSUME NEW v \in Volumes, M!SetVoiceVolume(v) PROVE Quiet'
    <2>1. M!Request("volume", M!Level(v)) \/ UNCHANGED <<connected, messages>>
        BY <1>4 DEF M!SetVoiceVolume
    <2>2. \A m \in M!Told : [m EXCEPT !["volume"] = M!Level(v)] \in M!Told
        BY Sendable
    <2>3. CASE UNCHANGED <<connected, messages>>
        BY <2>3 DEF Quiet
    <2>4. QED BY <2>1, <2>2, <2>3, RequestQuiet, KindsAre
<1>5. ASSUME NEW state \in BOOLEAN, M!SetMicMute(state) PROVE Quiet'
    <2>1. M!Request("mute", state) \/ UNCHANGED <<connected, messages>>
        BY <1>5 DEF M!SetMicMute
    <2>2. \A m \in M!Told : [m EXCEPT !["mute"] = state] \in M!Told
        BY Sendable
    <2>3. CASE UNCHANGED <<connected, messages>>
        BY <2>3 DEF Quiet
    <2>4. QED BY <2>1, <2>2, <2>3, RequestQuiet, KindsAre
<1>6. CASE M!SetNoiseSuppression
    <2>1. PICK l \in M!ConnectIfRequired(M!Link) : M!IsLink(l)
        BY <1>6 DEF M!SetNoiseSuppression
    <2>2. l \in LinkType
        BY LinkIs, ConnectInforms
    <2>3. ~l.connected => l.messages = <<>>
        BY <2>1, LinkIs, LinkIsQuiet, ConnectInforms DEF QuietLink
    <2>4. QED BY <2>1, <2>2, <2>3, LinkQuiet DEF QuietLink
<1>7. CASE M!LeaveCall \/ M!AmrChanges \/ M!Disconnect
    BY <1>7 DEF M!LeaveCall, M!AmrChanges, M!Disconnect, Quiet
<1>8. CASE Call
    BY <1>8, <1>3, <1>4, <1>5, <1>6, <1>7, EnterCallQuiet, ReceiveQuiet DEF Call, M!Next
<1>9. QED BY <1>1, <1>2, <1>8 DEF DeviceNext, ReadRoutes, RilOpen

LEMMA ClientStep ==
    ASSUME MInv, Quiet, [DeviceNext]_<<vars, ril, modem_vars>> PROVE [M!Next]_(M!vars)
<1>1. CASE UNCHANGED modem_vars
    BY <1>1 DEF modem_vars, M!vars
<1>2. CASE Call
    BY <1>2 DEF Call
<1>3. CASE AdevClose
    <2>1. /\ connected' \in {FALSE, connected} /\ messages' = (IF connected' THEN messages ELSE <<>>)
          /\ UNCHANGED <<in_call, wb_amr, voice_volume, mic_mute, audio_path, mute_told,
                         modem, amr, dropped_requests>>
        BY <1>3 DEF AdevClose
    <2>2. connected \in BOOLEAN
        BY DEF MInv, M!TypeOK
    <2>3. CASE connected /\ ~connected'
        BY <2>1, <2>2, <2>3 DEF M!Next, M!Disconnect
    <2>4. CASE ~(connected /\ ~connected')
        BY <2>1, <2>2, <2>4 DEF M!vars, Quiet
    <2>5. QED BY <2>3, <2>4
<1>4. QED BY <1>1, <1>2, <1>3 DEF DeviceNext, ReadRoutes, RilOpen

-----------------------------------------------------------------------------
(* The theorems.                                                           *)

\* The state of the modem client keeps its type, through any connection losses.
THEOREM ClientTypeCorrect == DeviceSpec => []M!TypeOK
<1>1. MInv => M!TypeOK
    BY DEF MInv
<1>2. QED BY <1>1, SpecMInv, PTL

\* Whichever requests are dropped, the modem has all other settings of a call.
THEOREM ModemDoesFollow == DeviceSpec => []ModemFollows
<1>1. MInv => ModemFollows
    BY DEF MInv, ModemFollows
<1>2. QED BY <1>1, SpecMInv, PTL

\* However often the connection breaks, the bandwidth is asked for again.
THEOREM RateIsKnown == DeviceSpec => []RateKnown
<1>1. MInv => RateKnown
    BY DEF MInv, RateKnown
<1>2. QED BY <1>1, SpecMInv, PTL

\* Through the life of the device, closing it too, the client is ModemClient.
THEOREM ClientIsModemClient == DeviceSpec => M!Spec
<1>1. DeviceInit => M!Init /\ Quiet
    BY DEF DeviceInit, M!Init, Quiet
<1>2. MInv /\ Quiet /\ [DeviceNext]_<<vars, ril, modem_vars>> => Quiet' /\ [M!Next]_(M!vars)
    BY NextQuiet, ClientStep
<1>3. QED BY <1>1, <1>2, SpecMInv, PTL DEF DeviceSpec, M!Spec
=============================================================================
