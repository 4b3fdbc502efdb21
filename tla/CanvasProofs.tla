------------------------------ MODULE CanvasProofs ------------------------------
(***************************************************************************)
(* Proofs about Canvas, for any screen to begin with and any bounds.       *)
(*                                                                         *)
(* The invariant IInv says that the components reached from the main       *)
(* canvas are a tree (TreeInv).  To be kept by every handler that needs    *)
(* more: a paste attaches what was copied long before, so the clipboard    *)
(* and the pastes under way are trees too, whose roots that come from     *)
(* a tab may go into one (CopyInv); grouping takes what is selected off    *)
(* the main canvas, so what is selected lies there or is gone (AreaInv);   *)
(* and what is copied or grouped gets a number that nothing has, gone or   *)
(* not (MadeInv).  The last section follows what leaves the screen.        *)
(***************************************************************************)
EXTENDS Canvas, FiniteSetTheorems, SequenceTheorems, WellFoundedInduction, TLAPS

\* The canvasId of what is in c: a group is named by its origin.
NameOf(kd, og, c) == IF c # Main /\ kd[c] = "Group" THEN og[c] ELSE c

\* No entry occurs twice.
Single(s) == \A i, j \in DOMAIN s : s[i] = s[j] => i = j

\* The lists of the containers C hold each component once, which names its
\* container; nothing in X is nested too deep.
Branches(k, kd, og, a, X, C) ==
    /\ \A c \in X : ToSet(k[c]) \subseteq X
    /\ \A c \in C : Single(k[c])
    /\ \A c, d \in C : c # d => ToSet(k[c]) \cap ToSet(k[d]) = {}
    /\ \A c \in C : \A o \in ToSet(k[c]) \cap Ids : a[o] = NameOf(kd, og, c)
    /\ \A c \in X : \A o \in ToSet(k[c]) : kd[o] # kd[c] /\ \A p \in ToSet(k[o]) : kd[p] = "view"

\* The components X are a tree.
Tree(k, kd, og, a, X) ==
    /\ X \in SUBSET Ids /\ ToSet(k[Main]) \cap Ids \subseteq X
    /\ Branches(k, kd, og, a, X, {Main} \cup X)

\* A component that there is or was, up to the number n.
Made(kd, n, o) == o <= n /\ kd[o] # "free"

\* All lists, the selection and the current component.
Lists == [Canvases -> Seq(1..(MaxIds + 2))]

Types ==
    /\ kids \in Lists
    /\ kind \in [Ids -> {"view", "DeTabs", "Group", "free"}]
    /\ at \in [Ids -> Canvases]
    /\ origin \in [Ids -> Ids]
    /\ last \in Views..MaxIds
    /\ cur \in {None, Frame} \cup Ids
    /\ area \in Seq(Ids) /\ Len(area) <= MaxMarks
    /\ \A o \in Ids : kind[o] = "view" => kids[o] = <<>>
    /\ stale \in BOOLEAN

\* A group was copied from an older one.
OriginInv ==
    \A o \in Ids : origin[o] <= o /\ kind[origin[o]] = kind[o] /\ (o > last => origin[o] = o)

MadeInv ==
    /\ \A c \in Canvases : \A o \in ToSet(kids[c]) \cap Ids : Made(kind, last, o)
    /\ \A o \in ToSet(area) : Made(kind, last, o)
    /\ cur \in Ids => Made(kind, last, cur)
    /\ OriginInv

\* What a copy is made of: a tree without a main canvas.  What was copied from a
\* group goes to the main canvas, and what was copied from a tab may go into it.
Copied(kd, og, n, c) ==
    LET X == DOMAIN c.kids
    IN /\ X \in SUBSET Ids /\ DOMAIN c.at = X
       /\ c.kids \in [X -> Seq(X)] /\ c.at \in [X -> Canvases]
       /\ c.roots \in Seq(X)
       /\ Branches(c.kids, kd, og, c.at, X, X)
       /\ \A o \in X : Made(kd, n, o) /\ (kd[o] = "view" => c.kids[o] = <<>>)
       /\ \A r \in ToSet(c.roots) : c.at[r] \in Ids =>
             /\ c.at[r] <= n
             /\ \/ kd[c.at[r]] = "Group"
                \/ /\ kd[c.at[r]] = "DeTabs" /\ kd[r] # "DeTabs"
                   /\ \A p \in ToSet(c.kids[r]) : kd[p] = "view"

\* A paste that has not ended has a component left to add.
Running(kd, og, n, p) ==
    p = NoPaste \/ /\ p = [clip |-> p.clip, next |-> p.next]
                   /\ Copied(kd, og, n, p.clip)
                   /\ p.next \in 1..Len(p.clip.roots)

CopyInv ==
    /\ DOMAIN pending = 1..MaxEdits
    /\ Copied(kind, origin, last, clip)
    /\ clip = NoClip \/ clip.roots # <<>>
    /\ \A n \in 1..MaxEdits : Running(kind, origin, last, pending[n])

\* A selected component that there is lies on the main canvas.
AreaInv == ToSet(area) \cap Elements(kids) \subseteq ToSet(kids[Main])

TreeInv == Tree(kids, kind, origin, at, Elements(kids))

IInv == Types /\ MadeInv /\ (~stale => TreeInv /\ AreaInv /\ CopyInv)

-------------------------------------------------------------------------------
(* Sequences                                                               *)

\* A set of numbers up to n that holds 0, and with a number the next, holds all.
LEMMA UpTo ==
    ASSUME NEW n \in Nat, NEW T, 0 \in T, \A i \in 1..n : i - 1 \in T => i \in T
    PROVE  \A i \in 0..n : i \in T
<1> DEFINE R == (0..n) \ T
<1>1. SUFFICES ASSUME R # {} PROVE FALSE
  OBVIOUS
<1>2. R \subseteq Nat
  OBVIOUS
<1>3. PICK m \in R : \A k \in R : ~ (<<k, m>> \in OpToRel(<, Nat))
  <2> HIDE DEF R
  <2> QED
    BY <1>1, <1>2, NatLessThanWellFounded, WFMin
<1>4. m \in 0..n /\ m \notin T
  OBVIOUS
<1>5. m \in 1..n
  <2>1. m # 0
    BY <1>4
  <2> QED
    BY <1>4, <2>1
<1>6. m - 1 \notin T
  BY <1>4, <1>5
<1>7. m - 1 \in R /\ m \in Nat /\ m - 1 \in Nat /\ m - 1 < m
  BY <1>5, <1>6
<1>8. ~ (<<m - 1, m>> \in OpToRel(<, Nat))
  BY <1>3, <1>7
<1> QED
  BY <1>7, <1>8 DEF OpToRel

LEMMA SeqDom ==
    ASSUME NEW S, NEW s \in Seq(S)
    PROVE  /\ Len(s) \in Nat /\ DOMAIN s = 1..Len(s) /\ s \in [1..Len(s) -> S]
           /\ ToSet(s) \subseteq S
           /\ \A x : x \in ToSet(s) <=> \E i \in 1..Len(s) : s[i] = x
  BY LenProperties DEF ToSet

LEMMA EmptyIs ==
    ToSet(<<>>) = {} /\ Single(<<>>) /\ Len(<<>>) = 0
  BY DEF ToSet, Single

LEMMA ConcatIs ==
    ASSUME NEW S, NEW s \in Seq(S), NEW t \in Seq(S)
    PROVE  /\ s \o t \in Seq(S) /\ Len(s \o t) = Len(s) + Len(t)
           /\ ToSet(s \o t) = ToSet(s) \cup ToSet(t)
           /\ Single(s) /\ Single(t) /\ ToSet(s) \cap ToSet(t) = {} => Single(s \o t)
<1>1. /\ s \o t \in Seq(S) /\ Len(s \o t) = Len(s) + Len(t)
      /\ \A i \in 1..(Len(s) + Len(t)) :
            (s \o t)[i] = IF i <= Len(s) THEN s[i] ELSE t[i - Len(s)]
  BY ConcatProperties
<1>2. /\ Len(s) \in Nat /\ DOMAIN s = 1..Len(s) /\ Len(t) \in Nat /\ DOMAIN t = 1..Len(t)
      /\ DOMAIN (s \o t) = 1..(Len(s) + Len(t))
  BY <1>1, SeqDom
<1>3. ASSUME NEW x \in ToSet(s \o t) PROVE x \in ToSet(s) \cup ToSet(t)
  <2>1. PICK i \in 1..(Len(s) + Len(t)) : (s \o t)[i] = x
    BY <1>2 DEF ToSet
  <2>2. CASE i <= Len(s)
    BY <1>1, <1>2, <2>1, <2>2 DEF ToSet
  <2>3. CASE ~(i <= Len(s))
    <3>1. i - Len(s) \in 1..Len(t) /\ t[i - Len(s)] = x
      BY <1>1, <1>2, <2>1, <2>3
    <3> QED
      BY <1>2, <3>1 DEF ToSet
  <2> QED
    BY <2>2, <2>3
<1>4. ASSUME NEW x \in ToSet(s) PROVE x \in ToSet(s \o t)
  <2>1. PICK i \in 1..Len(s) : s[i] = x
    BY <1>2 DEF ToSet
  <2>2. i \in 1..(Len(s) + Len(t)) /\ (s \o t)[i] = x
    BY <1>1, <1>2, <2>1
  <2> QED
    BY <1>2, <2>2 DEF ToSet
<1>5. ASSUME NEW x \in ToSet(t) PROVE x \in ToSet(s \o t)
  <2>1. PICK i \in 1..Len(t) : t[i] = x
    BY <1>2 DEF ToSet
  <2>2. i + Len(s) \in 1..(Len(s) + Len(t)) /\ ~(i + Len(s) <= Len(s)) /\ (i + Len(s)) - Len(s) = i
    BY <1>2, <2>1
  <2>3. (s \o t)[i + Len(s)] = x
    BY <1>1, <2>1, <2>2
  <2> QED
    BY <1>2, <2>2, <2>3 DEF ToSet
<1>6. ASSUME Single(s), Single(t), ToSet(s) \cap ToSet(t) = {} PROVE Single(s \o t)
  <2> SUFFICES ASSUME NEW i \in 1..(Len(s) + Len(t)), NEW j \in 1..(Len(s) + Len(t)),
                      (s \o t)[i] = (s \o t)[j]
               PROVE  i = j
    BY <1>2 DEF Single
  <2>1. CASE i <= Len(s) /\ j <= Len(s)
    <3>1. i \in DOMAIN s /\ j \in DOMAIN s /\ s[i] = s[j]
      BY <1>1, <1>2, <2>1
    <3> QED
      BY <1>6, <3>1 DEF Single
  <2>2. CASE ~(i <= Len(s)) /\ ~(j <= Len(s))
    <3>1. i - Len(s) \in DOMAIN t /\ j - Len(s) \in DOMAIN t /\ t[i - Len(s)] = t[j - Len(s)]
      BY <1>1, <1>2, <2>2
    <3>2. i - Len(s) = j - Len(s)
      BY <1>6, <3>1 DEF Single
    <3> QED
      BY <1>2, <3>2
  <2>3. CASE i <= Len(s) /\ ~(j <= Len(s))
    <3>1. i \in DOMAIN s /\ j - Len(s) \in DOMAIN t /\ s[i] = t[j - Len(s)]
      BY <1>1, <1>2, <2>3
    <3> QED
      BY <1>6, <3>1 DEF ToSet
  <2>4. CASE ~(i <= Len(s)) /\ j <= Len(s)
    <3>1. j \in DOMAIN s /\ i - Len(s) \in DOMAIN t /\ s[j] = t[i - Len(s)]
      BY <1>1, <1>2, <2>4
    <3> QED
      BY <1>6, <3>1 DEF ToSet
  <2> QED
    BY <2>1, <2>2, <2>3, <2>4
<1> QED
  BY <1>1, <1>3, <1>4, <1>5, <1>6

LEMMA OneIs ==
    ASSUME NEW S, NEW x \in S
    PROVE  <<x>> \in Seq(S) /\ Len(<<x>>) = 1 /\ ToSet(<<x>>) = {x} /\ Single(<<x>>)
  BY DEF ToSet, Single

LEMMA AppendIs ==
    ASSUME NEW S, NEW s \in Seq(S), NEW x \in S
    PROVE  /\ Append(s, x) \in Seq(S) /\ Len(Append(s, x)) = Len(s) + 1
           /\ ToSet(Append(s, x)) = ToSet(s) \cup {x}
           /\ Single(s) /\ x \notin ToSet(s) => Single(Append(s, x))
<1>1. <<x>> \in Seq(S) /\ Len(<<x>>) = 1 /\ ToSet(<<x>>) = {x} /\ Single(<<x>>)
  BY OneIs
<1>2. Append(s, x) = s \o <<x>>
  BY AppendIsConcat
<1>3. Single(s) /\ x \notin ToSet(s) => Single(s \o <<x>>)
  BY <1>1, ConcatIs
<1>4. s \o <<x>> \in Seq(S) /\ ToSet(s \o <<x>>) = ToSet(s) \cup ToSet(<<x>>)
  BY <1>1, ConcatIs
<1>5. Len(s \o <<x>>) = Len(s) + 1
  BY <1>1, ConcatIs
<1> QED
  BY <1>1, <1>2, <1>3, <1>4, <1>5

\* The function by which FlattenSeq is defined is the one it should be.
LEMMA FlattenedSoFar ==
    ASSUME NEW S, NEW parts \in Seq(Seq(S)), parts # <<>>
    PROVE  \E f \in [1..Len(parts) -> Seq(S)] :
              /\ f[1] = parts[1]
              /\ \A i \in 2..Len(parts) : f[i] = f[i - 1] \o parts[i]
              /\ FlattenSeq(parts) = f[Len(parts)]
<1> DEFINE n == Len(parts)
           Good(f, m) == \A i \in 1..m : f[i] = IF i = 1 THEN parts[i] ELSE f[i - 1] \o parts[i]
           T == {m \in 0..n : \E f \in [1..m -> Seq(S)] : Good(f, m)}
<1>1. n \in Nat /\ n # 0 /\ \A i \in 1..n : parts[i] \in Seq(S)
  BY EmptySeq, LenProperties
<1>2. 0 \in T
  <2> DEFINE none == [i \in 1..0 |-> <<>>]
  <2>1. none \in [1..0 -> Seq(S)]
    OBVIOUS
  <2>2. Good(none, 0)
    OBVIOUS
  <2>3. \E f \in [1..0 -> Seq(S)] : Good(f, 0)
    <3> HIDE DEF none, Good
    <3> QED
      BY <2>1, <2>2
  <2>4. 0 \in 0..n
    BY <1>1
  <2> HIDE DEF Good, n
  <2> QED
    BY <2>3, <2>4
<1>3. ASSUME NEW m \in 1..n, m - 1 \in T PROVE m \in T
  <2>1. PICK f \in [1..(m - 1) -> Seq(S)] : Good(f, m - 1)
    BY <1>3
  <2> DEFINE last1 == IF m = 1 THEN parts[m] ELSE f[m - 1] \o parts[m]
             g == [i \in 1..m |-> IF i = m THEN last1 ELSE f[i]]
  <2>2. last1 \in Seq(S)
    <3>1. parts[m] \in Seq(S)
      BY <1>1
    <3>2. m # 1 => f[m - 1] \in Seq(S)
      BY <1>1
    <3> QED
      BY <3>1, <3>2, ConcatProperties
  <2> HIDE DEF last1
  <2>3. g \in [1..m -> Seq(S)]
    BY <1>1, <2>2
  <2>4. ASSUME NEW i \in 1..m PROVE g[i] = IF i = 1 THEN parts[i] ELSE g[i - 1] \o parts[i]
    <3>1. CASE i = m
      <4>1. g[i] = last1
        BY <3>1
      <4>2. m # 1 => g[m - 1] = f[m - 1]
        BY <1>1
      <4> QED
        BY <3>1, <4>1, <4>2 DEF last1
    <3>2. CASE i # m
      <4>1. i \in 1..(m - 1) /\ g[i] = f[i] /\ (i # 1 => g[i - 1] = f[i - 1])
        BY <1>1, <3>2
      <4> QED
        BY <2>1, <4>1
    <3> QED
      BY <3>1, <3>2
  <2>5. Good(g, m)
    BY <2>4
  <2>6. \E h \in [1..m -> Seq(S)] : Good(h, m)
    <3> HIDE DEF g, Good
    <3> QED
      BY <2>3, <2>5
  <2>7. m \in 0..n
    OBVIOUS
  <2> HIDE DEF Good
  <2> QED
    BY <2>6, <2>7
<1>4. n \in T
  <2> HIDE DEF T, n
  <2>1. \A i \in 0..n : i \in T
    BY <1>1, <1>2, <1>3, UpTo
  <2> QED
    BY <1>1, <2>1
<1>5. PICK f \in [1..n -> Seq(S)] : Good(f, n)
  BY <1>4
<1> DEFINE P(h) == h = [i \in 1..n |-> IF i = 1 THEN parts[i] ELSE h[i - 1] \o parts[i]]
           h0 == CHOOSE h : P(h)
<1>6. P(f)
  BY <1>5
<1>7. P(h0)
  <2> HIDE DEF P
  <2> QED
    BY <1>6
<1>8. FlattenSeq(parts) = h0[n]
  BY <1>1 DEF FlattenSeq
<1>9. \A i \in 1..n : h0[i] = IF i = 1 THEN parts[i] ELSE h0[i - 1] \o parts[i]
  <2> HIDE DEF h0
  <2> QED
    BY <1>7
<1>10. \A i \in 0..n : i \in {m \in 0..n : m # 0 => h0[m] \in Seq(S)}
  <2> DEFINE U == {m \in 0..n : m # 0 => h0[m] \in Seq(S)}
  <2> HIDE DEF h0
  <2>1. 0 \in U
    BY <1>1
  <2>2. ASSUME NEW i \in 1..n, i - 1 \in U PROVE i \in U
    <3>1. CASE i = 1
      BY <1>1, <1>9, <3>1
    <3>2. CASE i # 1
      <4>0. h0[i] = h0[i - 1] \o parts[i]
        BY <1>9, <3>2
      <4>1. h0[i - 1] \in Seq(S) /\ parts[i] \in Seq(S)
        BY <1>1, <2>2, <3>2
      <4>2. h0[i] \in Seq(S)
        BY <4>0, <4>1, ConcatProperties
      <4> QED
        BY <1>1, <4>2
    <3> QED
      BY <3>1, <3>2
  <2> HIDE DEF U, n
  <2> QED
    BY <1>1, <2>1, <2>2, UpTo DEF U
<1>11. h0 \in [1..n -> Seq(S)]
  <2>1. DOMAIN h0 = 1..n /\ h0 = [i \in 1..n |-> h0[i]]
    <3> HIDE DEF h0
    <3> QED
      BY <1>7
  <2>2. \A i \in 1..n : h0[i] \in Seq(S)
    <3> HIDE DEF h0
    <3> QED
      BY <1>1, <1>10
  <2> HIDE DEF h0
  <2> QED
    BY <2>1, <2>2
<1>12. h0[1] = parts[1]
  <2> HIDE DEF h0
  <2>1. 1 \in 1..n
    BY <1>1
  <2> QED
    BY <1>9, <2>1
<1>13. ASSUME NEW i \in 2..n PROVE h0[i] = h0[i - 1] \o parts[i]
  <2> HIDE DEF h0
  <2>1. i \in 1..n /\ i # 1
    BY <1>1
  <2> QED
    BY <1>9, <2>1
<1> HIDE DEF h0
<1> QED
  BY <1>8, <1>11, <1>12, <1>13

\* Joined lists hold what the lists hold, once if the lists do and share nothing.
LEMMA FlattenIs ==
    ASSUME NEW S, NEW parts \in Seq(Seq(S))
    PROVE  /\ FlattenSeq(parts) \in Seq(S)
           /\ \A x : x \in ToSet(FlattenSeq(parts)) <=> \E i \in DOMAIN parts : x \in ToSet(parts[i])
           /\ /\ \A i \in DOMAIN parts : Single(parts[i])
              /\ \A i, j \in DOMAIN parts : i # j => ToSet(parts[i]) \cap ToSet(parts[j]) = {}
              => Single(FlattenSeq(parts))
<1>1. CASE parts = <<>>
  <2>1. FlattenSeq(parts) = <<>> /\ DOMAIN parts = {}
    BY <1>1 DEF FlattenSeq
  <2> QED
    BY <2>1, EmptyIs
<1>2. CASE parts # <<>>
  <2> DEFINE n == Len(parts)
  <2>1. n \in Nat /\ n # 0 /\ DOMAIN parts = 1..n /\ \A i \in 1..n : parts[i] \in Seq(S)
    BY <1>2, EmptySeq, LenProperties
  <2>2. PICK f \in [1..n -> Seq(S)] :
           /\ f[1] = parts[1]
           /\ \A i \in 2..n : f[i] = f[i - 1] \o parts[i]
           /\ FlattenSeq(parts) = f[n]
    BY <1>2, FlattenedSoFar
  <2> DEFINE Holds(m) == \A x : x \in ToSet(f[m]) <=> \E i \in 1..m : x \in ToSet(parts[i])
             T == {m \in 0..n : m # 0 => Holds(m)}
  <2>3. ASSUME NEW m \in 1..n, m = 1 \/ Holds(m - 1) PROVE Holds(m)
    <3>1. CASE m = 1
      BY <2>2, <3>1
    <3>2. CASE m # 1
      <4>0. m \in 2..n /\ m - 1 \in 1..n
        BY <2>1, <3>2
      <4>1. f[m - 1] \in Seq(S) /\ parts[m] \in Seq(S)
        BY <2>1, <2>2, <4>0
      <4>2. f[m] = f[m - 1] \o parts[m]
        BY <2>2, <4>0
      <4>3. ToSet(f[m]) = ToSet(f[m - 1]) \cup ToSet(parts[m])
        BY <4>1, <4>2, ConcatIs
      <4>4. \A i : i \in 1..m <=> i \in 1..(m - 1) \/ i = m
        BY <2>1, <4>0
      <4> QED
        BY <2>3, <3>2, <4>3, <4>4
    <3> QED
      BY <3>1, <3>2
  <2>4. \A m \in 0..n : m \in T
    <3>1. 0 \in T
      BY <2>1
    <3>2. ASSUME NEW m \in 1..n, m - 1 \in T PROVE m \in T
      <4>1. m = 1 \/ Holds(m - 1)
        <5> HIDE DEF Holds
        <5> QED
          BY <3>2
      <4>2. Holds(m)
        BY <2>3, <4>1
      <4> HIDE DEF Holds
      <4> QED
        BY <4>2
    <3> HIDE DEF T, n
    <3> QED
      BY <2>1, <3>1, <3>2, UpTo
  <2>5. \A m \in 1..n : Holds(m)
    <3> HIDE DEF Holds
    <3> QED
      BY <2>4
  <2>6. ASSUME \A i \in 1..n : Single(parts[i]),
               \A i, j \in 1..n : i # j => ToSet(parts[i]) \cap ToSet(parts[j]) = {}
        PROVE  Single(f[n])
    <3> DEFINE U == {m \in 0..n : m # 0 => Single(f[m])}
    <3> HIDE DEF Single
    <3>1. 0 \in U
      BY <2>1
    <3>2. ASSUME NEW m \in 1..n, m - 1 \in U PROVE m \in U
      <4>1. CASE m = 1
        BY <2>1, <2>2, <2>6, <4>1
      <4>2. CASE m # 1
        <5>0. m \in 2..n /\ m - 1 \in 1..n
          BY <2>1, <4>2
        <5>1. f[m - 1] \in Seq(S) /\ parts[m] \in Seq(S)
          BY <2>1, <2>2, <5>0
        <5>2. f[m] = f[m - 1] \o parts[m] /\ Single(parts[m])
          BY <2>2, <2>6, <5>0
        <5>5. Single(f[m - 1])
          BY <2>1, <3>2, <5>0
        <5>3. ASSUME NEW x \in ToSet(f[m - 1]) PROVE x \notin ToSet(parts[m])
          <6>1. PICK i \in 1..(m - 1) : x \in ToSet(parts[i])
            BY <2>5, <5>0
          <6>2. i \in 1..n /\ i # m
            BY <2>1, <5>0
          <6> QED
            BY <2>6, <6>1, <6>2
        <5>4. Single(f[m])
          BY <5>1, <5>2, <5>3, <5>5, ConcatIs
        <5> QED
          BY <5>4
      <4> QED
        BY <4>1, <4>2
    <3>3. \A m \in 0..n : m \in U
      <4> HIDE DEF U, n
      <4> QED
        BY <2>1, <3>1, <3>2, UpTo
    <3> QED
      BY <2>1, <3>3
  <2>7. n \in 1..n
    BY <2>1
  <2>8. f[n] \in Seq(S)
    BY <2>2, <2>7
  <2>9. Holds(n)
    BY <2>5, <2>7
  <2> QED
    BY <2>1, <2>2, <2>6, <2>8, <2>9
<1> QED
  BY <1>1, <1>2

\* What Only keeps.
LEMMA OnlyIs ==
    ASSUME NEW S, NEW s \in Seq(S), NEW K
    PROVE  /\ Only(s, K) \in Seq(S)
           /\ ToSet(Only(s, K)) = ToSet(s) \cap K
           /\ Single(s) => Single(Only(s, K))
<1> DEFINE parts == [i \in DOMAIN s |-> IF s[i] \in K THEN <<s[i]>> ELSE <<>>]
<1>1. Len(s) \in Nat /\ DOMAIN s = 1..Len(s) /\ \A i \in 1..Len(s) : s[i] \in S
  BY SeqDom
<1>2. ASSUME NEW i \in DOMAIN s
      PROVE  /\ parts[i] \in Seq(S) /\ ToSet(parts[i]) = {s[i]} \cap K /\ Single(parts[i])
  <2>1. s[i] \in S
    BY <1>1
  <2>2. CASE s[i] \in K
    <3>1. parts[i] = <<s[i]>>
      BY <2>2
    <3> QED
      BY <2>1, <2>2, <3>1, OneIs
  <2>3. CASE s[i] \notin K
    <3>1. parts[i] = <<>>
      BY <2>3
    <3>2. ToSet(<<>>) = {} /\ Single(<<>>) /\ <<>> \in Seq(S)
      BY EmptyIs, EmptySeq
    <3> QED
      BY <2>3, <3>1, <3>2
  <2> QED
    BY <2>2, <2>3
<1>3. parts \in Seq(Seq(S)) /\ DOMAIN parts = DOMAIN s
  <2>1. parts \in [1..Len(s) -> Seq(S)]
    <3>1. DOMAIN parts = 1..Len(s) /\ \A i \in 1..Len(s) : parts[i] \in Seq(S)
      BY <1>1, <1>2
    <3> QED
      BY <1>1, <3>1
  <2> QED
    BY <1>1, <2>1
<1>4. Only(s, K) = FlattenSeq(parts)
  BY DEF Only
<1> HIDE DEF parts
<1>5. \A x : x \in ToSet(Only(s, K)) <=> \E i \in DOMAIN s : x = s[i] /\ x \in K
  <2>1. \A x : x \in ToSet(Only(s, K)) <=> \E i \in DOMAIN parts : x \in ToSet(parts[i])
    BY <1>3, <1>4, FlattenIs
  <2>2. ASSUME NEW x PROVE (\E i \in DOMAIN parts : x \in ToSet(parts[i])) <=> (\E i \in DOMAIN s : x = s[i] /\ x \in K)
    BY <1>2, <1>3
  <2> QED
    BY <2>1, <2>2
<1>6. ASSUME Single(s) PROVE Single(Only(s, K))
  <2>1. \A i \in DOMAIN parts : Single(parts[i])
    BY <1>2, <1>3
  <2>2. \A i, j \in DOMAIN parts : i # j => ToSet(parts[i]) \cap ToSet(parts[j]) = {}
    BY <1>2, <1>3, <1>6 DEF Single
  <2> QED
    BY <1>3, <1>4, <2>1, <2>2, FlattenIs
<1>7. Only(s, K) \in Seq(S)
  BY <1>3, <1>4, FlattenIs
<1>8. ToSet(Only(s, K)) = ToSet(s) \cap K
  BY <1>5 DEF ToSet
<1> QED
  BY <1>6, <1>7, <1>8

LEMMA WithoutIs ==
    ASSUME NEW S, NEW s \in Seq(S), NEW K
    PROVE  /\ Without(s, K) \in Seq(S)
           /\ ToSet(Without(s, K)) = ToSet(s) \ K
           /\ Single(s) => Single(Without(s, K))
<1>1. /\ Only(s, ToSet(s) \ K) \in Seq(S)
      /\ ToSet(Only(s, ToSet(s) \ K)) = ToSet(s) \cap (ToSet(s) \ K)
      /\ Single(s) => Single(Only(s, ToSet(s) \ K))
  BY OnlyIs
<1> QED
  BY <1>1 DEF Without

LEMMA SubSeqIs ==
    ASSUME NEW S, NEW s \in Seq(S), NEW m \in 1..(Len(s) + 1), NEW n \in 0..Len(s)
    PROVE  /\ SubSeq(s, m, n) \in Seq(S)
           /\ Len(SubSeq(s, m, n)) = IF m <= n THEN n - m + 1 ELSE 0
           /\ \A x : x \in ToSet(SubSeq(s, m, n)) <=> \E j \in m..n : x = s[j]
           /\ Single(s) => Single(SubSeq(s, m, n))
<1>1. Len(s) \in Nat /\ DOMAIN s = 1..Len(s) /\ \A i \in 1..Len(s) : s[i] \in S
  BY SeqDom
<1>2. m \in Int /\ n \in Int /\ \A i \in m..n : i \in 1..Len(s) /\ s[i] \in S
  BY <1>1
<1>3. /\ SubSeq(s, m, n) \in Seq(S)
      /\ Len(SubSeq(s, m, n)) = IF m <= n THEN n - m + 1 ELSE 0
      /\ \A i \in 1..(n - m + 1) : SubSeq(s, m, n)[i] = s[m + i - 1]
  BY <1>2, SubSeqProperties
<1> DEFINE t == SubSeq(s, m, n)
<1> HIDE DEF t
<1>4. /\ t \in Seq(S) /\ Len(t) = IF m <= n THEN n - m + 1 ELSE 0
      /\ \A i \in 1..(n - m + 1) : t[i] = s[m + i - 1]
  BY <1>3 DEF t
<1>5. DOMAIN t = 1..(n - m + 1)
  <2>1. DOMAIN t = 1..Len(t)
    BY <1>4, SeqDom
  <2>2. CASE m <= n
    BY <1>4, <2>1, <2>2
  <2>3. CASE ~(m <= n)
    <3>1. 1..Len(t) = {} /\ 1..(n - m + 1) = {}
      BY <1>2, <1>4, <2>3
    <3> QED
      BY <2>1, <3>1
  <2> QED
    BY <2>2, <2>3
<1>6. ASSUME NEW x PROVE x \in ToSet(t) <=> \E j \in m..n : x = s[j]
  <2>1. ASSUME x \in ToSet(t) PROVE \E j \in m..n : x = s[j]
    <3>1. PICK i \in 1..(n - m + 1) : t[i] = x
      BY <1>5, <2>1 DEF ToSet
    <3>2. m + i - 1 \in m..n /\ x = s[m + i - 1]
      BY <1>2, <1>4, <3>1
    <3> QED
      BY <3>2
  <2>2. ASSUME NEW j \in m..n, x = s[j] PROVE x \in ToSet(t)
    <3>1. j - m + 1 \in 1..(n - m + 1) /\ m + (j - m + 1) - 1 = j
      BY <1>2
    <3>2. t[j - m + 1] = x
      BY <1>4, <2>2, <3>1
    <3> QED
      BY <1>5, <3>1, <3>2 DEF ToSet
  <2> QED
    BY <2>1, <2>2
<1>7. ASSUME Single(s) PROVE Single(t)
  <2> SUFFICES ASSUME NEW i \in 1..(n - m + 1), NEW j \in 1..(n - m + 1), t[i] = t[j]
               PROVE  i = j
    BY <1>5 DEF Single
  <2>1. m + i - 1 \in DOMAIN s /\ m + j - 1 \in DOMAIN s
    BY <1>1, <1>2
  <2>2. s[m + i - 1] = s[m + j - 1]
    BY <1>4
  <2>3. m + i - 1 = m + j - 1
    BY <1>7, <2>1, <2>2 DEF Single
  <2> QED
    BY <1>2, <2>3
<1> QED
  BY <1>4, <1>6, <1>7 DEF t

\* A list without its i-th entry.
LEMMA RemoveAtIs ==
    ASSUME NEW S, NEW s \in Seq(S), NEW i \in 1..Len(s)
    PROVE  /\ RemoveAt(s, i) \in Seq(S) /\ Len(RemoveAt(s, i)) = Len(s) - 1
           /\ ToSet(RemoveAt(s, i)) \subseteq ToSet(s)
           /\ ToSet(s) \ {s[i]} \subseteq ToSet(RemoveAt(s, i))
           /\ Single(s) => Single(RemoveAt(s, i)) /\ s[i] \notin ToSet(RemoveAt(s, i))
<1> DEFINE a == SubSeq(s, 1, i - 1)
           b == SubSeq(s, i + 1, Len(s))
<1>1. Len(s) \in Nat /\ DOMAIN s = 1..Len(s) /\ i \in Nat
  BY SeqDom
<1>2. 1 \in 1..(Len(s) + 1) /\ i - 1 \in 0..Len(s) /\ i + 1 \in 1..(Len(s) + 1) /\ Len(s) \in 0..Len(s)
  BY <1>1
<1>3. /\ a \in Seq(S) /\ Len(a) = (IF 1 <= i - 1 THEN (i - 1) - 1 + 1 ELSE 0)
      /\ \A x : x \in ToSet(a) <=> \E j \in 1..(i - 1) : x = s[j]
      /\ Single(s) => Single(a)
  BY <1>2, SubSeqIs
<1>4. /\ b \in Seq(S) /\ Len(b) = (IF i + 1 <= Len(s) THEN Len(s) - (i + 1) + 1 ELSE 0)
      /\ \A x : x \in ToSet(b) <=> \E j \in (i + 1)..Len(s) : x = s[j]
      /\ Single(s) => Single(b)
  BY <1>2, SubSeqIs
<1>5. RemoveAt(s, i) = a \o b
  BY DEF RemoveAt
<1> HIDE DEF a, b
<1>6. /\ a \o b \in Seq(S) /\ Len(a \o b) = Len(a) + Len(b) /\ ToSet(a \o b) = ToSet(a) \cup ToSet(b)
  BY <1>3, <1>4, ConcatIs
<1>7. Len(a) + Len(b) = Len(s) - 1
  <2>1. Len(a) = i - 1
    BY <1>1, <1>3
  <2>2. Len(b) = Len(s) - i
    <3>1. Len(b) = IF i + 1 <= Len(s) THEN Len(s) - (i + 1) + 1 ELSE 0
      BY <1>4
    <3>2. i \in Nat /\ Len(s) \in Nat /\ i <= Len(s)
      BY <1>1
    <3>3. CASE i = Len(s)
      BY <3>1, <3>2, <3>3
    <3>4. CASE i # Len(s)
      <4>1. i + 1 <= Len(s) /\ Len(s) - (i + 1) + 1 = Len(s) - i
        BY <3>2, <3>4
      <4> QED
        BY <3>1, <4>1
    <3> QED
      BY <3>3, <3>4
  <2> QED
    BY <1>1, <2>1, <2>2
<1>8. \A x : x \in ToSet(s) <=> \E j \in 1..Len(s) : x = s[j]
  BY <1>1 DEF ToSet
<1>9. ToSet(a) \cup ToSet(b) \subseteq ToSet(s)
  <2>1. \A j : j \in 1..(i - 1) \/ j \in (i + 1)..Len(s) => j \in 1..Len(s)
    BY <1>1
  <2> QED
    BY <1>3, <1>4, <1>8, <2>1
<1>10. ToSet(s) \ {s[i]} \subseteq ToSet(a) \cup ToSet(b)
  <2>1. \A j \in 1..Len(s) : j # i => j \in 1..(i - 1) \/ j \in (i + 1)..Len(s)
    BY <1>1
  <2> QED
    BY <1>3, <1>4, <1>8, <2>1
<1>11. ASSUME Single(s) PROVE Single(a \o b) /\ s[i] \notin ToSet(a) \cup ToSet(b)
  <2>1. \A j \in 1..(i - 1) : j \in DOMAIN s /\ j # i /\ \A k \in (i + 1)..Len(s) : k \in DOMAIN s /\ k # i /\ j # k
    BY <1>1
  <2>2. \A k \in (i + 1)..Len(s) : k \in DOMAIN s /\ k # i
    BY <1>1
  <2>3. ToSet(a) \cap ToSet(b) = {}
    BY <1>3, <1>4, <1>11, <2>1 DEF Single
  <2>4. s[i] \notin ToSet(a) \cup ToSet(b)
    <3>1. i \in DOMAIN s /\ \A j \in DOMAIN s : s[i] = s[j] => i = j
      BY <1>1, <1>11 DEF Single
    <3>2. s[i] \notin ToSet(a)
      <4>1. \A j \in 1..(i - 1) : j \in DOMAIN s /\ j # i
        BY <1>1
      <4> QED
        BY <1>3, <3>1, <4>1
    <3>3. s[i] \notin ToSet(b)
      BY <1>4, <2>2, <3>1
    <3> QED
      BY <3>2, <3>3
  <2>5. Single(a \o b)
    BY <1>3, <1>4, <1>11, <2>3, ConcatIs
  <2> QED
    BY <2>4, <2>5
<1> QED
  BY <1>5, <1>6, <1>7, <1>9, <1>10, <1>11

\* A set of places has a least and a greatest one.
LEMMA LeastExists ==
    ASSUME NEW n \in Nat, NEW S \in SUBSET (1..n), S # {}
    PROVE  /\ \E m \in S : \A k \in S : m <= k
           /\ \E m \in S : \A k \in S : m >= k
<1>1. \E m \in S : \A k \in S : m <= k
  <2>1. S \subseteq Nat
    OBVIOUS
  <2>2. PICK m \in S : \A k \in S : ~ (<<k, m>> \in OpToRel(<, Nat))
    BY <2>1, NatLessThanWellFounded, WFMin
  <2>3. ASSUME NEW k \in S PROVE m <= k
    <3>1. k \in Nat /\ m \in Nat
      BY <2>1
    <3>2. ~ (k < m)
      BY <2>2, <3>1 DEF OpToRel
    <3> QED
      BY <3>1, <3>2
  <2> QED
    BY <2>3
<1>2. \E m \in S : \A k \in S : m >= k
  <2> DEFINE T == {n - k : k \in S}
  <2>1. T # {} /\ T \subseteq Nat
    <3>1. \A k \in S : n - k \in Nat
      OBVIOUS
    <3> QED
      BY <3>1
  <2>2. PICK t \in T : \A u \in T : ~ (<<u, t>> \in OpToRel(<, Nat))
    <3> HIDE DEF T
    <3> QED
      BY <2>1, NatLessThanWellFounded, WFMin
  <2>3. PICK m \in S : t = n - m
    BY <2>2
  <2>4. ASSUME NEW k \in S PROVE m >= k
    <3>1. n - k \in T /\ t \in Nat /\ n - k \in Nat
      BY <2>1, <2>2
    <3>2. ~ (n - k < t)
      BY <2>2, <3>1 DEF OpToRel
    <3> QED
      BY <2>3, <3>2
  <2> QED
    BY <2>4
<1> QED
  BY <1>1, <1>2

\* A list without the first occurrence of o.
LEMMA RemoveFirstIs ==
    ASSUME NEW S, NEW s \in Seq(S), NEW o \in ToSet(s)
    PROVE  /\ RemoveFirst(s, o) \in Seq(S) /\ Len(RemoveFirst(s, o)) = Len(s) - 1
           /\ ToSet(RemoveFirst(s, o)) \subseteq ToSet(s)
           /\ ToSet(s) \ {o} \subseteq ToSet(RemoveFirst(s, o))
           /\ Single(s) => Single(RemoveFirst(s, o)) /\ o \notin ToSet(RemoveFirst(s, o))
<1> DEFINE I == {i \in 1..Len(s) : s[i] = o}
           m == CHOOSE x \in I : \A y \in I : x <= y
<1>1. Len(s) \in Nat /\ DOMAIN s = 1..Len(s)
  BY SeqDom
<1>2. I # {} /\ I \in SUBSET (1..Len(s))
  BY <1>1 DEF ToSet
<1>3. m \in I
  <2>1. \E x \in I : \A y \in I : x <= y
    <3> HIDE DEF I
    <3> QED
      BY <1>1, <1>2, LeastExists
  <2> HIDE DEF I
  <2> QED
    BY <2>1
<1>4. RemoveFirst(s, o) = RemoveAt(s, m)
  <2>1. \E i \in 1..Len(s) : s[i] = o
    BY <1>2
  <2>2. SelectInSeq(s, LAMBDA v : v = o) = m
    BY <1>2 DEF SelectInSeq, Min
  <2> QED
    BY <2>1, <2>2 DEF RemoveFirst
<1>5. m \in 1..Len(s) /\ s[m] = o
  <2> HIDE DEF m
  <2> QED
    BY <1>3
<1> HIDE DEF m, I
<1> QED
  BY <1>4, <1>5, RemoveAtIs

\* A list without its first entry.
LEMMA TailIs ==
    ASSUME NEW S, NEW s \in Seq(S), s # <<>>
    PROVE  /\ Tail(s) \in Seq(S) /\ ToSet(Tail(s)) \subseteq ToSet(s)
           /\ Single(s) => Single(Tail(s))
<1>1. Len(s) \in Nat /\ Len(s) # 0 /\ Tail(s) = SubSeq(s, 2, Len(s))
  BY EmptySeq, TailIsSubSeq
<1>2. 2 \in 1..(Len(s) + 1) /\ Len(s) \in 0..Len(s)
  BY <1>1
<1>3. /\ SubSeq(s, 2, Len(s)) \in Seq(S)
      /\ \A x : x \in ToSet(SubSeq(s, 2, Len(s))) <=> \E j \in 2..Len(s) : x = s[j]
      /\ Single(s) => Single(SubSeq(s, 2, Len(s)))
  BY <1>2, SubSeqIs
<1>4. \A j \in 2..Len(s) : j \in DOMAIN s
  BY <1>1, SeqDom
<1> QED
  BY <1>1, <1>3, <1>4 DEF ToSet

\* A list with two neighbours swapped.
LEMMA SwapIs ==
    ASSUME NEW S, NEW s \in Seq(S), NEW i \in 1..Len(s), NEW j \in 1..Len(s)
    PROVE  LET t == [s EXCEPT ![i] = s[j], ![j] = s[i]]
           IN t \in Seq(S) /\ ToSet(t) = ToSet(s) /\ (Single(s) => Single(t))
<1> DEFINE t == [s EXCEPT ![i] = s[j], ![j] = s[i]]
<1>1. Len(s) \in Nat /\ DOMAIN s = 1..Len(s) /\ s \in [1..Len(s) -> S]
  BY SeqDom
<1>2. t \in [1..Len(s) -> S]
  BY <1>1
<1>3. t \in Seq(S) /\ DOMAIN t = 1..Len(s)
  BY <1>1, <1>2
<1>4. \A k \in 1..Len(s) : t[k] = IF k = j THEN s[i] ELSE IF k = i THEN s[j] ELSE s[k]
  BY <1>1
<1> HIDE DEF t
<1>5. ToSet(t) = ToSet(s)
  <2>1. ASSUME NEW x \in ToSet(t) PROVE x \in ToSet(s)
    BY <1>1, <1>3, <1>4 DEF ToSet
  <2>2. ASSUME NEW x \in ToSet(s) PROVE x \in ToSet(t)
    <3>1. PICK k \in 1..Len(s) : s[k] = x
      BY <1>1 DEF ToSet
    <3>2. \E m \in 1..Len(s) : t[m] = x
      <4>1. CASE k = i
        BY <1>4, <3>1, <4>1
      <4>2. CASE k # i /\ k = j
        BY <1>4, <3>1, <4>2
      <4>3. CASE k # i /\ k # j
        BY <1>4, <3>1, <4>3
      <4> QED
        BY <4>1, <4>2, <4>3
    <3> QED
      BY <1>3, <3>2 DEF ToSet
  <2> QED
    BY <2>1, <2>2
<1>6. ASSUME Single(s) PROVE Single(t)
  BY <1>1, <1>3, <1>4, <1>6 DEF Single
<1> QED
  BY <1>3, <1>5, <1>6 DEF t

\* As long as it has entries once only, a list is as long as what it holds.
LEMMA SingleLen ==
    ASSUME NEW S, NEW s \in Seq(S), Single(s)
    PROVE  IsFiniteSet(ToSet(s)) /\ Cardinality(ToSet(s)) = Len(s)
<1>1. Len(s) \in Nat /\ DOMAIN s = 1..Len(s) /\ s \in [1..Len(s) -> S]
  BY SeqDom
<1>2. s \in Bijection(1..Len(s), ToSet(s))
  <2>1. s \in [1..Len(s) -> ToSet(s)]
    BY <1>1 DEF ToSet
  <2>2. s \in Injection(1..Len(s), ToSet(s))
    BY <1>1, <2>1 DEF Injection, IsInjective, Single
  <2>3. s \in Surjection(1..Len(s), ToSet(s))
    BY <1>1, <2>1 DEF Surjection, ToSet
  <2> QED
    BY <2>2, <2>3 DEF Bijection
<1>3. IsFiniteSet(1..Len(s)) /\ Cardinality(1..Len(s)) = Len(s)
  BY <1>1, FS_Interval
<1>4. ExistsBijection(1..Len(s), ToSet(s))
  BY <1>2 DEF ExistsBijection
<1> QED
  BY <1>3, <1>4, FS_Bijection

-------------------------------------------------------------------------------
(* Trees                                                                   *)

LEMMA IdsAre ==
    /\ MaxIds \in Nat /\ Views \in Nat \ {0} /\ Views + 2 <= MaxIds
    /\ Main = 0 /\ Main \notin Ids /\ Frame \notin Ids /\ Null \notin Ids
    /\ Frame # Null /\ Ids \subseteq Canvases /\ Main \in Canvases
    /\ Ids \subseteq 1..(MaxIds + 2) /\ Frame \in 1..(MaxIds + 2) /\ Null \in 1..(MaxIds + 2)
    /\ \A c \in Canvases : c # Main => c \in Ids
  BY BoundAssumption DEF Main, Ids, Frame, Null, Canvases

\* What S holds, level by level.
LEMMA UnderIs ==
    ASSUME NEW k, NEW S
    PROVE  \A x : x \in Under(k, S) <=>
             \/ x \in S
             \/ \E c \in S \cap Ids : x \in ToSet(k[c])
             \/ \E c \in S \cap Ids : \E d \in ToSet(k[c]) \cap Ids : x \in ToSet(k[d])
<1>1. \A T : \A x : x \in Step(k, T) <=> x \in T \/ \E c \in T \cap Ids : x \in ToSet(k[c])
  BY DEF Step
<1>2. \A x : x \in Under(k, S) <=> x \in Step(k, S) \/ \E c \in Step(k, S) \cap Ids : x \in ToSet(k[c])
  BY <1>1 DEF Under
<1> QED
  BY <1>1, <1>2

LEMMA ElementsAre ==
    ASSUME NEW k
    PROVE  \A x : x \in Elements(k) <=>
             /\ x \in Ids
             /\ \/ x \in ToSet(k[Main])
                \/ \E c \in ToSet(k[Main]) \cap Ids : x \in ToSet(k[c])
                \/ \E c \in ToSet(k[Main]) \cap Ids : \E d \in ToSet(k[c]) \cap Ids : x \in ToSet(k[d])
<1>1. \A x : x \in Elements(k) <=> x \in Ids /\ x \in Under(k, ToSet(k[Main]))
  BY DEF Elements
<1>2. \A x : x \in Under(k, ToSet(k[Main])) <=>
             \/ x \in ToSet(k[Main])
             \/ \E c \in ToSet(k[Main]) \cap Ids : x \in ToSet(k[c])
             \/ \E c \in ToSet(k[Main]) \cap Ids : \E d \in ToSet(k[c]) \cap Ids : x \in ToSet(k[d])
  BY UnderIs
<1> QED
  BY <1>1, <1>2

\* The components are in every set that has those of the main canvas and what they
\* hold.
LEMMA ElementsLeast ==
    ASSUME NEW k, NEW X \in SUBSET Ids, ToSet(k[Main]) \cap Ids \subseteq X,
           \A c \in X : ToSet(k[c]) \subseteq X
    PROVE  Elements(k) \subseteq X
<1> SUFFICES ASSUME NEW x \in Elements(k) PROVE x \in X
  OBVIOUS
<1>1. /\ x \in Ids
      /\ \/ x \in ToSet(k[Main])
         \/ \E c \in ToSet(k[Main]) \cap Ids : x \in ToSet(k[c])
         \/ \E c \in ToSet(k[Main]) \cap Ids : \E d \in ToSet(k[c]) \cap Ids : x \in ToSet(k[d])
  BY ElementsAre
<1>2. CASE x \in ToSet(k[Main])
  BY <1>1, <1>2
<1>3. ASSUME NEW c \in ToSet(k[Main]) \cap Ids, x \in ToSet(k[c]) PROVE x \in X
  BY <1>3
<1>4. ASSUME NEW c \in ToSet(k[Main]) \cap Ids, NEW d \in ToSet(k[c]) \cap Ids, x \in ToSet(k[d])
      PROVE  x \in X
  BY <1>4
<1> QED
  BY <1>1, <1>2, <1>3, <1>4

\* Every component is in a list of the tree.
LEMMA ElementsHeld ==
    ASSUME NEW k, NEW x \in Elements(k)
    PROVE  \E c \in {Main} \cup Elements(k) : x \in ToSet(k[c])
<1>1. /\ x \in Ids
      /\ \/ x \in ToSet(k[Main])
         \/ \E c \in ToSet(k[Main]) \cap Ids : x \in ToSet(k[c])
         \/ \E c \in ToSet(k[Main]) \cap Ids : \E d \in ToSet(k[c]) \cap Ids : x \in ToSet(k[d])
  BY ElementsAre
<1>2. \A c \in ToSet(k[Main]) \cap Ids : c \in Elements(k) /\ ToSet(k[c]) \cap Ids \subseteq Elements(k)
  BY ElementsAre
<1> QED
  BY <1>1, <1>2

\* A tree may have more than what the main canvas leads to; that is a tree too.
LEMMA ElementsTree ==
    ASSUME NEW k, NEW kd, NEW og, NEW a, NEW X, Tree(k, kd, og, a, X),
           \A o \in X : kd[o] = "view" => k[o] = <<>>
    PROVE  Elements(k) \subseteq X /\ Tree(k, kd, og, a, Elements(k))
<1> DEFINE E == Elements(k)
<1>1. /\ X \in SUBSET Ids /\ ToSet(k[Main]) \cap Ids \subseteq X
      /\ \A c \in X : ToSet(k[c]) \subseteq X
      /\ \A c \in {Main} \cup X : Single(k[c])
      /\ \A c, d \in {Main} \cup X : c # d => ToSet(k[c]) \cap ToSet(k[d]) = {}
      /\ \A c \in {Main} \cup X : \A o \in ToSet(k[c]) \cap Ids : a[o] = NameOf(kd, og, c)
      /\ \A c \in X : \A o \in ToSet(k[c]) : kd[o] # kd[c] /\ \A p \in ToSet(k[o]) : kd[p] = "view"
  BY DEF Tree, Branches
<1>2. E \subseteq X
  BY <1>1, ElementsLeast
<1>3. ToSet(k[Main]) \cap Ids \subseteq E
  BY ElementsAre
<1>4. ASSUME NEW c \in E, NEW o \in ToSet(k[c]) PROVE o \in E
  <2>1. o \in Ids /\ c \in X
    BY <1>1, <1>2
  <2>2. CASE c \in ToSet(k[Main])
    BY <2>1, <2>2, ElementsAre
  <2>3. ASSUME NEW d \in ToSet(k[Main]) \cap Ids, c \in ToSet(k[d]) PROVE o \in E
    BY <1>1, <2>1, <2>3, ElementsAre
  <2>4. ASSUME NEW d \in ToSet(k[Main]) \cap Ids, NEW e \in ToSet(k[d]) \cap Ids, c \in ToSet(k[e])
        PROVE  FALSE
    <3>1. d \in X /\ kd[c] = "view"
      BY <1>1, <2>4
    <3>2. k[c] = <<>>
      BY <2>1, <3>1
    <3> QED
      BY <1>4, <3>2, EmptyIs
  <2>5. /\ c \in Ids
        /\ \/ c \in ToSet(k[Main])
           \/ \E d \in ToSet(k[Main]) \cap Ids : c \in ToSet(k[d])
           \/ \E d \in ToSet(k[Main]) \cap Ids : \E e \in ToSet(k[d]) \cap Ids : c \in ToSet(k[e])
    BY ElementsAre
  <2> QED
    BY <2>2, <2>3, <2>4, <2>5
<1> HIDE DEF E
<1>5. E \in SUBSET Ids
  BY <1>1, <1>2
<1>6. \A c \in E : ToSet(k[c]) \subseteq E
  BY <1>4
<1>7. Tree(k, kd, og, a, E)
  <2>1. \A c \in {Main} \cup E : c \in {Main} \cup X
    BY <1>2
  <2>2. Branches(k, kd, og, a, E, {Main} \cup E)
    BY <1>1, <1>2, <1>6, <2>1 DEF Branches
  <2> QED
    BY <1>3, <1>5, <2>2 DEF Tree
<1> QED
  BY <1>2, <1>7 DEF E

\* A list that holds nothing is empty.
LEMMA NothingHeld ==
    ASSUME NEW S, NEW s \in Seq(S), ToSet(s) = {}
    PROVE  s = <<>>
<1>1. Len(s) \in Nat /\ DOMAIN s = 1..Len(s)
  BY SeqDom
<1>2. Len(s) = 0
  <2>1. SUFFICES ASSUME Len(s) # 0 PROVE FALSE
    OBVIOUS
  <2>2. 1 \in DOMAIN s
    BY <1>1, <2>1
  <2> QED
    BY <2>2 DEF ToSet
<1> QED
  BY <1>2, EmptySeq

-------------------------------------------------------------------------------
(* Lists that lose components                                              *)

\* The watch on the selection puts the frame in and takes it out.
LEMMA SelectIs ==
    ASSUME NEW k \in Lists, NEW a, NEW c, Select(k, a, c)
    PROVE  /\ kids' \in Lists /\ area' = a /\ cur' \in {c, Frame}
           /\ \A d \in Ids : kids'[d] = k[d]
           /\ ToSet(kids'[Main]) \cap Ids = ToSet(k[Main]) \cap Ids
           /\ ToSet(kids'[Main]) \subseteq ToSet(k[Main]) \cup {Frame}
           /\ Single(k[Main]) => Single(kids'[Main])
<1> DEFINE s == k[Main]
           t == IF Len(a) < 2 THEN Without(s, {Frame})
                ELSE IF Contains(s, Frame) THEN s ELSE Append(s, Frame)
<1>1. s \in Seq(1..(MaxIds + 2)) /\ Main \in Canvases /\ Main \notin Ids /\ Ids \subseteq Canvases
  BY IdsAre DEF Lists
<1>2. area' = a /\ cur' \in {c, Frame} /\ kids' = [k EXCEPT ![Main] = t]
  BY DEF Select
<1>3. /\ t \in Seq(1..(MaxIds + 2)) /\ ToSet(t) \cap Ids = ToSet(s) \cap Ids
      /\ ToSet(t) \subseteq ToSet(s) \cup {Frame} /\ (Single(s) => Single(t))
  <2>1. CASE Len(a) < 2
    <3>1. /\ Without(s, {Frame}) \in Seq(1..(MaxIds + 2))
          /\ ToSet(Without(s, {Frame})) = ToSet(s) \ {Frame}
          /\ Single(s) => Single(Without(s, {Frame}))
      BY <1>1, WithoutIs
    <3>2. t = Without(s, {Frame})
      BY <2>1
    <3> QED
      BY <3>1, <3>2, IdsAre
  <2>2. CASE ~(Len(a) < 2) /\ Frame \in ToSet(s)
    <3>1. Contains(s, Frame)
      BY <1>1, <2>2, SeqDom DEF Contains
    <3>2. t = s
      BY <2>2, <3>1
    <3> QED
      BY <1>1, <3>2
  <2>3. CASE ~(Len(a) < 2) /\ Frame \notin ToSet(s)
    <3>1. ~Contains(s, Frame)
      BY <1>1, <2>3, SeqDom DEF Contains
    <3>2. t = Append(s, Frame)
      BY <2>3, <3>1
    <3>3. /\ Append(s, Frame) \in Seq(1..(MaxIds + 2))
          /\ ToSet(Append(s, Frame)) = ToSet(s) \cup {Frame}
          /\ Single(s) => Single(Append(s, Frame))
      BY <1>1, <2>3, IdsAre, AppendIs
    <3> QED
      BY <3>2, <3>3, IdsAre
  <2> QED
    BY <2>1, <2>2, <2>3
<1> HIDE DEF t
<1>4. kids' \in Lists /\ kids'[Main] = t /\ \A d \in Ids : kids'[d] = k[d]
  BY <1>1, <1>2, <1>3 DEF Lists
<1> QED
  BY <1>2, <1>3, <1>4

\* Some of the components that the lists hold, each list in any order.
Fewer(k) ==
    /\ k \in Lists
    /\ \A c \in Ids : ToSet(k[c]) \subseteq ToSet(kids[c])
    /\ ToSet(k[Main]) \subseteq ToSet(kids[Main]) \cup {Frame, Null}
    /\ \A c \in Canvases : Single(kids[c]) => Single(k[c])

LEMMA TreeIs ==
    ASSUME IInv, ~stale
    PROVE  /\ Elements(kids) \subseteq Ids /\ ToSet(kids[Main]) \cap Ids \subseteq Elements(kids)
           /\ \A c \in Elements(kids) : ToSet(kids[c]) \subseteq Elements(kids)
           /\ \A c \in {Main} \cup Elements(kids) : Single(kids[c])
           /\ \A c, d \in {Main} \cup Elements(kids) : c # d => ToSet(kids[c]) \cap ToSet(kids[d]) = {}
           /\ \A c \in {Main} \cup Elements(kids) : \A o \in ToSet(kids[c]) \cap Ids :
                 at[o] = NameOf(kind, origin, c)
           /\ \A c \in Elements(kids) : \A o \in ToSet(kids[c]) :
                 kind[o] # kind[c] /\ \A p \in ToSet(kids[o]) : kind[p] = "view"
           /\ \A o \in Elements(kids) : Made(kind, last, o)
<1>1. Tree(kids, kind, origin, at, Elements(kids)) /\ MadeInv
  BY DEF IInv, TreeInv
<1>2. ASSUME NEW o \in Elements(kids) PROVE Made(kind, last, o)
  <2>1. Elements(kids) \subseteq Ids
    BY <1>1 DEF Tree
  <2>2. \E c \in {Main} \cup Elements(kids) : o \in ToSet(kids[c])
    BY ElementsHeld
  <2>3. \E c \in Canvases : o \in ToSet(kids[c]) \cap Ids
    BY <2>1, <2>2, IdsAre
  <2> QED
    BY <1>1, <2>3 DEF MadeInv
<1>3. Elements(kids) \subseteq Ids /\ ToSet(kids[Main]) \cap Ids \subseteq Elements(kids)
  BY <1>1 DEF Tree
<1>4. Branches(kids, kind, origin, at, Elements(kids), {Main} \cup Elements(kids))
  BY <1>1 DEF Tree
<1> QED
  BY <1>2, <1>3, <1>4 DEF Branches

\* Lists that hold fewer components are a tree.
LEMMA FewerTree ==
    ASSUME IInv, ~stale, NEW k, Fewer(k)
    PROVE  Elements(k) \subseteq Elements(kids) /\ Tree(k, kind, origin, at, Elements(k))
<1> DEFINE X == Elements(kids)
<1>1. /\ X \subseteq Ids /\ ToSet(kids[Main]) \cap Ids \subseteq X
      /\ \A c \in X : ToSet(kids[c]) \subseteq X
      /\ \A c \in {Main} \cup X : Single(kids[c])
      /\ \A c, d \in {Main} \cup X : c # d => ToSet(kids[c]) \cap ToSet(kids[d]) = {}
      /\ \A c \in {Main} \cup X : \A o \in ToSet(kids[c]) \cap Ids : at[o] = NameOf(kind, origin, c)
      /\ \A c \in X : \A o \in ToSet(kids[c]) :
            kind[o] # kind[c] /\ \A p \in ToSet(kids[o]) : kind[p] = "view"
  BY TreeIs
<1> HIDE DEF X
<1>2. /\ k \in Lists /\ \A c \in Ids : ToSet(k[c]) \subseteq ToSet(kids[c])
      /\ ToSet(k[Main]) \subseteq ToSet(kids[Main]) \cup {Frame, Null}
      /\ \A c \in Canvases : Single(kids[c]) => Single(k[c])
      /\ ToSet(k[Main]) \cap Ids \subseteq ToSet(kids[Main])
  BY IdsAre DEF Fewer
<1>3. \A c, d \in {Main} \cup X : c # d => ToSet(k[c]) \cap ToSet(k[d]) = {}
  <2> SUFFICES ASSUME NEW c \in {Main} \cup X, NEW d \in {Main} \cup X, c # d,
                      NEW o \in ToSet(k[c]) \cap ToSet(k[d])
               PROVE  FALSE
    OBVIOUS
  <2>1. o \in Ids
    BY <1>1, <1>2
  <2>2. o \in ToSet(kids[c]) /\ o \in ToSet(kids[d])
    BY <1>1, <1>2, <2>1
  <2> QED
    BY <1>1, <2>2
<1>4. Branches(k, kind, origin, at, X, {Main} \cup X)
  <2>1. \A c \in X : ToSet(k[c]) \subseteq X
    BY <1>1, <1>2
  <2>2. \A c \in {Main} \cup X : Single(k[c])
    BY <1>1, <1>2, IdsAre
  <2>3. \A c \in {Main} \cup X : \A o \in ToSet(k[c]) \cap Ids : at[o] = NameOf(kind, origin, c)
    BY <1>1, <1>2
  <2>4. \A c \in X : \A o \in ToSet(k[c]) :
            kind[o] # kind[c] /\ \A p \in ToSet(k[o]) : kind[p] = "view"
    BY <1>1, <1>2
  <2> QED
    BY <1>3, <2>1, <2>2, <2>3, <2>4 DEF Branches
<1>5. Tree(k, kind, origin, at, X)
  BY <1>1, <1>2, <1>4 DEF Tree
<1>6. \A o \in X : kind[o] = "view" => k[o] = <<>>
  <2> SUFFICES ASSUME NEW o \in X, kind[o] = "view" PROVE k[o] = <<>>
    OBVIOUS
  <2>1. kids[o] = <<>> /\ o \in Canvases /\ o \in Ids
    BY <1>1, IdsAre DEF IInv, Types
  <2>2. k[o] \in Seq(1..(MaxIds + 2)) /\ ToSet(k[o]) = {}
    BY <1>2, <2>1, EmptyIs DEF Lists
  <2> QED
    BY <2>2, NothingHeld
<1> QED
  BY <1>5, <1>6, ElementsTree DEF X

\* A step that leaves some of the components, and selects some of those there were.
LEMMA KeptStep ==
    ASSUME IInv, ~stale, Fewer(kids'), UNCHANGED <<kind, at, origin, last>>,
           cur' \in {None, Frame} \cup {o \in Ids : Made(kind, last, o)},
           area' \in Seq(Ids), Len(area') <= MaxMarks,
           \A o \in ToSet(area') : Made(kind, last, o),
           ToSet(area') \cap Elements(kids) \subseteq ToSet(kids[Main]),
           stale' \in BOOLEAN, ~stale' => CopyInv'
    PROVE  IInv'
<1>1. /\ kids' \in Lists /\ \A c \in Ids : ToSet(kids'[c]) \subseteq ToSet(kids[c])
      /\ ToSet(kids'[Main]) \cap Ids \subseteq ToSet(kids[Main])
  BY IdsAre DEF Fewer
<1>2. Types'
  <2>1. \A o \in Ids : kind[o] = "view" => kids'[o] = <<>>
    <3> SUFFICES ASSUME NEW o \in Ids, kind[o] = "view" PROVE kids'[o] = <<>>
      OBVIOUS
    <3>1. kids[o] = <<>> /\ o \in Canvases
      BY IdsAre DEF IInv, Types
    <3>2. kids'[o] \in Seq(1..(MaxIds + 2)) /\ ToSet(kids'[o]) = {}
      BY <1>1, <3>1, EmptyIs DEF Lists
    <3> QED
      BY <3>2, NothingHeld
  <2>2. Types
    BY DEF IInv
  <2> QED
    BY <1>1, <2>1, <2>2 DEF Types
<1>3. MadeInv'
  <2>1. \A c \in Canvases : \A o \in ToSet(kids'[c]) \cap Ids : Made(kind, last, o)
    <3> SUFFICES ASSUME NEW c \in Canvases, NEW o \in ToSet(kids'[c]) \cap Ids PROVE Made(kind, last, o)
      OBVIOUS
    <3>1. o \in ToSet(kids[c]) \cap Ids
      BY <1>1, IdsAre
    <3> QED
      BY <3>1 DEF IInv, MadeInv
  <2>2. cur' \in Ids => Made(kind, last, cur')
    BY IdsAre DEF None, Main
  <2>3. OriginInv'
    BY DEF IInv, MadeInv, OriginInv
  <2> QED
    BY <2>1, <2>2, <2>3 DEF MadeInv, Made
<1>4. TreeInv' /\ Elements(kids') \subseteq Elements(kids)
  BY FewerTree DEF TreeInv
<1>5. AreaInv'
  <2> SUFFICES ASSUME NEW x \in ToSet(area'), x \in Elements(kids') PROVE x \in ToSet(kids'[Main])
    BY DEF AreaInv
  <2>1. x \in ToSet(kids[Main])
    BY <1>4
  <2>2. PICK c \in {Main} \cup Elements(kids') : x \in ToSet(kids'[c])
    BY ElementsHeld
  <2>3. CASE c # Main
    <3>1. c \in Elements(kids) /\ c \in Ids
      BY <1>4, <2>2, <2>3, TreeIs
    <3>2. x \in ToSet(kids[c])
      BY <1>1, <2>2, <3>1
    <3> QED
      BY <2>1, <2>3, <3>1, <3>2, TreeIs
  <2> QED
    BY <2>2, <2>3
<1> QED
  BY <1>2, <1>3, <1>4, <1>5 DEF IInv

-------------------------------------------------------------------------------
(* Selecting                                                               *)

LEMMA SeqNarrow ==
    ASSUME NEW S, NEW s \in Seq(S), NEW T, ToSet(s) \subseteq T
    PROVE  s \in Seq(T)
<1>1. Len(s) \in Nat /\ DOMAIN s = 1..Len(s) /\ s \in [1..Len(s) -> S]
  BY SeqDom
<1>2. \A i \in 1..Len(s) : s[i] \in T
  BY <1>1 DEF ToSet
<1>3. s \in [1..Len(s) -> T]
  BY <1>1, <1>2
<1> QED
  BY <1>1, <1>3

\* What may be selected: components that there are or were, those that there are on
\* the main canvas.
Selectable == {o \in Ids : Made(kind, last, o) /\ (o \in Elements(kids) => o \in ToSet(kids[Main]))}

LEMMA AreaSelectable ==
    ASSUME IInv, ~stale
    PROVE  area \in Seq(Ids) /\ ToSet(area) \subseteq Selectable /\ Len(area) <= MaxMarks
<1>1. area \in Seq(Ids) /\ Len(area) <= MaxMarks
  BY DEF IInv, Types
<1>2. ToSet(area) \subseteq Ids
  BY <1>1, SeqDom
<1> QED
  BY <1>1, <1>2 DEF IInv, MadeInv, AreaInv, Selectable

LEMMA NothingSelected ==
    <<>> \in Seq(Ids) /\ ToSet(<<>>) \subseteq Selectable /\ Len(<<>>) <= MaxMarks
  BY EmptyIs, EmptySeq, BoundAssumption

LEMMA SelectFewer ==
    ASSUME NEW k, Fewer(k), NEW a \in Seq(Ids), NEW c, Select(k, a, c)
    PROVE  Fewer(kids') /\ area' = a /\ cur' \in {c, Frame}
<1>1. k \in Lists
  BY DEF Fewer
<1>2. /\ kids' \in Lists /\ area' = a /\ cur' \in {c, Frame}
      /\ \A d \in Ids : kids'[d] = k[d]
      /\ ToSet(kids'[Main]) \subseteq ToSet(k[Main]) \cup {Frame}
      /\ Single(k[Main]) => Single(kids'[Main])
  BY <1>1, SelectIs
<1>3. \A d \in Canvases : Single(k[d]) => Single(kids'[d])
  BY <1>2, IdsAre
<1> QED
  BY <1>2, <1>3 DEF Fewer

LEMMA KidsFewer ==
    ASSUME IInv
    PROVE  Fewer(kids)
  BY DEF IInv, Types, Fewer

\* A step that leaves some of the components and selects a.
LEMMA SelectStep ==
    ASSUME IInv, ~stale, NEW k, Fewer(k), NEW a \in Seq(Ids), NEW c \in {None, cur},
           Select(k, a, c), UNCHANGED <<kind, at, origin, last>>,
           ToSet(a) \subseteq Selectable, Len(a) <= MaxMarks,
           stale' \in BOOLEAN, ~stale' => CopyInv'
    PROVE  IInv'
<1>1. Fewer(kids') /\ area' = a /\ cur' \in {c, Frame}
  BY SelectFewer
<1>2. cur' \in {None, Frame} \cup {o \in Ids : Made(kind, last, o)}
  BY <1>1 DEF IInv, Types, MadeInv
<1>3. /\ \A o \in ToSet(area') : Made(kind, last, o)
      /\ ToSet(area') \cap Elements(kids) \subseteq ToSet(kids[Main])
  BY <1>1 DEF Selectable
<1> QED
  BY <1>1, <1>2, <1>3, KeptStep

LEMMA MarkedIs ==
    ASSUME IInv, ~stale, NEW o \in Elements(kids), NEW S \in SUBSET Ids
    PROVE  Marked(o, S) \in Seq(Ids) /\ ToSet(Marked(o, S)) \subseteq Selectable
<1> DEFINE K == {x \in S : at[x] = Main}
           t == <<o>> \o (IF cur # o /\ cur \in Ids THEN <<cur>> ELSE <<>>)
<1>0. o \in Ids /\ Made(kind, last, o)
  BY TreeIs
<1>1. t \in Seq({x \in Ids : Made(kind, last, x)})
  <2> DEFINE M == {x \in Ids : Made(kind, last, x)}
  <2>1. o \in M
    BY <1>0
  <2>2. cur \in Ids => cur \in M
    BY DEF IInv, MadeInv
  <2> HIDE DEF M
  <2>3. <<o>> \in Seq(M) /\ <<>> \in Seq(M) /\ (cur \in Ids => <<cur>> \in Seq(M))
    BY <2>1, <2>2, OneIs, EmptySeq
  <2>4. (IF cur # o /\ cur \in Ids THEN <<cur>> ELSE <<>>) \in Seq(M)
    BY <2>3
  <2>5. t \in Seq(M)
    BY <2>3, <2>4, ConcatIs
  <2> QED
    BY <2>5 DEF M
<1>2. /\ Only(t, K) \in Seq({x \in Ids : Made(kind, last, x)}) /\ ToSet(Only(t, K)) = ToSet(t) \cap K
      /\ ToSet(t) \subseteq {x \in Ids : Made(kind, last, x)}
  <2> HIDE DEF t, K
  <2> QED
    BY <1>1, OnlyIs, SeqDom
<1>3. ToSet(Only(t, K)) \subseteq Selectable
  <2> SUFFICES ASSUME NEW x \in ToSet(Only(t, K)) PROVE x \in Selectable
    OBVIOUS
  <2>1. x \in Ids /\ Made(kind, last, x) /\ at[x] = Main
    <3>1. x \in K /\ x \in ToSet(t)
      <4> HIDE DEF K, t
      <4> QED
        BY <1>2
    <3> QED
      BY <1>2, <3>1
  <2>2. ASSUME x \in Elements(kids) PROVE x \in ToSet(kids[Main])
    <3>1. PICK c \in {Main} \cup Elements(kids) : x \in ToSet(kids[c])
      BY <2>2, ElementsHeld
    <3>2. NameOf(kind, origin, c) = Main
      BY <2>1, <3>1, TreeIs
    <3>4. origin \in [Ids -> Ids] /\ c \in {Main} \cup Ids
      BY <3>1, IdsAre DEF IInv, Types, Elements
    <3>3. c = Main
      BY <3>2, <3>4, IdsAre DEF NameOf
    <3> QED
      BY <3>1, <3>3
  <2> QED
    BY <2>1, <2>2 DEF Selectable
<1>4. Only(t, K) \in Seq(Ids)
  BY <1>2, <1>3, SeqNarrow DEF Selectable
<1>5. area \in Seq(Ids) /\ ToSet(area) \subseteq Selectable
  BY AreaSelectable
<1>6. Marked(o, S) = area \o Only(t, K)
  BY DEF Marked
<1>7. area \o Only(t, K) \in Seq(Ids) /\ ToSet(area \o Only(t, K)) = ToSet(area) \cup ToSet(Only(t, K))
  <2> HIDE DEF t, K
  <2> QED
    BY <1>4, <1>5, ConcatIs
<1> QED
  BY <1>3, <1>5, <1>6, <1>7

\* A range of a list.
LEMMA RangeHeld ==
    ASSUME NEW S, NEW s \in Seq(S), NEW j \in 1..Len(s), NEW i \in 1..j
    PROVE  SubSeq(s, i, j) \in Seq(S) /\ ToSet(SubSeq(s, i, j)) \subseteq ToSet(s)
<1>1. Len(s) \in Nat /\ DOMAIN s = 1..Len(s)
  BY SeqDom
<1>2. i \in 1..(Len(s) + 1) /\ j \in 0..Len(s) /\ \A m \in i..j : m \in DOMAIN s
  BY <1>1
<1>3. SubSeq(s, i, j) \in Seq(S) /\ \A x : x \in ToSet(SubSeq(s, i, j)) <=> \E m \in i..j : x = s[m]
  BY <1>2, SubSeqIs
<1>4. \A m \in i..j : s[m] \in ToSet(s)
  BY <1>2 DEF ToSet
<1> QED
  BY <1>3, <1>4

LEMMA SelectingKeeps ==
    ASSUME IInv, ~stale, Selecting
    PROVE  IInv'
<1>1. IInv /\ Fewer(kids) /\ stale \in BOOLEAN /\ CopyInv
  BY KidsFewer DEF IInv, Types
<1>2. area \in Seq(Ids) /\ ToSet(area) \subseteq Selectable /\ Len(area) <= MaxMarks
  BY AreaSelectable
<1>3. kids[Main] \in Seq(1..(MaxIds + 2)) /\ ToSet(kids[Main]) \cap Ids \subseteq Elements(kids) /\ Single(kids[Main])
  BY TreeIs, IdsAre DEF IInv, Types, Lists
<1>4. ToSet(kids[Main]) \cap Ids \subseteq Selectable
  BY <1>3, TreeIs DEF Selectable
<1>5. UNCHANGED <<kind, origin, last, clip, pending>> => CopyInv'
  BY <1>1 DEF CopyInv
<1>6. ASSUME NEW o \in Ids, ClickOnCanvas(o) PROVE IInv'
  <2>1. o \in Elements(kids) /\ cur' = o /\ UNCHANGED <<kids, kind, at, origin, last, area, clip, pending, stale>>
    BY <1>6 DEF ClickOnCanvas
  <2>2. Made(kind, last, o)
    BY <2>1, TreeIs
  <2>3. Fewer(kids') /\ CopyInv'
    BY <1>1, <1>5, <2>1
  <2>4. ToSet(area') \cap Elements(kids) \subseteq ToSet(kids[Main]) /\ \A x \in ToSet(area') : Made(kind, last, x)
    BY <1>2, <2>1 DEF Selectable
  <2> QED
    BY <1>1, <1>2, <2>1, <2>2, <2>3, <2>4, KeptStep
<1>7. ASSUME ClickBeside PROVE IInv'
  <2>1. Select(kids, <<>>, None) /\ UNCHANGED <<kind, at, origin, last, clip, pending, stale>>
    BY <1>7 DEF ClickBeside
  <2> QED
    BY <1>1, <1>5, <2>1, NothingSelected, SelectStep
<1>8. ASSUME NEW S \in SUBSET (ToSet(kids[Main]) \cap Ids), RubberBand(S) PROVE IInv'
  <2> DEFINE a == Only(kids[Main], S)
  <2>1. Select(kids, a, None) /\ UNCHANGED <<kind, at, origin, last, clip, pending, stale>>
    BY <1>8 DEF RubberBand
  <2>2. Cardinality(S) <= MaxMarks
    BY <1>8, BoundAssumption DEF RubberBand
  <2>3. a \in Seq(1..(MaxIds + 2)) /\ ToSet(a) = S /\ Single(a)
    <3>1. ToSet(kids[Main]) \cap S = S
      OBVIOUS
    <3> QED
      BY <1>3, <3>1, OnlyIs
  <2> HIDE DEF a
  <2>4. Len(a) <= MaxMarks
    BY <2>2, <2>3, SingleLen
  <2>5. a \in Seq(Ids) /\ ToSet(a) \subseteq Selectable
    BY <1>4, <2>3, SeqNarrow
  <2> QED
    BY <1>1, <1>5, <2>1, <2>4, <2>5, SelectStep
<1>9. ASSUME NEW o \in Ids, MarkOnCanvas(o) PROVE IInv'
  <2> DEFINE a == Marked(o, Ids)
  <2>1. /\ o \in Elements(kids) /\ Len(a) <= MaxMarks
        /\ Select(kids, a, cur) /\ UNCHANGED <<kind, at, origin, last, clip, pending, stale>>
    BY <1>9 DEF MarkOnCanvas
  <2>2. a \in Seq(Ids) /\ ToSet(a) \subseteq Selectable
    BY <2>1, MarkedIs
  <2> HIDE DEF a
  <2> QED
    BY <1>1, <1>5, <2>1, <2>2, SelectStep
<1>10. ASSUME NEW o \in Ids, MarkInList(o) PROVE IInv'
  <2> DEFINE a == Marked(o, {x \in Ids : kind[x] # "DeTabs"})
  <2>1. /\ o \in Elements(kids) /\ Len(a) <= MaxMarks
        /\ Select(kids, a, None) /\ UNCHANGED <<kind, at, origin, last, clip, pending, stale>>
    BY <1>3, <1>10 DEF MarkInList
  <2>2. a \in Seq(Ids) /\ ToSet(a) \subseteq Selectable
    BY <2>1, MarkedIs
  <2> HIDE DEF a
  <2> QED
    BY <1>1, <1>5, <2>1, <2>2, SelectStep
<1>11. ASSUME NEW j \in 1..Len(kids[Main]), NEW i \in 1..j, MarkRange(i, j) PROVE IInv'
  <2> DEFINE K == {x \in Ids \ ToSet(area) : JoinsGroup(x)}
             t == SubSeq(kids[Main], i, j)
             a == area \o Only(t, K)
  <2>1. Len(a) <= MaxMarks /\ Select(kids, a, None) /\ UNCHANGED <<kind, at, origin, last, clip, pending, stale>>
    BY <1>11 DEF MarkRange

  <2>3. t \in Seq(1..(MaxIds + 2)) /\ ToSet(t) \subseteq ToSet(kids[Main])
    <3>1. Len(kids[Main]) \in Nat
      BY <1>3, SeqDom
    <3> QED
      BY <1>3, <3>1, RangeHeld
  <2>4. Only(t, K) \in Seq(1..(MaxIds + 2)) /\ ToSet(Only(t, K)) = ToSet(t) \cap K
    <3> HIDE DEF t, K
    <3> QED
      BY <2>3, OnlyIs
  <2>5. Only(t, K) \in Seq(Ids) /\ ToSet(Only(t, K)) \subseteq Selectable
    <3>1. K \subseteq Ids
      OBVIOUS
    <3>2. ToSet(Only(t, K)) \subseteq ToSet(kids[Main]) \cap Ids
      <4> HIDE DEF t, K
      <4> QED
        BY <2>3, <2>4, <3>1
    <3> HIDE DEF t, K
    <3> QED
      BY <1>4, <2>4, <3>2, SeqNarrow
  <2>6. a \in Seq(Ids) /\ ToSet(a) \subseteq Selectable
    <3> HIDE DEF t, K
    <3>1. a \in Seq(Ids) /\ ToSet(a) = ToSet(area) \cup ToSet(Only(t, K))
      BY <1>2, <2>5, ConcatIs
    <3> QED
      BY <1>2, <2>5, <3>1
  <2> HIDE DEF a
  <2> QED
    BY <1>1, <1>5, <2>1, <2>6, SelectStep
<1>12. ASSUME NEW o \in Ids, Unmark(o) PROVE IInv'
  <2> DEFINE a == RemoveFirst(area, o)
  <2>1. o \in ToSet(area) /\ Select(kids, a, cur) /\ UNCHANGED <<kind, at, origin, last, clip, pending, stale>>
    BY <1>12 DEF Unmark
  <2>2. a \in Seq(Ids) /\ Len(a) = Len(area) - 1 /\ ToSet(a) \subseteq ToSet(area)
    BY <1>2, <2>1, RemoveFirstIs
  <2>3. Len(area) \in Nat
    BY <1>2
  <2> HIDE DEF a
  <2>4. Len(a) <= MaxMarks
    BY <1>2, <2>2, <2>3, BoundAssumption
  <2>5. ToSet(a) \subseteq Selectable
    BY <1>2, <2>2
  <2> QED
    BY <1>1, <1>5, <2>1, <2>2, <2>4, <2>5, SelectStep
<1> QED
  BY <1>6, <1>7, <1>8, <1>9, <1>10, <1>11, <1>12 DEF Selecting

-------------------------------------------------------------------------------
(* Deleting, copying, cutting, moving in the layers                        *)

LEMMA PlaceIs ==
    ASSUME NEW o
    PROVE  PlaceOf(o) \in Canvases
<1>1. FoundIn(o) \subseteq Canvases /\ Main \in Canvases
  BY IdsAre DEF FoundIn
<1>2. FoundIn(o) # {} => (CHOOSE c \in FoundIn(o) : TRUE) \in FoundIn(o)
  OBVIOUS
<1> QED
  BY <1>1, <1>2 DEF PlaceOf

\* One list that holds fewer.
LEMMA FewerAt ==
    ASSUME IInv, NEW c \in Canvases, NEW t \in Seq(1..(MaxIds + 2)),
           ToSet(t) \ ToSet(kids[c]) \subseteq (IF c = Main THEN {Null} ELSE {}),
           Single(kids[c]) => Single(t)
    PROVE  Fewer([kids EXCEPT ![c] = t])
<1> DEFINE k == [kids EXCEPT ![c] = t]
<1>1. kids \in Lists
  BY DEF IInv, Types
<1>2. k \in Lists /\ k[c] = t /\ \A d \in Canvases : d # c => k[d] = kids[d]
  BY <1>1 DEF Lists
<1> HIDE DEF k
<1>3. \A d \in Canvases : /\ ToSet(k[d]) \ ToSet(kids[d]) \subseteq (IF d = Main THEN {Null} ELSE {})
                          /\ Single(kids[d]) => Single(k[d])
  BY <1>2
<1>4. Fewer(k)
  BY <1>2, <1>3, IdsAre DEF Fewer
<1> QED
  BY <1>4 DEF k

LEMMA FewerWithout ==
    ASSUME IInv, NEW c \in Canvases, NEW K
    PROVE  Fewer([kids EXCEPT ![c] = Without(@, K)])
<1>1. kids[c] \in Seq(1..(MaxIds + 2))
  BY DEF IInv, Types, Lists
<1>2. /\ Without(kids[c], K) \in Seq(1..(MaxIds + 2))
      /\ ToSet(Without(kids[c], K)) = ToSet(kids[c]) \ K
      /\ Single(kids[c]) => Single(Without(kids[c], K))
  BY <1>1, WithoutIs
<1> DEFINE t == Without(kids[c], K)
<1>3. t \in Seq(1..(MaxIds + 2)) /\ ToSet(t) \subseteq ToSet(kids[c]) /\ (Single(kids[c]) => Single(t))
  BY <1>2
<1>4. [kids EXCEPT ![c] = Without(@, K)] = [kids EXCEPT ![c] = t]
  OBVIOUS
<1> HIDE DEF t
<1>5. Fewer([kids EXCEPT ![c] = t])
  BY <1>3, FewerAt
<1> QED
  BY <1>4, <1>5

LEMMA FewerDrop ==
    ASSUME IInv, NEW c \in Canvases, NEW o
    PROVE  Fewer(DropAt(c, o))
<1> DEFINE s == kids[c]
           t == IF o \in ToSet(s) THEN RemoveFirst(s, o)
                ELSE IF s = <<>> THEN s ELSE Tail(s)
<1>1. s \in Seq(1..(MaxIds + 2))
  BY DEF IInv, Types, Lists
<1>2. t \in Seq(1..(MaxIds + 2)) /\ ToSet(t) \subseteq ToSet(s) /\ (Single(s) => Single(t))
  <2> HIDE DEF s
  <2>1. CASE o \in ToSet(s)
    <3>1. /\ RemoveFirst(s, o) \in Seq(1..(MaxIds + 2))
          /\ ToSet(RemoveFirst(s, o)) \subseteq ToSet(s)
          /\ Single(s) => Single(RemoveFirst(s, o))
      BY <1>1, <2>1, RemoveFirstIs
    <3>2. t = RemoveFirst(s, o)
      BY <2>1
    <3> QED
      BY <3>1, <3>2
  <2>2. CASE o \notin ToSet(s) /\ s = <<>>
    BY <1>1, <2>2
  <2>3. CASE o \notin ToSet(s) /\ s # <<>>
    <3>1. /\ Tail(s) \in Seq(1..(MaxIds + 2)) /\ ToSet(Tail(s)) \subseteq ToSet(s)
          /\ Single(s) => Single(Tail(s))
      BY <1>1, <2>3, TailIs
    <3>2. t = Tail(s)
      BY <2>3
    <3> QED
      BY <3>1, <3>2
  <2> QED
    BY <2>1, <2>2, <2>3
<1>3. DropAt(c, o) = [kids EXCEPT ![c] = t]
  BY DEF DropAt
<1> HIDE DEF t
<1>4. Fewer([kids EXCEPT ![c] = t])
  BY <1>2, FewerAt
<1> QED
  BY <1>3, <1>4

LEMMA DeletingStep ==
    ASSUME IInv, ~stale, DeleteKey \/ DeleteInMenu
    PROVE  IInv'
<1>1. stale \in BOOLEAN /\ CopyInv /\ cur \in {None, Frame} \cup Ids
  BY DEF IInv, Types
<1>2. UNCHANGED <<kind, at, origin, last, clip, pending, stale>> => stale' \in BOOLEAN /\ CopyInv'
  BY <1>1 DEF CopyInv
<1>3. ASSUME DeleteKey PROVE IInv'
  <2>1. UNCHANGED <<kind, at, origin, last, clip, pending, stale>>
    BY <1>3 DEF DeleteKey
  <2>2. CASE cur # Frame
    <3>1. kids' = DropAt(PlaceOf(cur), cur) /\ area' = area /\ cur' = cur
      BY <1>3, <2>2 DEF DeleteKey
    <3>2. Fewer(kids')
      BY <3>1, PlaceIs, FewerDrop
    <3>3. cur' \in {None, Frame} \cup {o \in Ids : Made(kind, last, o)}
      BY <1>1, <3>1 DEF IInv, MadeInv
    <3>4. area' \in Seq(Ids) /\ ToSet(area') \subseteq Selectable /\ Len(area') <= MaxMarks
      BY <3>1, AreaSelectable
    <3>5. /\ \A o \in ToSet(area') : Made(kind, last, o)
          /\ ToSet(area') \cap Elements(kids) \subseteq ToSet(kids[Main])
      BY <3>4 DEF Selectable
    <3> QED
      BY <1>1, <1>2, <2>1, <3>2, <3>3, <3>4, <3>5, KeptStep
  <2>3. CASE cur = Frame
    <3>1. Select([kids EXCEPT ![Main] = Without(@, ToSet(area))], <<>>, cur)
      BY <1>3, <2>3 DEF DeleteKey
    <3> DEFINE k == [kids EXCEPT ![Main] = Without(@, ToSet(area))]
    <3>2. Fewer(k)
      BY IdsAre, FewerWithout
    <3>3. Select(k, <<>>, cur)
      BY <3>1
    <3> HIDE DEF k
    <3> QED
      BY <1>1, <1>2, <2>1, <3>2, <3>3, NothingSelected, SelectStep
  <2> QED
    BY <2>2, <2>3
<1>4. ASSUME DeleteInMenu PROVE IInv'
  <2> DEFINE k == IF cur \in Ids THEN [kids EXCEPT ![PlaceOf(cur)] = Without(@, {cur})]
                  ELSE [kids EXCEPT ![Main] = Without(@, ToSet(area))]
  <2>1. UNCHANGED <<kind, at, origin, last, clip, pending, stale>> /\ Select(k, <<>>, cur)
    BY <1>4 DEF DeleteInMenu
  <2>2. Fewer([kids EXCEPT ![Main] = Without(@, ToSet(area))])
    BY IdsAre, FewerWithout
  <2>3. Fewer([kids EXCEPT ![PlaceOf(cur)] = Without(@, {cur})])
    BY PlaceIs, FewerWithout
  <2>4. Fewer(k)
    BY <2>2, <2>3
  <2> HIDE DEF k
  <2> QED
    BY <1>1, <1>2, <2>1, <2>4, NothingSelected, SelectStep
<1> QED
  BY <1>3, <1>4

\* A copy of components that there are is a tree.
LEMMA CopyIs ==
    ASSUME IInv, ~stale, NEW roots \in Seq(Ids), ToSet(roots) \subseteq Elements(kids)
    PROVE  Copied(kind, origin, last, DeepCopy(roots))
<1> DEFINE E == Elements(kids)
           X == Under(kids, ToSet(roots))
<1>1. /\ E \subseteq Ids
      /\ \A c \in E : ToSet(kids[c]) \subseteq E
      /\ \A c \in {Main} \cup E : Single(kids[c])
      /\ \A c, d \in {Main} \cup E : c # d => ToSet(kids[c]) \cap ToSet(kids[d]) = {}
      /\ \A c \in {Main} \cup E : \A o \in ToSet(kids[c]) \cap Ids : at[o] = NameOf(kind, origin, c)
      /\ \A c \in E : \A o \in ToSet(kids[c]) :
            kind[o] # kind[c] /\ \A p \in ToSet(kids[o]) : kind[p] = "view"
      /\ \A o \in E : Made(kind, last, o)
  BY TreeIs
<1>2. ToSet(roots) \subseteq E
  OBVIOUS
<1>3. \A x : x \in X <=>
             \/ x \in ToSet(roots)
             \/ \E c \in ToSet(roots) \cap Ids : x \in ToSet(kids[c])
             \/ \E c \in ToSet(roots) \cap Ids : \E d \in ToSet(kids[c]) \cap Ids : x \in ToSet(kids[d])
  BY UnderIs
<1>4. /\ kids \in Lists /\ kind \in [Ids -> {"view", "DeTabs", "Group", "free"}]
      /\ at \in [Ids -> Canvases]
      /\ last \in Nat /\ \A o \in Ids : kind[o] = "view" => kids[o] = <<>>
      /\ \A o \in Ids : origin[o] <= o /\ kind[origin[o]] = kind[o] /\ (o > last => origin[o] = o)
  BY IdsAre DEF IInv, Types, MadeInv, OriginInv
<1>5. \A x \in E : \E c \in {Main} \cup E : x \in ToSet(kids[c])
  BY ElementsHeld
<1> HIDE DEF E, X
<1>6. X \subseteq E
  BY <1>1, <1>2, <1>3
<1>7. ASSUME NEW c \in X, NEW o \in ToSet(kids[c]) PROVE o \in X
  <2>1. c \in E /\ c \in Ids /\ o \in E /\ o \in Ids
    BY <1>1, <1>6
  <2>2. CASE c \in ToSet(roots)
    BY <1>3, <2>1, <2>2
  <2>3. ASSUME NEW d \in ToSet(roots) \cap Ids, c \in ToSet(kids[d]) PROVE o \in X
    BY <1>3, <2>1, <2>3
  <2>4. ASSUME NEW d \in ToSet(roots) \cap Ids, NEW e \in ToSet(kids[d]) \cap Ids, c \in ToSet(kids[e])
        PROVE  FALSE
    <3>1. kind[c] = "view"
      BY <1>1, <1>2, <2>4
    <3>2. kids[c] = <<>>
      BY <1>4, <2>1, <3>1
    <3> QED
      BY <1>7, <3>2, EmptyIs
  <2> QED
    BY <1>3, <2>2, <2>3, <2>4
<1> DEFINE k == [o \in X |-> kids[o]]
           a == [o \in X |-> at[o]]
<1>8. X \in SUBSET Ids /\ \A o \in X : k[o] = kids[o] /\ a[o] = at[o]
  BY <1>1, <1>6
<1>9. k \in [X -> Seq(X)]
  <2> SUFFICES ASSUME NEW o \in X PROVE kids[o] \in Seq(X)
    OBVIOUS
  <2>1. o \in Canvases
    BY <1>8, IdsAre
  <2>2. kids[o] \in Seq(1..(MaxIds + 2)) /\ ToSet(kids[o]) \subseteq X
    BY <1>4, <1>7, <2>1 DEF Lists
  <2> QED
    BY <2>2, SeqNarrow
<1>10. a \in [X -> Canvases]
  BY <1>4, <1>8
<1>11. roots \in Seq(X)
  <2>1. ToSet(roots) \subseteq X
    BY <1>3
  <2> QED
    BY <2>1, SeqNarrow
<1>12. DOMAIN k = X /\ DOMAIN a = X
  OBVIOUS
<1> HIDE DEF k, a
<1>13. Branches(k, kind, origin, a, X, X)
  <2>1. \A c \in X : ToSet(k[c]) \subseteq X
    BY <1>7, <1>8
  <2>2. \A c \in X : Single(k[c])
    BY <1>1, <1>6, <1>8
  <2>3. \A c, d \in X : c # d => ToSet(k[c]) \cap ToSet(k[d]) = {}
    BY <1>1, <1>6, <1>8
  <2>4. \A c \in X : \A o \in ToSet(k[c]) \cap Ids : a[o] = NameOf(kind, origin, c)
    BY <1>1, <1>6, <1>8, <2>1
  <2>5. \A c \in X : \A o \in ToSet(k[c]) : kind[o] # kind[c] /\ \A p \in ToSet(k[o]) : kind[p] = "view"
    BY <1>1, <1>6, <1>8, <2>1
  <2> QED
    BY <2>1, <2>2, <2>3, <2>4, <2>5 DEF Branches
<1>14. \A o \in X : Made(kind, last, o) /\ (kind[o] = "view" => k[o] = <<>>)
  BY <1>1, <1>4, <1>6, <1>8
<1>15. ASSUME NEW r \in ToSet(roots), a[r] \in Ids
       PROVE  /\ a[r] <= last
              /\ \/ kind[a[r]] = "Group"
                 \/ /\ kind[a[r]] = "DeTabs" /\ kind[r] # "DeTabs"
                    /\ \A p \in ToSet(k[r]) : kind[p] = "view"
  <2>1. r \in E /\ r \in X /\ r \in Ids
    BY <1>1, <1>2, <1>3
  <2>2. PICK c \in {Main} \cup E : r \in ToSet(kids[c])
    BY <1>5, <2>1
  <2>3. a[r] = NameOf(kind, origin, c)
    BY <1>1, <1>8, <2>1, <2>2
  <2>4. c \in E
    BY <1>15, <2>3, IdsAre DEF NameOf
  <2>5. Made(kind, last, c) /\ c \in Ids
    BY <1>1, <2>4
  <2>9. ASSUME kind[c] = "Group" PROVE a[r] <= last /\ kind[a[r]] = "Group"
    <3>3. origin \in [Ids -> Ids] /\ Ids \subseteq Nat
      BY DEF IInv, Types, Ids
    <3>2. origin[c] \in Nat /\ c \in Nat
      BY <2>5, <3>3
    <3>1. a[r] = origin[c]
      BY <2>3, <2>4, <2>5, <2>9, IdsAre DEF NameOf
    <3> QED
      BY <1>4, <2>5, <2>9, <3>1, <3>2 DEF Made
  <2>10. kind[c] # "Group" => a[r] = c
    BY <2>3 DEF NameOf
  <2>6. kind[c] # "view"
    BY <1>4, <2>2, <2>5, EmptyIs
  <2>7. kind[c] # "Group" => kind[c] = "DeTabs"
    BY <1>4, <2>4, <2>5, <2>6 DEF Made
  <2>8. kind[r] # kind[c] /\ \A p \in ToSet(kids[r]) : kind[p] = "view"
    BY <1>1, <2>2, <2>4
  <2> QED
    BY <1>8, <2>1, <2>4, <2>5, <2>7, <2>8, <2>9, <2>10 DEF Made
<1> DEFINE C == [roots |-> roots, kids |-> k, at |-> a]
<1>16. C.roots = roots /\ C.kids = k /\ C.at = a /\ DOMAIN C.kids = X
  BY <1>12
<1>17. DeepCopy(roots) = C
  BY DEF DeepCopy, X, k, a
<1> HIDE DEF C
<1>18. Copied(kind, origin, last, C)
  BY <1>8, <1>9, <1>10, <1>11, <1>12, <1>13, <1>14, <1>15, <1>16 DEF Copied
<1> QED
  BY <1>17, <1>18

LEMMA ChosenIs ==
    ASSUME IInv
    PROVE  Chosen \in Seq(Ids) /\ (~Gone => ToSet(Chosen) \subseteq Elements(kids))
<1>1. area \in Seq(Ids)
  BY DEF IInv, Types
<1>2. cur \in Ids => <<cur>> \in Seq(Ids)
  BY OneIs
<1> QED
  BY <1>1, <1>2 DEF Chosen, Gone

\* The copy is as long as what is chosen.
LEMMA ClipIs ==
    ASSUME IInv, ~stale, Chosen # <<>>, clip' = DeepCopy(Chosen), stale' = (stale \/ Gone),
           UNCHANGED <<kind, origin, last, pending>>
    PROVE  stale' \in BOOLEAN /\ (~stale' => CopyInv')
<1>1. CopyInv /\ Chosen \in Seq(Ids) /\ (~Gone => ToSet(Chosen) \subseteq Elements(kids))
  BY ChosenIs DEF IInv
<1>2. stale' \in BOOLEAN /\ (~stale' => ~Gone)
  BY DEF Gone
<1>3. ASSUME ~Gone PROVE CopyInv'
  <2>1. Copied(kind, origin, last, clip')
    BY <1>1, <1>3, CopyIs
  <2>2. clip'.roots = Chosen
    BY DEF DeepCopy
  <2> HIDE DEF CopyInv
  <2>3. DOMAIN pending = 1..MaxEdits /\ \A n \in 1..MaxEdits : Running(kind, origin, last, pending[n])
    BY <1>1 DEF CopyInv
  <2>4. /\ Copied(kind, origin, last, clip')
        /\ clip' = NoClip \/ clip'.roots # <<>>
        /\ DOMAIN pending' = 1..MaxEdits
        /\ \A n \in 1..MaxEdits : Running(kind, origin, last, pending'[n])
    BY <2>1, <2>2, <2>3
  <2> QED
    BY <2>4 DEF CopyInv
<1> QED
  BY <1>2, <1>3

\* What stays selected and current, and what the components were.
LEMMA Unselecting ==
    ASSUME IInv, ~stale, Fewer(kids'), UNCHANGED <<kind, at, origin, last, cur>>,
           area' = area \/ area' = <<>>, stale' \in BOOLEAN, ~stale' => CopyInv'
    PROVE  IInv'
<1>1. cur' \in {None, Frame} \cup {o \in Ids : Made(kind, last, o)}
  BY DEF IInv, Types, MadeInv
<1>2. area' \in Seq(Ids) /\ ToSet(area') \subseteq Selectable /\ Len(area') <= MaxMarks
  BY AreaSelectable, NothingSelected
<1>3. /\ \A o \in ToSet(area') : Made(kind, last, o)
      /\ ToSet(area') \cap Elements(kids) \subseteq ToSet(kids[Main])
  BY <1>2 DEF Selectable
<1> QED
  BY <1>1, <1>2, <1>3, KeptStep

LEMMA CopyStep ==
    ASSUME IInv, ~stale, Copy \/ Paste \/ ComposeOne
    PROVE  IInv'
<1>1. Fewer(kids) /\ stale \in BOOLEAN /\ CopyInv
  BY KidsFewer DEF IInv, Types
<1>2. ASSUME Copy PROVE IInv'
  <2>1. /\ Chosen # <<>> /\ clip' = DeepCopy(Chosen) /\ stale' = (stale \/ Gone)
        /\ UNCHANGED <<kids, kind, at, origin, last, cur, area, pending>>
    BY <1>2 DEF Copy
  <2>2. stale' \in BOOLEAN /\ (~stale' => CopyInv')
    BY <2>1, ClipIs
  <2>3. Fewer(kids')
    BY <1>1, <2>1
  <2> QED
    BY <2>1, <2>2, <2>3, Unselecting
<1>3. ASSUME Paste PROVE IInv'
  <2>1. /\ clip # NoClip /\ pending' = [pending EXCEPT ![edits'] = [clip |-> clip, next |-> 1]]
        /\ UNCHANGED <<kids, kind, at, origin, last, cur, area, clip, stale>>
    BY <1>3 DEF Paste
  <2>2. Copied(kind, origin, last, clip) /\ clip.roots # <<>>
    BY <1>1, <2>1 DEF CopyInv
  <2>3. Len(clip.roots) \in Nat /\ Len(clip.roots) # 0
    <3>1. clip.roots \in Seq(DOMAIN clip.kids)
      BY <2>2 DEF Copied
    <3> QED
      BY <2>2, <3>1, EmptySeq, SeqDom
  <2> DEFINE p == [clip |-> clip, next |-> 1]
  <2>4. Running(kind, origin, last, p)
    <3>1. p.clip = clip /\ p.next \in 1..Len(clip.roots) /\ p = [clip |-> p.clip, next |-> p.next]
      BY <2>3
    <3> HIDE DEF p
    <3> QED
      BY <2>2, <3>1 DEF Running
  <2>7. /\ pending' = [pending EXCEPT ![edits'] = p]
        /\ DOMAIN pending = 1..MaxEdits
        /\ \A n \in 1..MaxEdits : Running(kind, origin, last, pending[n])
    BY <1>1, <2>1 DEF CopyInv
  <2> HIDE DEF p
  <2>8. /\ DOMAIN pending' = 1..MaxEdits
        /\ \A n \in 1..MaxEdits : pending'[n] = p \/ pending'[n] = pending[n]
    BY <2>7
  <2>9. \A n \in 1..MaxEdits : Running(kind, origin, last, pending'[n])
    BY <2>4, <2>7, <2>8
  <2>5. CopyInv'
    BY <1>1, <2>1, <2>8, <2>9 DEF CopyInv
  <2>6. Fewer(kids')
    BY <1>1, <2>1
  <2> QED
    BY <1>1, <2>1, <2>5, <2>6, Unselecting
<1>4. ASSUME ComposeOne PROVE IInv'
  <2>1. area' = <<>> /\ UNCHANGED <<kids, kind, at, origin, last, cur, clip, pending, stale>>
    BY <1>4 DEF ComposeOne
  <2>2. Fewer(kids') /\ CopyInv'
    BY <1>1, <2>1 DEF CopyInv
  <2> QED
    BY <1>1, <2>1, <2>2, Unselecting
<1> QED
  BY <1>2, <1>3, <1>4

LEMMA CutStep ==
    ASSUME IInv, ~stale, NEW c \in Canvases, Cut(c)
    PROVE  IInv'
<1>1. /\ Chosen # <<>> /\ clip' = DeepCopy(Chosen) /\ stale' = (stale \/ Gone)
      /\ UNCHANGED <<kind, at, origin, last, pending>>
  BY DEF Cut
<1>2. stale' \in BOOLEAN /\ (~stale' => CopyInv')
  BY <1>1, ClipIs
<1>3. CASE cur \in Ids
  <2>1. kids' = [kids EXCEPT ![c] = Without(@, {cur})] /\ area' = area /\ cur' = cur
    BY <1>3 DEF Cut
  <2>2. Fewer(kids')
    BY <2>1, FewerWithout
  <2> QED
    BY <1>1, <1>2, <2>1, <2>2, Unselecting
<1>4. CASE cur \notin Ids
  <2> DEFINE k == [kids EXCEPT ![Main] = Without(@, ToSet(area))]
  <2>1. Select(k, <<>>, cur)
    BY <1>4 DEF Cut
  <2>2. Fewer(k)
    BY IdsAre, FewerWithout
  <2> HIDE DEF k
  <2> QED
    BY <1>1, <1>2, <2>1, <2>2, NothingSelected, SelectStep
<1> QED
  BY <1>3, <1>4

\* Where a component is in its list.
LEMMA PositionIs ==
    ASSUME NEW S, NEW s \in Seq(S), NEW o
    PROVE  IF o \in ToSet(s) THEN Position(s, o) \in 1..Len(s) /\ s[Position(s, o)] = o
           ELSE Position(s, o) = 1
<1> DEFINE I == {i \in 1..Len(s) : s[i] = o}
           m == CHOOSE x \in I : \A y \in I : x >= y
<1>1. Len(s) \in Nat /\ DOMAIN s = 1..Len(s)
  BY SeqDom
<1>2. Contains(s, o) <=> o \in ToSet(s)
  BY <1>1 DEF Contains, ToSet
<1>3. CASE o \notin ToSet(s)
  BY <1>2, <1>3 DEF Position
<1>4. CASE o \in ToSet(s)
  <2>1. I # {} /\ I \in SUBSET (1..Len(s))
    BY <1>1, <1>4 DEF ToSet
  <2>2. m \in I
    <3>1. \E x \in I : \A y \in I : x >= y
      <4> HIDE DEF I
      <4> QED
        BY <1>1, <2>1, LeastExists
    <3> HIDE DEF I
    <3> QED
      BY <3>1
  <2>3. SelectLastInSeq(s, LAMBDA x : x = o) = m
    BY <2>1 DEF SelectLastInSeq, Max
  <2>4. Position(s, o) = m
    BY <1>2, <1>4, <2>3 DEF Position
  <2> HIDE DEF m
  <2> QED
    BY <1>4, <2>2, <2>4
<1> QED
  BY <1>3, <1>4

\* A component that is found is in the list it is found in.
LEMMA FoundThere ==
    ASSUME cur \in Ids
    PROVE  /\ ~Astray => cur \in ToSet(kids[PlaceOf(cur)])
           /\ Astray => PlaceOf(cur) = Main /\ cur \notin ToSet(kids[Main])
<1>1. FoundIn(cur) # {} => PlaceOf(cur) \in FoundIn(cur)
  BY DEF PlaceOf
<1>2. \A c \in FoundIn(cur) : cur \in ToSet(kids[c])
  BY DEF FoundIn
<1>3. cur \in ToSet(kids[Main]) => Main \in FoundIn(cur)
  BY DEF FoundIn
<1> QED
  BY <1>1, <1>2, <1>3 DEF Astray, PlaceOf

\* Moving a component in its list changes the order only; one that is not found
\* leaves a null for the first of the list.
LEMMA LayerIs ==
    ASSUME IInv, Null \notin ToSet(kids[Main]), cur \in Ids,
           NEW move \in {"up", "down", "top", "bottom"}
    PROVE  LET c == PlaceOf(cur)
               s == kids[c]
               t == Layer(s, Position(s, cur), move)
           IN /\ t \in Seq(1..(MaxIds + 2))
              /\ ToSet(t) \ ToSet(s) \subseteq (IF Astray THEN {Null} ELSE {})
              /\ Single(s) => Single(t)
              /\ ~Astray => ToSet(s) \subseteq ToSet(t)
<1> DEFINE c == PlaceOf(cur)
           s == kids[c]
           i == Position(s, cur)
           t == Layer(s, i, move)
           Good(l) == /\ l \in Seq(1..(MaxIds + 2))
                      /\ ToSet(l) \ ToSet(s) \subseteq (IF Astray THEN {Null} ELSE {})
                      /\ Single(s) => Single(l)
                      /\ ~Astray => ToSet(s) \subseteq ToSet(l)
<1> SUFFICES Good(t)
  OBVIOUS
<1>1. s \in Seq(1..(MaxIds + 2))
  BY PlaceIs DEF IInv, Types, Lists
<1>2. IF cur \in ToSet(s) THEN i \in 1..Len(s) /\ s[i] = cur ELSE i = 1
  <2> HIDE DEF s
  <2> QED
    BY <1>1, PositionIs
<1>3. /\ ~Astray => cur \in ToSet(s)
      /\ Astray => cur \notin ToSet(s) /\ Null \notin ToSet(s)
  BY FoundThere
<1>4. Len(s) \in Nat /\ cur \in 1..(MaxIds + 2) /\ Null \in 1..(MaxIds + 2)
  BY <1>1, SeqDom, IdsAre
<1> HIDE DEF s, i
<1>5. i \in Nat /\ (i < Len(s) \/ i > 1 => i \in 1..Len(s))
  BY <1>2, <1>4
<1>6. Good(s)
  BY <1>1
<1>7. CASE move = "up" /\ i < Len(s)
  <2> DEFINE u == [s EXCEPT ![i] = s[i + 1], ![i + 1] = s[i]]
  <2>1. i + 1 \in 1..Len(s) /\ i \in 1..Len(s)
    BY <1>4, <1>5, <1>7
  <2>2. u \in Seq(1..(MaxIds + 2)) /\ ToSet(u) = ToSet(s) /\ (Single(s) => Single(u))
    BY <1>1, <2>1, SwapIs
  <2>3. t = u
    BY <1>7 DEF Layer
  <2> HIDE DEF u, t
  <2> QED
    BY <2>2, <2>3
<1>8. CASE move = "down" /\ i > 1
  <2> DEFINE u == [s EXCEPT ![i] = s[i - 1], ![i - 1] = s[i]]
  <2>1. i - 1 \in 1..Len(s) /\ i \in 1..Len(s)
    BY <1>4, <1>5, <1>8
  <2>2. u \in Seq(1..(MaxIds + 2)) /\ ToSet(u) = ToSet(s) /\ (Single(s) => Single(u))
    BY <1>1, <2>1, SwapIs
  <2>3. t = u
    BY <1>8 DEF Layer
  <2> HIDE DEF u, t
  <2> QED
    BY <2>2, <2>3
<1> DEFINE r == RemoveAt(s, i)
<1>9. i \in 1..Len(s) =>
        /\ r \in Seq(1..(MaxIds + 2)) /\ ToSet(r) \subseteq ToSet(s) /\ ToSet(s) \ {s[i]} \subseteq ToSet(r)
        /\ Single(s) => Single(r) /\ s[i] \notin ToSet(r)
  BY <1>1, RemoveAtIs
<1> HIDE DEF r
<1>10. CASE move = "top" /\ i < Len(s)
  <2> DEFINE e == IF Astray THEN Null ELSE cur
  <2>1. t = Append(r, e)
    BY <1>10 DEF Layer, r
  <2>2. i \in 1..Len(s) /\ e \in 1..(MaxIds + 2) /\ r \in Seq(1..(MaxIds + 2))
    BY <1>4, <1>5, <1>9, <1>10
  <2>3. e \notin ToSet(r) \/ ~Single(s)
    <3>1. CASE Astray
      BY <1>3, <1>9, <2>2, <3>1
    <3>2. CASE ~Astray
      BY <1>2, <1>3, <1>9, <2>2, <3>2
    <3> QED
      BY <3>1, <3>2
  <2>4. ~Astray => e = cur /\ cur \in ToSet(s) /\ s[i] = cur
    BY <1>2, <1>3
  <2>5. Astray => e = Null
    OBVIOUS
  <2> HIDE DEF e, t
  <2>6. /\ t \in Seq(1..(MaxIds + 2)) /\ ToSet(t) = ToSet(r) \cup {e}
        /\ Single(r) /\ e \notin ToSet(r) => Single(t)
    <3> DEFINE N == 1..(MaxIds + 2)
    <3>1. e \in N /\ r \in Seq(N)
      BY <2>2
    <3> HIDE DEF N
    <3>2. /\ Append(r, e) \in Seq(N) /\ ToSet(Append(r, e)) = ToSet(r) \cup {e}
          /\ Single(r) /\ e \notin ToSet(r) => Single(Append(r, e))
      BY <3>1, AppendIs
    <3> QED
      BY <2>1, <3>2 DEF N
  <2> QED
    BY <1>9, <2>2, <2>3, <2>4, <2>5, <2>6
<1>11. CASE move = "bottom" /\ i > 1
  <2>1. t = <<cur>> \o r
    BY <1>11 DEF Layer, r
  <2>2. i \in 1..Len(s) /\ r \in Seq(1..(MaxIds + 2))
    BY <1>4, <1>5, <1>9, <1>11
  <2>3. cur \in ToSet(s) /\ s[i] = cur
    BY <1>2, <1>11
  <2>4. <<cur>> \in Seq(1..(MaxIds + 2)) /\ ToSet(<<cur>>) = {cur} /\ Single(<<cur>>)
    BY <1>4, OneIs
  <2> HIDE DEF t
  <2>5. /\ t \in Seq(1..(MaxIds + 2)) /\ ToSet(t) = {cur} \cup ToSet(r)
        /\ Single(r) /\ cur \notin ToSet(r) => Single(t)
    <3>1. cur \notin ToSet(r) => {cur} \cap ToSet(r) = {}
      OBVIOUS
    <3> DEFINE N == 1..(MaxIds + 2)
    <3>2. <<cur>> \in Seq(N) /\ r \in Seq(N)
      BY <2>2, <2>4
    <3> HIDE DEF N
    <3>5. <<cur>> \o r \in Seq(N) /\ ToSet(<<cur>> \o r) = ToSet(<<cur>>) \cup ToSet(r)
      BY <3>2, ConcatIs
    <3>3. <<cur>> \o r \in Seq(N) /\ ToSet(<<cur>> \o r) = {cur} \cup ToSet(r)
      BY <2>4, <3>5
    <3>4. Single(r) /\ cur \notin ToSet(r) => Single(<<cur>> \o r)
      BY <2>4, <3>1, <3>2, ConcatIs
    <3> QED
      BY <2>1, <3>3, <3>4 DEF N
  <2> QED
    BY <1>9, <2>2, <2>3, <2>5
<1>12. CASE /\ ~(move = "up" /\ i < Len(s)) /\ ~(move = "down" /\ i > 1)
            /\ ~(move = "top" /\ i < Len(s)) /\ ~(move = "bottom" /\ i > 1)
  <2>1. t = s
    BY <1>12 DEF Layer
  <2> HIDE DEF t
  <2> QED
    BY <1>6, <2>1
<1> HIDE DEF Good, t
<1> QED
  BY <1>7, <1>8, <1>10, <1>11, <1>12

LEMMA MoveLayerStep ==
    ASSUME IInv, ~stale, Null \notin ToSet(kids[Main]),
           NEW move \in {"up", "down", "top", "bottom"}, MoveLayer(move)
    PROVE  IInv'
<1> DEFINE c == PlaceOf(cur)
           t == Layer(kids[c], Position(kids[c], cur), move)
<1>1. /\ cur \in Ids /\ kids' = [kids EXCEPT ![c] = t]
      /\ UNCHANGED <<kind, at, origin, last, cur, area, clip, pending, stale>>
  BY DEF MoveLayer
<1>2. /\ t \in Seq(1..(MaxIds + 2)) /\ (Single(kids[c]) => Single(t))
      /\ ToSet(t) \ ToSet(kids[c]) \subseteq (IF Astray THEN {Null} ELSE {})
  BY <1>1, LayerIs
<1>3. c \in Canvases /\ (Astray => c = Main)
  BY <1>1, PlaceIs, FoundThere
<1>4. CopyInv' /\ stale' \in BOOLEAN
  BY <1>1 DEF CopyInv, IInv, Types
<1> HIDE DEF t, c
<1>5. ToSet(t) \ ToSet(kids[c]) \subseteq (IF c = Main THEN {Null} ELSE {})
  BY <1>2, <1>3
<1>6. Fewer([kids EXCEPT ![c] = t])
  BY <1>2, <1>3, <1>5, FewerAt
<1> QED
  BY <1>1, <1>4, <1>6, Unselecting

-------------------------------------------------------------------------------
(* Grouping, dragging                                                      *)

\* A step after which some set of components is a tree.
LEMMA GrowStep ==
    ASSUME Types', MadeInv',
           ~stale' => /\ CopyInv'
                      /\ \E X \in SUBSET Ids : /\ Tree(kids', kind', origin', at', X)
                                               /\ ToSet(area') \cap X \subseteq ToSet(kids'[Main])
    PROVE  IInv'
<1>1. ASSUME ~stale' PROVE TreeInv' /\ AreaInv' /\ CopyInv'
  <2>1. PICK X \in SUBSET Ids : /\ Tree(kids', kind', origin', at', X)
                                /\ ToSet(area') \cap X \subseteq ToSet(kids'[Main])
    BY <1>1
  <2>2. \A o \in X : kind'[o] = "view" => kids'[o] = <<>>
    BY DEF Types
  <2>3. Elements(kids') \subseteq X /\ Tree(kids', kind', origin', at', Elements(kids'))
    BY <2>1, <2>2, ElementsTree
  <2> QED
    BY <1>1, <2>1, <2>3 DEF TreeInv, AreaInv
<1> QED
  BY <1>1 DEF IInv

\* A copy stays one while more components are made.
LEMMA CopyKept ==
    ASSUME NEW n \in Nat, NEW m \in Nat, n <= m, NEW kd, NEW kd2,
           NEW og, NEW og2, \A o \in Ids : o <= n => kd2[o] = kd[o] /\ og2[o] = og[o],
           NEW c, Copied(kd, og, n, c)
    PROVE  Copied(kd2, og2, m, c)
<1> DEFINE X == DOMAIN c.kids
<1>1. /\ X \in SUBSET Ids /\ DOMAIN c.at = X
      /\ c.kids \in [X -> Seq(X)] /\ c.at \in [X -> Canvases]
      /\ c.roots \in Seq(X)
      /\ Branches(c.kids, kd, og, c.at, X, X)
      /\ \A o \in X : Made(kd, n, o) /\ (kd[o] = "view" => c.kids[o] = <<>>)
      /\ \A r \in ToSet(c.roots) : c.at[r] \in Ids =>
             /\ c.at[r] <= n
             /\ \/ kd[c.at[r]] = "Group"
                \/ /\ kd[c.at[r]] = "DeTabs" /\ kd[r] # "DeTabs"
                   /\ \A p \in ToSet(c.kids[r]) : kd[p] = "view"
  BY DEF Copied
<1> HIDE DEF X
<1>2. \A o \in X : kd2[o] = kd[o] /\ og2[o] = og[o] /\ Made(kd2, m, o)
  <2> SUFFICES ASSUME NEW o \in X PROVE kd2[o] = kd[o] /\ og2[o] = og[o] /\ Made(kd2, m, o)
    OBVIOUS
  <2>1. o \in Ids /\ o <= n /\ kd[o] # "free"
    BY <1>1 DEF Made
  <2>2. kd2[o] = kd[o] /\ og2[o] = og[o]
    BY <2>1
  <2>3. o \in Nat
    BY <2>1 DEF Ids
  <2>4. o <= m
    BY <2>1, <2>3
  <2> QED
    BY <2>1, <2>2, <2>4 DEF Made
<1>3. \A o \in X : ToSet(c.kids[o]) \subseteq X
  BY <1>1 DEF Branches
<1>4. Branches(c.kids, kd2, og2, c.at, X, X)
  <2>1. \A o \in X : NameOf(kd2, og2, o) = NameOf(kd, og, o)
    BY <1>2 DEF NameOf
  <2>2. /\ \A d \in X : Single(c.kids[d])
        /\ \A d, e \in X : d # e => ToSet(c.kids[d]) \cap ToSet(c.kids[e]) = {}
        /\ \A d \in X : \A o \in ToSet(c.kids[d]) \cap Ids : c.at[o] = NameOf(kd, og, d)
        /\ \A d \in X : \A o \in ToSet(c.kids[d]) :
              kd[o] # kd[d] /\ \A p \in ToSet(c.kids[o]) : kd[p] = "view"
    BY <1>1 DEF Branches
  <2>3. \A d \in X : \A o \in ToSet(c.kids[d]) \cap Ids : c.at[o] = NameOf(kd2, og2, d)
    BY <2>1, <2>2
  <2>4. \A d \in X : \A o \in ToSet(c.kids[d]) :
            kd2[o] # kd2[d] /\ \A p \in ToSet(c.kids[o]) : kd2[p] = "view"
    BY <1>2, <1>3, <2>2
  <2> QED
    BY <1>3, <2>2, <2>3, <2>4 DEF Branches
<1>5. ToSet(c.roots) \subseteq X
  BY <1>1, SeqDom
<1>6. ASSUME NEW r \in ToSet(c.roots), c.at[r] \in Ids
      PROVE  /\ c.at[r] <= m
             /\ \/ kd2[c.at[r]] = "Group"
                \/ /\ kd2[c.at[r]] = "DeTabs" /\ kd2[r] # "DeTabs"
                   /\ \A p \in ToSet(c.kids[r]) : kd2[p] = "view"
  <2>1. /\ c.at[r] <= n
        /\ \/ kd[c.at[r]] = "Group"
           \/ /\ kd[c.at[r]] = "DeTabs" /\ kd[r] # "DeTabs"
              /\ \A p \in ToSet(c.kids[r]) : kd[p] = "view"
    BY <1>1, <1>6
  <2>2. c.at[r] \in Nat
    BY <1>6 DEF Ids
  <2>3. c.at[r] <= m
    BY <2>1, <2>2
  <2> QED
    BY <1>2, <1>3, <1>5, <1>6, <2>1, <2>3
<1>7. \A o \in X : kd2[o] = "view" => c.kids[o] = <<>>
  BY <1>1, <1>2
<1> QED
  BY <1>1, <1>2, <1>4, <1>6, <1>7 DEF Copied, X

\* So does what is left of a paste.
LEMMA RunningKept ==
    ASSUME NEW n \in Nat, NEW m \in Nat, n <= m, NEW kd, NEW kd2,
           NEW og, NEW og2, \A o \in Ids : o <= n => kd2[o] = kd[o] /\ og2[o] = og[o],
           NEW p, Running(kd, og, n, p)
    PROVE  Running(kd2, og2, m, p)
<1>1. p # NoPaste => Copied(kd, og, n, p.clip)
  BY DEF Running
<1>2. p # NoPaste => Copied(kd2, og2, m, p.clip)
  BY <1>1, CopyKept
<1> QED
  BY <1>2 DEF Running

LEMMA CopiesKept ==
    ASSUME CopyInv, last \in Nat, last' \in Nat, last <= last',
           \A o \in Ids : o <= last => kind'[o] = kind[o] /\ origin'[o] = origin[o],
           UNCHANGED <<clip, pending>>
    PROVE  CopyInv'
<1>1. Copied(kind', origin', last', clip)
  BY CopyKept DEF CopyInv
<1>2. \A n \in 1..MaxEdits : Running(kind', origin', last', pending[n])
  BY RunningKept DEF CopyInv
<1> QED
  BY <1>1, <1>2 DEF CopyInv

LEMMA AppendKid ==
    ASSUME NEW s \in Seq(1..(MaxIds + 2)), NEW x \in 1..(MaxIds + 2)
    PROVE  /\ Append(s, x) \in Seq(1..(MaxIds + 2)) /\ ToSet(Append(s, x)) = ToSet(s) \cup {x}
           /\ Single(s) /\ x \notin ToSet(s) => Single(Append(s, x))
<1> DEFINE N == 1..(MaxIds + 2)
<1>1. s \in Seq(N) /\ x \in N
  OBVIOUS
<1> HIDE DEF N
<1>2. /\ Append(s, x) \in Seq(N) /\ ToSet(Append(s, x)) = ToSet(s) \cup {x}
      /\ Single(s) /\ x \notin ToSet(s) => Single(Append(s, x))
  BY <1>1, AppendIs
<1> QED
  BY <1>2 DEF N

LEMMA MoveInStep ==
    ASSUME IInv, ~stale, NEW o \in Ids, NEW t \in Ids, MoveIn(o, t)
    PROVE  IInv'
<1> DEFINE E == Elements(kids)
<1>1. /\ E \subseteq Ids /\ ToSet(kids[Main]) \cap Ids \subseteq E
      /\ \A c \in E : ToSet(kids[c]) \subseteq E
      /\ \A c \in {Main} \cup E : Single(kids[c])
      /\ \A c, d \in {Main} \cup E : c # d => ToSet(kids[c]) \cap ToSet(kids[d]) = {}
      /\ \A c \in {Main} \cup E : \A x \in ToSet(kids[c]) \cap Ids : at[x] = NameOf(kind, origin, c)
      /\ \A c \in E : \A x \in ToSet(kids[c]) :
            kind[x] # kind[c] /\ \A p \in ToSet(kids[x]) : kind[p] = "view"
      /\ \A x \in E : Made(kind, last, x)
  BY TreeIs
<1>2. ToSet(area) \cap E \subseteq ToSet(kids[Main])
  BY DEF IInv, AreaInv
<1> HIDE DEF E
<1>3. /\ {o, t} \subseteq ToSet(kids[Main]) /\ {o, t} \subseteq E /\ o \notin ToSet(area)
      /\ kind[t] = "DeTabs" /\ kind[o] # "DeTabs" /\ JoinsTab(o) /\ o # t
      /\ kids' = [kids EXCEPT ![Main] = Without(@, {o}), ![t] = Append(@, o)]
      /\ at' = [at EXCEPT ![o] = t] /\ cur' = None
      /\ UNCHANGED <<kind, origin, last, area, clip, pending, stale>>
  BY <1>1 DEF MoveIn
<1>4. Types /\ MadeInv /\ CopyInv
  BY DEF IInv
<1>5. /\ kids \in Lists /\ kind \in [Ids -> {"view", "DeTabs", "Group", "free"}]
      /\ at \in [Ids -> Canvases]
      /\ \A x \in Ids : kind[x] = "view" => kids[x] = <<>>
  BY <1>4 DEF Types
<1> DEFINE m == Without(kids[Main], {o})
           l == Append(kids[t], o)
<1>6. m \in Seq(1..(MaxIds + 2)) /\ ToSet(m) = ToSet(kids[Main]) \ {o} /\ Single(m)
  <2>1. kids[Main] \in Seq(1..(MaxIds + 2)) /\ Single(kids[Main])
    BY <1>1, <1>5, IdsAre DEF Lists
  <2> QED
    BY <2>1, WithoutIs
<1>7. l \in Seq(1..(MaxIds + 2)) /\ ToSet(l) = ToSet(kids[t]) \cup {o} /\ Single(l)
  <2>1. kids[t] \in Seq(1..(MaxIds + 2)) /\ Single(kids[t]) /\ o \in 1..(MaxIds + 2)
    BY <1>1, <1>3, <1>5, IdsAre DEF Lists
  <2>2. o \notin ToSet(kids[t])
    BY <1>1, <1>3, IdsAre
  <2> QED
    BY <2>1, <2>2, AppendKid
<1> HIDE DEF m, l
<1>8. /\ kids' \in Lists /\ kids'[Main] = m /\ kids'[t] = l
      /\ \A c \in Canvases : c # Main /\ c # t => kids'[c] = kids[c]
  <2>1. kids' = [kids EXCEPT ![Main] = m, ![t] = l]
    BY <1>3, IdsAre DEF m, l
  <2> QED
    BY <1>5, <1>6, <1>7, <2>1, IdsAre DEF Lists
<1>9. at' \in [Ids -> Canvases] /\ at'[o] = t /\ \A x \in Ids : x # o => at'[x] = at[x]
  BY <1>3, <1>5, IdsAre
<1>10. Types'
  <2>1. \A x \in Ids : kind[x] = "view" => kids'[x] = <<>>
    BY <1>3, <1>5, <1>8, IdsAre
  <2>2. cur' \in {None, Frame} \cup Ids
    BY <1>3
  <2> QED
    BY <1>3, <1>4, <1>8, <1>9, <2>1, <2>2 DEF Types
<1>11. MadeInv'
  <2>1. Made(kind, last, o)
    BY <1>1, <1>3
  <2>2. \A c \in Canvases : \A x \in ToSet(kids'[c]) \cap Ids : Made(kind, last, x)
    <3> SUFFICES ASSUME NEW c \in Canvases, NEW x \in ToSet(kids'[c]) \cap Ids PROVE Made(kind, last, x)
      OBVIOUS
    <3>1. x = o \/ x \in ToSet(kids[c])
      BY <1>6, <1>7, <1>8
    <3> QED
      BY <1>4, <2>1, <3>1 DEF MadeInv
  <2>3. cur' \notin Ids
    BY <1>3, IdsAre DEF None, Main
  <2> QED
    BY <1>3, <1>4, <2>2, <2>3 DEF MadeInv, OriginInv
<1>12. CopyInv'
  BY <1>3, <1>4 DEF CopyInv
<1>13. Branches(kids', kind', origin', at', E, {Main} \cup E)
  <2>0. \A c \in E : c \in Ids /\ c \in Canvases /\ c # Main /\ (c # t => kids'[c] = kids[c])
    BY <1>1, <1>8, IdsAre
  <2>1. \A c \in E : ToSet(kids'[c]) \subseteq E
    BY <1>1, <1>3, <1>7, <1>8, <2>0
  <2>2. \A c \in {Main} \cup E : Single(kids'[c])
    BY <1>1, <1>6, <1>7, <1>8, <2>0
  <2>3. ASSUME NEW c \in {Main} \cup E, NEW d \in {Main} \cup E, c # d,
               NEW x \in ToSet(kids'[c]), x \in ToSet(kids'[d])
        PROVE  FALSE
    <3>1. \A e \in {Main} \cup E : \A y \in ToSet(kids'[e]) :
             IF e = t THEN y = o \/ y \in ToSet(kids[t]) ELSE y # o /\ y \in ToSet(kids[e])
      <4> SUFFICES ASSUME NEW e \in {Main} \cup E, NEW y \in ToSet(kids'[e])
                   PROVE  IF e = t THEN y = o \/ y \in ToSet(kids[t]) ELSE y # o /\ y \in ToSet(kids[e])
        OBVIOUS
      <4>1. CASE e = t
        BY <1>7, <1>8, <4>1
      <4>2. CASE e = Main
        BY <1>6, <1>8, <4>2, IdsAre
      <4>3. CASE e # t /\ e # Main
        <5>1. y \in ToSet(kids[e]) /\ e \in E
          BY <2>0, <4>3
        <5>2. o \in ToSet(kids[Main]) /\ ToSet(kids[e]) \cap ToSet(kids[Main]) = {}
          BY <1>1, <1>3, <4>3, <5>1
        <5> QED
          BY <4>3, <5>1, <5>2
      <4> QED
        BY <4>1, <4>2, <4>3
    <3> QED
      BY <1>1, <1>3, <2>3, <3>1
  <2>4. ASSUME NEW c \in {Main} \cup E, NEW x \in ToSet(kids'[c]) \cap Ids
        PROVE  at'[x] = NameOf(kind', origin', c)
    <3>1. CASE c = t /\ x = o
      BY <1>3, <1>9, <3>1 DEF NameOf
    <3>2. CASE c = Main \/ (c = t /\ x # o)
      BY <1>1, <1>3, <1>6, <1>7, <1>8, <1>9, <2>4, <3>2, IdsAre
    <3>3. CASE c # Main /\ c # t
      <4>1. x \in ToSet(kids[c])
        BY <2>0, <2>4, <3>3
      <4>2. x # o
        BY <1>1, <1>3, <3>3, <4>1
      <4> QED
        BY <1>1, <1>3, <1>9, <4>1, <4>2
    <3> QED
      BY <3>1, <3>2, <3>3
  <2>5. ASSUME NEW c \in E, NEW x \in ToSet(kids'[c])
        PROVE  kind'[x] # kind'[c] /\ \A p \in ToSet(kids'[x]) : kind'[p] = "view"
    <3>1. x \in E
      BY <2>1, <2>5
    <3>2. x # t
      <4>1. \A d \in E : t \notin ToSet(kids[d])
        BY <1>1, <1>3, IdsAre
      <4> QED
        BY <1>3, <1>7, <1>8, <2>0, <2>5, <4>1
    <3>3. kids'[x] = kids[x]
      BY <2>0, <3>1, <3>2
    <3>4. CASE x \in ToSet(kids[c])
      BY <1>1, <1>3, <3>3, <3>4
    <3>5. CASE x \notin ToSet(kids[c])
      <4>1. x = o /\ c = t
        BY <1>7, <1>8, <2>0, <2>5, <3>5
      <4>2. ASSUME NEW p \in ToSet(kids[o]) PROVE kind[p] = "view"
        <5>1. p \in E /\ kind[p] # kind[o] /\ Made(kind, last, p) /\ Made(kind, last, o)
          BY <1>1, <1>3, <4>2
        <5>2. p \in Ids /\ o \in Ids
          BY <1>1, <5>1
        <5>3. kind[o] # "view"
          BY <1>5, <4>2, EmptyIs
        <5>4. kind[o] = "Group"
          BY <1>3, <1>5, <5>1, <5>3 DEF Made
        <5>5. kind[p] # "DeTabs"
          BY <1>3, <4>2, <5>4 DEF JoinsTab
        <5> QED
          BY <1>5, <5>1, <5>2, <5>4, <5>5 DEF Made
      <4> QED
        BY <1>3, <3>3, <4>1, <4>2
    <3> QED
      BY <3>4, <3>5
  <2> QED
    BY <2>1, <2>2, <2>3, <2>4, <2>5 DEF Branches
<1>14. ToSet(kids'[Main]) \cap Ids \subseteq E
  BY <1>1, <1>6, <1>8
<1>15. Tree(kids', kind', origin', at', E)
  BY <1>1, <1>13, <1>14 DEF Tree
<1>16. ToSet(area') \cap E \subseteq ToSet(kids'[Main])
  BY <1>2, <1>3, <1>6, <1>8
<1> QED
  BY <1>1, <1>10, <1>11, <1>12, <1>15, <1>16, GrowStep

LEMMA MoveOutStep ==
    ASSUME IInv, ~stale, NEW o \in Ids, NEW t \in Ids, MoveOut(o, t)
    PROVE  IInv'
<1> DEFINE E == Elements(kids)
<1>1. /\ E \subseteq Ids /\ ToSet(kids[Main]) \cap Ids \subseteq E
      /\ \A c \in E : ToSet(kids[c]) \subseteq E
      /\ \A c \in {Main} \cup E : Single(kids[c])
      /\ \A c, d \in {Main} \cup E : c # d => ToSet(kids[c]) \cap ToSet(kids[d]) = {}
      /\ \A c \in {Main} \cup E : \A x \in ToSet(kids[c]) \cap Ids : at[x] = NameOf(kind, origin, c)
      /\ \A c \in E : \A x \in ToSet(kids[c]) :
            kind[x] # kind[c] /\ \A p \in ToSet(kids[x]) : kind[p] = "view"
      /\ \A x \in E : Made(kind, last, x)
  BY TreeIs
<1>2. ToSet(area) \cap E \subseteq ToSet(kids[Main])
  BY DEF IInv, AreaInv
<1> HIDE DEF E
<1>3. t \in ToSet(kids[Main]) /\ t \in E /\ kind[t] = "DeTabs" /\ o \in ToSet(kids[t])
  BY <1>1 DEF MoveOut
<1>4. o \in E /\ at[o] = t /\ o # t /\ o \notin ToSet(kids[Main])
  <2>1. o \in E /\ kind[o] # kind[t] /\ at[o] = NameOf(kind, origin, t)
    BY <1>1, <1>3
  <2>2. at[o] = t
    BY <1>3, <2>1 DEF NameOf
  <2>3. ToSet(kids[t]) \cap ToSet(kids[Main]) = {}
    BY <1>1, <1>3, IdsAre
  <2> QED
    BY <1>3, <2>1, <2>2, <2>3
<1>5. /\ kids' = [kids EXCEPT ![t] = Without(@, {o}), ![Main] = Append(@, o)]
      /\ at' = [at EXCEPT ![o] = Main] /\ cur' = None
      /\ UNCHANGED <<kind, origin, last, area, clip, pending, stale>>
  BY <1>4 DEF MoveOut
<1>6. Types /\ MadeInv /\ CopyInv
  BY DEF IInv
<1>7. /\ kids \in Lists /\ kind \in [Ids -> {"view", "DeTabs", "Group", "free"}]
      /\ at \in [Ids -> Canvases]
      /\ \A x \in Ids : kind[x] = "view" => kids[x] = <<>>
  BY <1>6 DEF Types
<1> DEFINE m == Append(kids[Main], o)
           l == Without(kids[t], {o})
<1>8. l \in Seq(1..(MaxIds + 2)) /\ ToSet(l) = ToSet(kids[t]) \ {o} /\ Single(l)
  <2>1. kids[t] \in Seq(1..(MaxIds + 2)) /\ Single(kids[t])
    BY <1>1, <1>3, <1>7, IdsAre DEF Lists
  <2> QED
    BY <2>1, WithoutIs
<1>9. m \in Seq(1..(MaxIds + 2)) /\ ToSet(m) = ToSet(kids[Main]) \cup {o} /\ Single(m)
  <2>1. kids[Main] \in Seq(1..(MaxIds + 2)) /\ Single(kids[Main]) /\ o \in 1..(MaxIds + 2)
    BY <1>1, <1>7, IdsAre DEF Lists
  <2> QED
    BY <1>4, <2>1, AppendKid
<1> HIDE DEF m, l
<1>10. /\ kids' \in Lists /\ kids'[Main] = m /\ kids'[t] = l
       /\ \A c \in Canvases : c # Main /\ c # t => kids'[c] = kids[c]
  <2>1. kids' = [kids EXCEPT ![t] = l, ![Main] = m]
    BY <1>5, IdsAre DEF m, l
  <2> QED
    BY <1>7, <1>8, <1>9, <2>1, IdsAre DEF Lists
<1>11. at' \in [Ids -> Canvases] /\ at'[o] = Main /\ \A x \in Ids : x # o => at'[x] = at[x]
  BY <1>5, <1>7, IdsAre
<1>12. Types'
  <2>1. \A x \in Ids : kind[x] = "view" => kids'[x] = <<>>
    BY <1>3, <1>7, <1>10, IdsAre
  <2>2. cur' \in {None, Frame} \cup Ids
    BY <1>5
  <2> QED
    BY <1>5, <1>6, <1>10, <1>11, <2>1, <2>2 DEF Types
<1>13. MadeInv'
  <2>1. Made(kind, last, o)
    BY <1>1, <1>4
  <2>2. \A c \in Canvases : \A x \in ToSet(kids'[c]) \cap Ids : Made(kind, last, x)
    <3> SUFFICES ASSUME NEW c \in Canvases, NEW x \in ToSet(kids'[c]) \cap Ids PROVE Made(kind, last, x)
      OBVIOUS
    <3>1. x = o \/ x \in ToSet(kids[c])
      BY <1>8, <1>9, <1>10
    <3> QED
      BY <1>6, <2>1, <3>1 DEF MadeInv
  <2>3. cur' \notin Ids
    BY <1>5, IdsAre DEF None, Main
  <2> QED
    BY <1>5, <1>6, <2>2, <2>3 DEF MadeInv, OriginInv
<1>14. CopyInv'
  BY <1>5, <1>6 DEF CopyInv
<1>15. Branches(kids', kind', origin', at', E, {Main} \cup E)
  <2>0. \A c \in E : /\ c \in Ids /\ c \in Canvases /\ c # Main /\ (c # t => kids'[c] = kids[c])
                     /\ ToSet(kids'[c]) \subseteq ToSet(kids[c]) \ {o}
    <3> SUFFICES ASSUME NEW c \in E
                 PROVE  /\ c \in Ids /\ c \in Canvases /\ c # Main /\ (c # t => kids'[c] = kids[c])
                        /\ ToSet(kids'[c]) \subseteq ToSet(kids[c]) \ {o}
      OBVIOUS
    <3>1. c \in Ids /\ c \in Canvases /\ c # Main /\ (c # t => kids'[c] = kids[c])
      BY <1>1, <1>10, IdsAre
    <3>2. c # t => o \notin ToSet(kids[c])
      BY <1>1, <1>3
    <3> QED
      BY <1>8, <1>10, <3>1, <3>2
  <2>1. \A c \in E : ToSet(kids'[c]) \subseteq E
    BY <1>1, <2>0
  <2>2. \A c \in {Main} \cup E : Single(kids'[c])
    BY <1>1, <1>8, <1>9, <1>10, <2>0
  <2>3. \A c, d \in {Main} \cup E : c # d => ToSet(kids'[c]) \cap ToSet(kids'[d]) = {}
    <3>1. \A c, d \in E : c # d => ToSet(kids'[c]) \cap ToSet(kids'[d]) = {}
      BY <1>1, <2>0
    <3>2. \A c \in E : ToSet(kids'[c]) \cap ToSet(kids'[Main]) = {}
      BY <1>1, <1>9, <1>10, <2>0
    <3> QED
      BY <3>1, <3>2
  <2>4. ASSUME NEW c \in {Main} \cup E, NEW x \in ToSet(kids'[c]) \cap Ids
        PROVE  at'[x] = NameOf(kind', origin', c)
    <3>1. CASE c = Main
      <4>1. NameOf(kind', origin', c) = Main
        BY <3>1 DEF NameOf
      <4>2. x = o \/ at[x] = NameOf(kind, origin, Main)
        BY <1>1, <1>9, <1>10, <2>4, <3>1
      <4>3. NameOf(kind, origin, Main) = Main
        BY DEF NameOf
      <4> QED
        BY <1>11, <2>4, <4>1, <4>2, <4>3
    <3>2. CASE c \in E
      <4>1. x \in ToSet(kids[c]) /\ x # o
        BY <2>0, <2>4, <3>2
      <4> QED
        BY <1>1, <1>5, <1>11, <2>4, <4>1
    <3> QED
      BY <3>1, <3>2
  <2>5. ASSUME NEW c \in E, NEW x \in ToSet(kids'[c])
        PROVE  kind'[x] # kind'[c] /\ \A p \in ToSet(kids'[x]) : kind'[p] = "view"
    <3>1. x \in ToSet(kids[c]) /\ x \in E
      BY <1>1, <2>0, <2>5
    <3>2. ToSet(kids'[x]) \subseteq ToSet(kids[x])
      BY <2>0, <3>1
    <3> QED
      BY <1>1, <1>5, <3>1, <3>2
  <2> QED
    BY <2>1, <2>2, <2>3, <2>4, <2>5 DEF Branches
<1>16. ToSet(kids'[Main]) \cap Ids \subseteq E
  BY <1>1, <1>4, <1>9, <1>10
<1>17. Tree(kids', kind', origin', at', E)
  BY <1>1, <1>15, <1>16 DEF Tree
<1>18. ToSet(area') \cap E \subseteq ToSet(kids'[Main])
  BY <1>2, <1>5, <1>9, <1>10
<1> QED
  BY <1>1, <1>12, <1>13, <1>14, <1>17, <1>18, GrowStep

LEMMA DecomposeStep ==
    ASSUME IInv, ~stale, Decompose
    PROVE  IInv'
<1> DEFINE E == Elements(kids)
           c == at[cur]
           t == Without(kids[c], {cur})
           l == t \o kids[cur]
<1>1. /\ E \subseteq Ids /\ ToSet(kids[Main]) \cap Ids \subseteq E
      /\ \A d \in E : ToSet(kids[d]) \subseteq E
      /\ \A d \in {Main} \cup E : Single(kids[d])
      /\ \A d, e \in {Main} \cup E : d # e => ToSet(kids[d]) \cap ToSet(kids[e]) = {}
      /\ \A d \in {Main} \cup E : \A x \in ToSet(kids[d]) \cap Ids : at[x] = NameOf(kind, origin, d)
      /\ \A d \in E : \A x \in ToSet(kids[d]) :
            kind[x] # kind[d] /\ \A p \in ToSet(kids[x]) : kind[p] = "view"
      /\ \A x \in E : Made(kind, last, x)
  BY TreeIs
<1>2. ToSet(area) \cap E \subseteq ToSet(kids[Main])
  BY DEF IInv, AreaInv
<1>3. /\ cur \in Ids /\ kind[cur] = "Group"
      /\ c # Main => cur \in ToSet(kids[c]) /\ c \in E
      /\ kids' = [kids EXCEPT ![c] = l]
      /\ at' = [o \in Ids |-> IF o \in ToSet(kids[cur]) THEN c ELSE at[o]]
      /\ stale' = (stale \/ Gone)
      /\ UNCHANGED <<kind, origin, last, cur, area, clip, pending>>
  BY DEF Decompose
<1>4. Types /\ MadeInv /\ CopyInv
  BY DEF IInv
<1>5. /\ kids \in Lists /\ kind \in [Ids -> {"view", "DeTabs", "Group", "free"}]
      /\ at \in [Ids -> Canvases]
      /\ \A x \in Ids : kind[x] = "view" => kids[x] = <<>>
  BY <1>4 DEF Types
<1>6. c \in {Main} \cup E /\ c \in Canvases
  BY <1>1, <1>3, IdsAre
<1>7. kids[c] \in Seq(1..(MaxIds + 2)) /\ kids[cur] \in Seq(1..(MaxIds + 2))
  BY <1>3, <1>5, <1>6, IdsAre DEF Lists
<1>8. /\ t \in Seq(1..(MaxIds + 2)) /\ ToSet(t) = ToSet(kids[c]) \ {cur}
      /\ Single(kids[c]) => Single(t)
  BY <1>7, WithoutIs
<1>9. /\ l \in Seq(1..(MaxIds + 2)) /\ ToSet(l) = (ToSet(kids[c]) \ {cur}) \cup ToSet(kids[cur])
      /\ Single(kids[c]) /\ Single(kids[cur]) /\ (ToSet(kids[c]) \ {cur}) \cap ToSet(kids[cur]) = {}
            => Single(l)
  <2> DEFINE N == 1..(MaxIds + 2)
  <2> HIDE DEF t
  <2>1. t \in Seq(N) /\ kids[cur] \in Seq(N)
    BY <1>7, <1>8
  <2> HIDE DEF N
  <2>2. t \o kids[cur] \in Seq(N) /\ ToSet(t \o kids[cur]) = ToSet(t) \cup ToSet(kids[cur])
    BY <2>1, ConcatIs
  <2>3. Single(t) /\ Single(kids[cur]) /\ ToSet(t) \cap ToSet(kids[cur]) = {} => Single(t \o kids[cur])
    BY <2>1, ConcatIs
  <2>4. l = t \o kids[cur]
    OBVIOUS
  <2> HIDE DEF l, c
  <2>5. l \in Seq(N) /\ ToSet(l) = (ToSet(kids[c]) \ {cur}) \cup ToSet(kids[cur])
    BY <1>8, <2>2, <2>4
  <2>6. Single(kids[c]) /\ Single(kids[cur]) /\ (ToSet(kids[c]) \ {cur}) \cap ToSet(kids[cur]) = {}
           => Single(l)
    BY <1>8, <2>3, <2>4
  <2> QED
    BY <2>5, <2>6 DEF N
<1> HIDE DEF t, l, c
<1>10. /\ kids' \in Lists /\ kids'[c] = l
       /\ \A d \in Canvases : d # c => kids'[d] = kids[d]
  BY <1>3, <1>5, <1>6, <1>9 DEF Lists
<1>11. at' \in [Ids -> Canvases]
  BY <1>3, <1>5, <1>6
<1>12. \A x \in Ids : kind[x] = "view" => kids'[x] = <<>>
  <2> SUFFICES ASSUME NEW x \in Ids, kind[x] = "view" PROVE kids'[x] = <<>>
    OBVIOUS
  <2>1. kids[x] = <<>>
    BY <1>5
  <2>2. x # c
    BY <1>3, <2>1, EmptyIs, IdsAre
  <2> QED
    BY <1>10, <2>1, <2>2, IdsAre
<1>13. Types'
  <2>1. stale' \in BOOLEAN
    BY <1>3 DEF Gone
  <2> QED
    BY <1>3, <1>4, <1>10, <1>11, <1>12, <2>1 DEF Types
<1>14. MadeInv'
  <2>1. \A d \in Canvases : \A x \in ToSet(kids'[d]) \cap Ids : Made(kind, last, x)
    <3> SUFFICES ASSUME NEW d \in Canvases, NEW x \in ToSet(kids'[d]) \cap Ids PROVE Made(kind, last, x)
      OBVIOUS
    <3>1. x \in ToSet(kids[d]) \/ x \in ToSet(kids[cur])
      BY <1>9, <1>10
    <3>2. cur \in Canvases
      BY <1>3, IdsAre
    <3> QED
      BY <1>4, <3>1, <3>2 DEF MadeInv
  <2> QED
    BY <1>3, <1>4, <2>1 DEF MadeInv, OriginInv
<1>15. CopyInv'
  BY <1>3, <1>4 DEF CopyInv
<1> DEFINE X == E \ {cur}
<1>16. ASSUME ~stale'
       PROVE  Tree(kids', kind', origin', at', X) /\ ToSet(area') \cap X \subseteq ToSet(kids'[Main])
  <2>1. cur \in E
    <3>1. ~Gone /\ Chosen = <<cur>>
      BY <1>3, <1>16 DEF Chosen
    <3> QED
      BY <3>1, OneIs DEF Gone
  <2>2. PICK d \in {Main} \cup E : cur \in ToSet(kids[d])
    BY <2>1, ElementsHeld
  <2>3. at[cur] = NameOf(kind, origin, d) /\ (d \in E => kind[d] # "Group")
    BY <1>1, <1>3, <2>2
  <2>4. cur \in ToSet(kids[c]) /\ (c \in E => kind[c] # "Group") /\ cur # c
    <3>1. c = d
      BY <2>2, <2>3 DEF NameOf, c
    <3> QED
      BY <1>3, <2>2, <2>3, <3>1, IdsAre
  <2> HIDE DEF E
  <2>5. c \in E => kind[c] = "DeTabs"
    <3> SUFFICES ASSUME c \in E PROVE kind[c] = "DeTabs"
      OBVIOUS
    <3>1. c \in Ids /\ kind[c] # "free"
      BY <1>1 DEF Made
    <3>2. kind[c] # "view"
      BY <1>5, <2>4, <3>1, EmptyIs
    <3> QED
      BY <1>5, <2>4, <3>1, <3>2
  <2>6. \A e \in {Main} \cup E : e # c => cur \notin ToSet(kids[e])
    BY <1>1, <1>6, <2>4
  <2>7. cur \notin ToSet(kids[cur]) /\ ToSet(kids[c]) \cap ToSet(kids[cur]) = {} /\ ToSet(kids[cur]) \subseteq E
    BY <1>1, <1>6, <2>1, <2>4, <2>6
  <2>8. \A e \in X : e \in Canvases /\ e \in E /\ e # cur /\ e # Main /\ (e # c => kids'[e] = kids[e])
    BY <1>1, <1>10, IdsAre
  <2>9. ToSet(kids'[c]) = (ToSet(kids[c]) \ {cur}) \cup ToSet(kids[cur]) /\ Single(kids'[c])
    BY <1>1, <1>6, <1>9, <1>10, <2>1, <2>7
  <2>10. Main # c => kids'[Main] = kids[Main]
    BY <1>10, IdsAre
  <2>11. \A e \in {Main} \cup X : \A y \in ToSet(kids'[e]) :
            IF e = c THEN y # cur /\ (y \in ToSet(kids[c]) \/ y \in ToSet(kids[cur]))
            ELSE y # cur /\ y \in ToSet(kids[e]) /\ y \notin ToSet(kids[cur])
    <3> SUFFICES ASSUME NEW e \in {Main} \cup X, NEW y \in ToSet(kids'[e])
                 PROVE  IF e = c THEN y # cur /\ (y \in ToSet(kids[c]) \/ y \in ToSet(kids[cur]))
                        ELSE y # cur /\ y \in ToSet(kids[e]) /\ y \notin ToSet(kids[cur])
      OBVIOUS
    <3>1. CASE e = c
      BY <2>7, <2>9, <3>1
    <3>2. CASE e # c
      <4>1. y \in ToSet(kids[e]) /\ e \in {Main} \cup E /\ e # cur
        BY <1>3, <2>8, <2>10, <3>2, IdsAre
      <4>2. ToSet(kids[e]) \cap ToSet(kids[cur]) = {}
        BY <1>1, <2>1, <4>1
      <4> QED
        BY <2>6, <3>2, <4>1, <4>2
    <3> QED
      BY <3>1, <3>2
  <2>12. Branches(kids', kind', origin', at', X, {Main} \cup X)
    <3>1. \A e \in X : ToSet(kids'[e]) \subseteq X
      BY <1>1, <2>7, <2>8, <2>11
    <3>2. \A e \in {Main} \cup X : Single(kids'[e])
      BY <1>1, <2>8, <2>9, <2>10
    <3>3. ASSUME NEW e \in {Main} \cup X, NEW f \in {Main} \cup X, e # f,
                 NEW x \in ToSet(kids'[e]), x \in ToSet(kids'[f])
          PROVE  FALSE
      <4>1. e \in {Main} \cup E /\ f \in {Main} \cup E
        BY <2>8
      <4> QED
        BY <1>1, <2>11, <3>3, <4>1
    <3>4. ASSUME NEW e \in {Main} \cup X, NEW x \in ToSet(kids'[e]) \cap Ids
          PROVE  at'[x] = NameOf(kind', origin', e)
      <4>1. e \in {Main} \cup E
        BY <2>8
      <4>2. CASE x \in ToSet(kids[cur])
        <5>1. e = c
          BY <2>11, <3>4, <4>2
        <5>2. at'[x] = c
          BY <1>3, <3>4, <4>2
        <5>3. NameOf(kind', origin', c) = c
          BY <1>3, <1>6, <2>4 DEF NameOf
        <5> QED
          BY <5>1, <5>2, <5>3
      <4>3. CASE x \notin ToSet(kids[cur])
        <5>1. x \in ToSet(kids[e])
          BY <2>11, <3>4, <4>3
        <5>2. at'[x] = at[x]
          BY <1>3, <3>4, <4>3
        <5> QED
          BY <1>1, <1>3, <3>4, <4>1, <5>1, <5>2
      <4> QED
        BY <4>2, <4>3
    <3>5. ASSUME NEW e \in X, NEW x \in ToSet(kids'[e])
          PROVE  kind'[x] # kind'[e] /\ \A p \in ToSet(kids'[x]) : kind'[p] = "view"
      <4>1. x \in X /\ e \in E /\ x \in E
        BY <2>8, <3>1, <3>5
      <4>2. CASE x \in ToSet(kids[cur])
        <5>1. e = c
          BY <2>11, <3>5, <4>2
        <5>2. c \in E /\ kind[c] = "DeTabs" /\ kind[x] = "view"
          BY <1>1, <2>4, <2>5, <4>1, <4>2, <5>1
        <5>3. x # c
          BY <5>2
        <5>4. kids'[x] = <<>>
          BY <1>1, <1>12, <4>1, <5>2
        <5> QED
          BY <1>3, <5>1, <5>2, <5>4, EmptyIs
      <4>3. CASE x \notin ToSet(kids[cur])
        <5>1. x \in ToSet(kids[e])
          BY <2>11, <3>5, <4>3
        <5>2. kind[x] # kind[e] /\ \A p \in ToSet(kids[x]) : kind[p] = "view"
          BY <1>1, <4>1, <5>1
        <5>3. x # c
          BY <1>3, <2>4, <5>2
        <5>4. kids'[x] = kids[x]
          BY <2>8, <4>1, <5>3
        <5> QED
          BY <1>3, <5>2, <5>4
      <4> QED
        BY <4>2, <4>3
    <3> QED
      BY <3>1, <3>2, <3>3, <3>4, <3>5 DEF Branches
  <2>13. ToSet(kids'[Main]) \cap Ids \subseteq X
    BY <1>1, <2>7, <2>11
  <2>14. ToSet(area') \cap X \subseteq ToSet(kids'[Main])
    <3>1. ToSet(kids[Main]) \ {cur} \subseteq ToSet(kids'[Main])
      BY <2>9, <2>10
    <3> QED
      BY <1>2, <1>3, <3>1
  <2> QED
    BY <1>1, <2>12, <2>13, <2>14 DEF Tree
<1>17. X \in SUBSET Ids
  BY <1>1
<1> HIDE DEF X
<1> QED
  BY <1>13, <1>14, <1>15, <1>16, <1>17, GrowStep

\* A selection that is as long as the components in it that there are names each
\* of them once, and nothing else.
LEMMA CountedOnce ==
    ASSUME NEW S, NEW s \in Seq(S), NEW E, ~(Cardinality(ToSet(s) \cap E) < Len(s))
    PROVE  Single(s) /\ ToSet(s) \subseteq E
<1> DEFINE T == ToSet(s)
<1>1. Len(s) \in Nat /\ DOMAIN s = 1..Len(s)
  BY SeqDom
<1>2. s \in Surjection(1..Len(s), T)
  BY <1>1 DEF Surjection, ToSet
<1>3. IsFiniteSet(1..Len(s)) /\ Cardinality(1..Len(s)) = Len(s)
  BY <1>1, FS_Interval
<1> HIDE DEF T
<1>4. /\ IsFiniteSet(T) /\ Cardinality(T) <= Len(s)
      /\ Cardinality(T) = Len(s) <=> s \in Injection(1..Len(s), T)
  BY <1>2, <1>3, FS_Surjection
<1>5. /\ IsFiniteSet(T \cap E) /\ Cardinality(T \cap E) <= Cardinality(T)
      /\ Cardinality(T) = Cardinality(T \cap E) => T = T \cap E
  <2>1. T \cap E \in SUBSET T
    OBVIOUS
  <2> QED
    BY <1>4, <2>1, FS_Subset
<1>6. Cardinality(T) \in Nat /\ Cardinality(T \cap E) \in Nat
  BY <1>4, <1>5, FS_CardinalityType
<1>7. ~(Cardinality(T \cap E) < Len(s))
  BY DEF T
<1>8. Cardinality(T) = Len(s) /\ Cardinality(T \cap E) = Cardinality(T)
  BY <1>1, <1>4, <1>5, <1>6, <1>7
<1>9. s \in Injection(1..Len(s), T) /\ T \subseteq E
  BY <1>4, <1>5, <1>8
<1>10. Single(s)
  BY <1>1, <1>9 DEF Single, Injection, IsInjective
<1> QED
  BY <1>9, <1>10 DEF T

\* What a new group is given.
Joins(x) == \E o \in ToSet(area) : \/ kind[o] = "Group" /\ x \in ToSet(kids[o])
                                   \/ kind[o] # "Group" /\ JoinsGroup(o) /\ x = o

LEMMA JoiningIs ==
    ASSUME IInv
    PROVE  /\ Joining \in Seq(1..(MaxIds + 2))
           /\ \A x : x \in ToSet(Joining) <=> Joins(x)
           /\ (/\ Single(area)
               /\ \A o \in ToSet(area) : kind[o] = "Group" =>
                     Single(kids[o]) /\ ToSet(kids[o]) \cap ToSet(area) = {}
               /\ \A o, p \in ToSet(area) : o # p => ToSet(kids[o]) \cap ToSet(kids[p]) = {})
              => Single(Joining)
<1> DEFINE N == 1..(MaxIds + 2)
           parts == [i \in 1..Len(area) |->
                       IF kind[area[i]] = "Group" THEN kids[area[i]]
                       ELSE IF JoinsGroup(area[i]) THEN <<area[i]>> ELSE <<>>]
<1>1. area \in Seq(Ids) /\ kids \in Lists
  BY DEF IInv, Types
<1>2. Len(area) \in Nat /\ DOMAIN area = 1..Len(area) /\ \A i \in 1..Len(area) : area[i] \in Ids
  BY <1>1, SeqDom
<1>3. ASSUME NEW i \in 1..Len(area)
      PROVE  /\ parts[i] \in Seq(N)
             /\ kind[area[i]] = "Group" => parts[i] = kids[area[i]]
             /\ kind[area[i]] # "Group" /\ JoinsGroup(area[i]) =>
                   ToSet(parts[i]) = {area[i]} /\ Single(parts[i])
             /\ kind[area[i]] # "Group" /\ ~JoinsGroup(area[i]) =>
                   ToSet(parts[i]) = {} /\ Single(parts[i])
  <2>1. area[i] \in Ids /\ area[i] \in N /\ kids[area[i]] \in Seq(N)
    BY <1>1, <1>2, IdsAre DEF Lists
  <2> HIDE DEF N
  <2>2. CASE kind[area[i]] = "Group"
    BY <2>1, <2>2
  <2>3. CASE kind[area[i]] # "Group" /\ JoinsGroup(area[i])
    <3>1. parts[i] = <<area[i]>>
      BY <2>3
    <3> QED
      BY <2>1, <2>3, <3>1, OneIs
  <2>4. CASE kind[area[i]] # "Group" /\ ~JoinsGroup(area[i])
    <3>1. parts[i] = <<>>
      BY <2>4
    <3>2. <<>> \in Seq(N) /\ ToSet(<<>>) = {} /\ Single(<<>>)
      BY EmptyIs, EmptySeq
    <3> QED
      BY <2>4, <3>1, <3>2
  <2> QED
    BY <2>2, <2>3, <2>4
<1>4. DOMAIN parts = 1..Len(area)
  OBVIOUS
<1>5. Joining = FlattenSeq(parts)
  BY DEF Joining
<1> HIDE DEF parts, N
<1>6. parts \in Seq(Seq(N))
  <2>1. parts \in [1..Len(area) -> Seq(N)]
    <3>1. parts = [i \in 1..Len(area) |-> parts[i]]
      BY DEF parts
    <3> QED
      BY <1>3, <3>1
  <2> QED
    BY <1>2, <2>1
<1>7. FlattenSeq(parts) \in Seq(N) /\ \A x : x \in ToSet(FlattenSeq(parts)) <=> \E i \in DOMAIN parts : x \in ToSet(parts[i])
  BY <1>6, FlattenIs
<1>8. \A x : x \in ToSet(Joining) <=> Joins(x)
  <2> SUFFICES ASSUME NEW x PROVE (\E i \in 1..Len(area) : x \in ToSet(parts[i])) <=> Joins(x)
    BY <1>4, <1>5, <1>7
  <2>1. ASSUME NEW i \in 1..Len(area), x \in ToSet(parts[i]) PROVE Joins(x)
    <3>1. area[i] \in ToSet(area)
      BY <1>2 DEF ToSet
    <3> QED
      BY <1>3, <2>1, <3>1 DEF Joins
  <2>2. ASSUME Joins(x) PROVE \E i \in 1..Len(area) : x \in ToSet(parts[i])
    <3>1. PICK o \in ToSet(area) : \/ kind[o] = "Group" /\ x \in ToSet(kids[o])
                                   \/ kind[o] # "Group" /\ JoinsGroup(o) /\ x = o
      BY <2>2 DEF Joins
    <3>2. PICK i \in 1..Len(area) : area[i] = o
      BY <1>2, <3>1 DEF ToSet
    <3>3. x \in ToSet(parts[i])
      BY <1>3, <3>1, <3>2
    <3> QED
      BY <3>3
  <2> QED
    BY <2>1, <2>2
<1>9. ASSUME Single(area),
             \A o \in ToSet(area) : kind[o] = "Group" =>
                Single(kids[o]) /\ ToSet(kids[o]) \cap ToSet(area) = {},
             \A o, p \in ToSet(area) : o # p => ToSet(kids[o]) \cap ToSet(kids[p]) = {}
      PROVE  Single(Joining)
  <2>1. \A i \in DOMAIN parts : Single(parts[i])
    <3> SUFFICES ASSUME NEW i \in 1..Len(area) PROVE Single(parts[i])
      BY <1>4
    <3>1. area[i] \in ToSet(area)
      BY <1>2 DEF ToSet
    <3> QED
      BY <1>3, <1>9, <3>1
  <2>2. ASSUME NEW i \in 1..Len(area), NEW j \in 1..Len(area), i # j,
               NEW x \in ToSet(parts[i]), x \in ToSet(parts[j])
        PROVE  FALSE
    <3>1. area[i] \in ToSet(area) /\ area[j] \in ToSet(area) /\ area[i] # area[j]
      BY <1>2, <1>9, <2>2 DEF ToSet, Single
    <3>2. (kind[area[i]] = "Group" /\ x \in ToSet(kids[area[i]])) \/ (kind[area[i]] # "Group" /\ x = area[i])
      BY <1>3, <2>2
    <3>3. (kind[area[j]] = "Group" /\ x \in ToSet(kids[area[j]])) \/ (kind[area[j]] # "Group" /\ x = area[j])
      BY <1>3, <2>2
    <3> QED
      BY <1>9, <3>1, <3>2, <3>3
  <2>3. \A i, j \in DOMAIN parts : i # j => ToSet(parts[i]) \cap ToSet(parts[j]) = {}
    BY <1>4, <2>2
  <2>4. Single(FlattenSeq(parts))
    BY <1>6, <2>1, <2>3, FlattenIs
  <2> QED
    BY <1>5, <2>4
<1>10. Joining \in Seq(N)
  BY <1>5, <1>7
<1> QED
  BY <1>8, <1>9, <1>10 DEF N

LEMMA ComposeStep ==
    ASSUME IInv, ~stale, Compose
    PROVE  IInv'
<1> DEFINE E == Elements(kids)
           g == last + 1
           J == ToSet(Joining)
           A == ToSet(area)
           M == ToSet(kids[Main])
           m == Append(TakenOut(kids[Main]), g)
           k == [kids EXCEPT ![g] = Joining, ![Main] = m]
<1>1. /\ E \subseteq Ids /\ M \cap Ids \subseteq E
      /\ \A d \in E : ToSet(kids[d]) \subseteq E
      /\ \A d \in {Main} \cup E : Single(kids[d])
      /\ \A d, e \in {Main} \cup E : d # e => ToSet(kids[d]) \cap ToSet(kids[e]) = {}
      /\ \A d \in {Main} \cup E : \A x \in ToSet(kids[d]) \cap Ids : at[x] = NameOf(kind, origin, d)
      /\ \A d \in E : \A x \in ToSet(kids[d]) :
            kind[x] # kind[d] /\ \A p \in ToSet(kids[x]) : kind[p] = "view"
      /\ \A x \in E : Made(kind, last, x)
  BY TreeIs
<1>2. A \cap E \subseteq M
  BY DEF IInv, AreaInv
<1>3. Types /\ MadeInv /\ CopyInv
  BY DEF IInv
<1>4. /\ kids \in Lists /\ kind \in [Ids -> {"view", "DeTabs", "Group", "free"}]
      /\ at \in [Ids -> Canvases] /\ last \in Views..MaxIds
      /\ \A x \in Ids : kind[x] = "view" => kids[x] = <<>>
      /\ area \in Seq(Ids) /\ last \in Nat /\ origin \in [Ids -> Ids]
  BY <1>3, IdsAre DEF Types
<1>5. /\ g \in Ids /\ g \in Views..MaxIds /\ g \in Nat /\ last <= g /\ g # Main
      /\ \A o \in Ids : o <= last => o # g
  BY <1>4, IdsAre DEF Compose, Ids
<1>6. /\ last' = g
      /\ kind' = [kind EXCEPT ![g] = "Group"]
      /\ origin' = [origin EXCEPT ![g] = g]
      /\ at' = [o \in Ids |-> IF o = g THEN Main ELSE IF o \in J THEN g ELSE at[o]]
      /\ Select(k, <<>>, g)
      /\ stale' = (stale \/ Cardinality(A \cap E) < Len(area))
      /\ UNCHANGED <<clip, pending>>
  BY <1>5 DEF Compose
<1>7. /\ Joining \in Seq(1..(MaxIds + 2))
      /\ \A x : x \in J <=> Joins(x)
  BY JoiningIs
<1> DEFINE t == TakenOut(kids[Main])
<1>8. t \in Seq(1..(MaxIds + 2)) /\ ToSet(t) = M \ A /\ (Single(kids[Main]) => Single(t))
  <2>1. kids[Main] \in Seq(1..(MaxIds + 2))
    BY <1>4, IdsAre DEF Lists
  <2>2. Without(kids[Main], A) \in Seq(1..(MaxIds + 2)) /\ ToSet(Without(kids[Main], A)) = M \ A
    BY <2>1, WithoutIs
  <2>3. Single(kids[Main]) => Single(Without(kids[Main], A))
    BY <2>1, WithoutIs
  <2> QED
    BY <2>2, <2>3 DEF TakenOut
<1> HIDE DEF t
<1>9. /\ m \in Seq(1..(MaxIds + 2)) /\ ToSet(m) = (M \ A) \cup {g}
      /\ Single(t) /\ g \notin ToSet(t) => Single(m)
  <2>1. g \in 1..(MaxIds + 2)
    BY <1>5, IdsAre
  <2>2. m = Append(t, g)
    BY DEF t
  <2> HIDE DEF m, g
  <2> QED
    BY <1>8, <2>1, <2>2, AppendKid
<1> HIDE DEF m
<1>10. k \in Lists /\ k[Main] = m /\ k[g] = Joining /\ \A d \in Canvases : d # Main /\ d # g => k[d] = kids[d]
  BY <1>4, <1>5, <1>7, <1>9, IdsAre DEF Lists
<1> HIDE DEF k, E, J, A, M, g
<1>11. /\ kids' \in Lists /\ area' = <<>> /\ cur' \in {g, Frame}
       /\ \A d \in Ids : kids'[d] = k[d]
       /\ ToSet(kids'[Main]) \cap Ids = ToSet(m) \cap Ids
       /\ ToSet(kids'[Main]) \subseteq ToSet(m) \cup {Frame}
       /\ Single(m) => Single(kids'[Main])
  BY <1>6, <1>10, SelectIs, EmptySeq
<1>12. kids'[g] = Joining /\ \A d \in Ids : d # g => kids'[d] = kids[d]
  BY <1>5, <1>10, <1>11, IdsAre
<1>13. kind' \in [Ids -> {"view", "DeTabs", "Group", "free"}] /\ kind'[g] = "Group" /\ \A x \in Ids : x # g => kind'[x] = kind[x]
  BY <1>4, <1>5, <1>6
<1>14. at' \in [Ids -> Canvases]
  BY <1>4, <1>5, <1>6, IdsAre
<1>15. Types'
  <2>1. \A x \in Ids : kind'[x] = "view" => kids'[x] = <<>>
    BY <1>4, <1>12, <1>13
  <2>2. area' \in Seq(Ids) /\ Len(area') <= MaxMarks
    BY <1>11, NothingSelected
  <2>3. cur' \in {None, Frame} \cup Ids /\ stale' \in BOOLEAN /\ last' \in Views..MaxIds
    BY <1>3, <1>5, <1>6, <1>11 DEF Types
  <2>4. origin' \in [Ids -> Ids]
    BY <1>4, <1>5, <1>6
  <2> QED
    BY <1>11, <1>13, <1>14, <2>1, <2>2, <2>3, <2>4 DEF Types
<1>16. \A x \in Ids : Made(kind, last, x) => Made(kind', last', x) /\ x # g
  <2> SUFFICES ASSUME NEW x \in Ids, Made(kind, last, x) PROVE Made(kind', last', x) /\ x # g
    OBVIOUS
  <2>1. x <= last /\ kind[x] # "free" /\ x \in Nat
    BY DEF Made, Ids
  <2>2. x # g /\ x <= g
    BY <1>4, <1>5, <2>1
  <2> QED
    BY <1>6, <1>13, <2>1, <2>2 DEF Made
<1>17. Made(kind', last', g)
  BY <1>5, <1>6, <1>13 DEF Made
<1>18. \A o \in A : o \in Ids /\ Made(kind, last, o)
  BY <1>3, <1>4, SeqDom DEF MadeInv, A
<1>19. \A c \in Canvases : \A x \in ToSet(kids[c]) \cap Ids : Made(kind, last, x)
  BY <1>3 DEF MadeInv
<1>20. \A x \in J \cap Ids : Made(kind, last, x)
  <2> SUFFICES ASSUME NEW x \in J \cap Ids PROVE Made(kind, last, x)
    OBVIOUS
  <2>1. PICK o \in A : (kind[o] = "Group" /\ x \in ToSet(kids[o])) \/ x = o
    BY <1>7 DEF Joins, A
  <2> QED
    BY <1>18, <1>19, <2>1, IdsAre
<1>21. MadeInv'
  <2>1. \A c \in Canvases : \A x \in ToSet(kids'[c]) \cap Ids : Made(kind', last', x)
    <3> SUFFICES ASSUME NEW c \in Canvases, NEW x \in ToSet(kids'[c]) \cap Ids PROVE Made(kind', last', x)
      OBVIOUS
    <3>1. CASE c = Main
      <4>1. x \in M \/ x = g
        BY <1>9, <1>11, <3>1
      <4> QED
        BY <1>16, <1>17, <1>19, <4>1, IdsAre DEF M
    <3>2. CASE c = g
      <4>1. x \in J
        BY <1>12, <3>2 DEF J
      <4> QED
        BY <1>16, <1>20, <4>1
    <3>3. CASE c # Main /\ c # g
      <4>1. c \in Ids /\ x \in ToSet(kids[c])
        BY <1>12, <3>3, IdsAre
      <4> QED
        BY <1>16, <1>19, <4>1
    <3> QED
      BY <3>1, <3>2, <3>3
  <2>2. \A o \in ToSet(area') : FALSE
    BY <1>11, EmptyIs
  <2>3. cur' \in Ids => Made(kind', last', cur')
    BY <1>11, <1>17, IdsAre
  <2>4. OriginInv'
    <3> SUFFICES ASSUME NEW o \in Ids
                 PROVE  origin'[o] <= o /\ kind'[origin'[o]] = kind'[o] /\ (o > g => origin'[o] = o)
      BY <1>6 DEF OriginInv
    <3>1. /\ origin[o] \in Ids /\ origin[o] <= o /\ kind[origin[o]] = kind[o]
          /\ o > last => origin[o] = o
          /\ o \in Nat /\ origin[o] \in Nat
      BY <1>3, <1>4 DEF MadeInv, OriginInv, Ids
    <3>2. CASE o = g
      <4>1. origin'[o] = o
        BY <1>4, <1>5, <1>6, <3>2
      <4> QED
        BY <3>1, <4>1
    <3>3. CASE o # g
      <4>1. origin'[o] = origin[o] /\ kind'[o] = kind[o]
        BY <1>4, <1>6, <1>13, <3>3
      <4>2. origin[o] # g
        <5>1. CASE o <= last
          <6>1. origin[o] <= last
            BY <1>4, <3>1, <5>1
          <6> QED
            BY <1>5, <3>1, <6>1
        <5>2. CASE o > last
          BY <3>1, <3>3, <5>2
        <5> QED
          BY <1>4, <3>1, <5>1, <5>2
      <4>3. o > g => o > last
        BY <1>4, <1>5, <3>1
      <4> QED
        BY <1>13, <3>1, <4>1, <4>2, <4>3
    <3> QED
      BY <3>2, <3>3
  <2> QED
    BY <2>1, <2>2, <2>3, <2>4 DEF MadeInv
<1>22. CopyInv'
  <2>1. \A o \in Ids : o <= last => kind'[o] = kind[o]
    BY <1>5, <1>13
  <2> QED
    BY <1>3, <1>4, <1>5, <1>6, <2>1, CopiesKept
<1> DEFINE X == (E \ {o \in A : kind[o] = "Group"}) \cup {g}
<1>23. ASSUME ~stale' PROVE Tree(kids', kind', origin', at', X)
  <2>1. Single(area) /\ A \subseteq E
    <3>1. ~(Cardinality(A \cap E) < Len(area))
      BY <1>6, <1>23
    <3> QED
      BY <1>4, <3>1, CountedOnce DEF A
  <2>2. A \subseteq M
    BY <1>2, <2>1
  <2>3. \A d \in E : ToSet(kids[d]) \cap M = {}
    BY <1>1, IdsAre DEF M
  <2>4. Single(Joining)
    <3>1. \A o \in A : Single(kids[o]) /\ ToSet(kids[o]) \cap A = {}
      BY <1>1, <2>1, <2>2, <2>3
    <3>2. \A o, p \in A : o # p => ToSet(kids[o]) \cap ToSet(kids[p]) = {}
      BY <1>1, <2>1
    <3> QED
      BY <2>1, <3>1, <3>2, JoiningIs DEF A
  <2>5. g \notin E
    BY <1>1, <1>16
  <2>6. ASSUME NEW x \in J
        PROVE  /\ x \in E /\ kind[x] # "Group" /\ \A p \in ToSet(kids[x]) : kind[p] = "view"
               /\ x \in M => x \in A
               /\ \A d \in E : x \in ToSet(kids[d]) => d \in A /\ kind[d] = "Group"
    <3>1. PICK o \in A : \/ kind[o] = "Group" /\ x \in ToSet(kids[o])
                         \/ kind[o] # "Group" /\ JoinsGroup(o) /\ x = o
      BY <1>7, <2>6 DEF Joins, A
    <3>2. CASE kind[o] = "Group" /\ x \in ToSet(kids[o])
      BY <1>1, <2>1, <2>3, <3>1, <3>2
    <3>3. CASE kind[o] # "Group" /\ JoinsGroup(o) /\ x = o
      <4>1. x \in E /\ x \in M /\ x \in A /\ x \in Ids
        BY <1>1, <2>1, <2>2, <3>3
      <4>2. ASSUME NEW p \in ToSet(kids[x]) PROVE kind[p] = "view"
        <5>1. p \in E /\ p \in Ids /\ kind[p] # kind[x] /\ kind[p] # "free" /\ kind[x] # "free"
          BY <1>1, <4>1, <4>2 DEF Made
        <5>2. kind[x] # "view"
          BY <1>4, <4>1, <4>2, EmptyIs
        <5>3. kind[x] = "DeTabs"
          BY <1>4, <3>3, <4>1, <5>1, <5>2
        <5>4. kind[p] # "Group"
          BY <3>3, <4>2, <5>3 DEF JoinsGroup
        <5> QED
          BY <1>4, <5>1, <5>3, <5>4
      <4> QED
        BY <2>3, <3>3, <4>1, <4>2
    <3> QED
      BY <3>1, <3>2, <3>3
  <2>7. \A d \in E : /\ d \in Ids /\ d # g /\ kids'[d] = kids[d] /\ kind'[d] = kind[d]
                     /\ ToSet(kids'[d]) \subseteq E
    BY <1>1, <1>12, <1>13, <2>5
  <2>8. Single(kids'[Main]) /\ Single(kids'[g])
    <3>1. g \notin M
      BY <1>5, <1>16, <1>19, IdsAre DEF M
    <3>2. Single(m)
      BY <1>1, <1>8, <1>9, <3>1
    <3> QED
      BY <1>11, <1>12, <2>4, <3>2
  <2>9. \A x \in ToSet(kids'[Main]) : x = g \/ (x \in M /\ x \notin A) \/ x \notin Ids
    BY <1>9, <1>11
  <2>10. \A d \in X : d = g \/ (d \in E /\ ~(d \in A /\ kind[d] = "Group"))
    OBVIOUS
  <2>11. ToSet(kids'[g]) = J
    BY <1>12 DEF J
  <2>12. \A d \in X : ToSet(kids'[d]) \subseteq X
    <3> SUFFICES ASSUME NEW d \in X, NEW x \in ToSet(kids'[d]) PROVE x \in X
      OBVIOUS
    <3>1. CASE d = g
      BY <2>6, <2>11, <3>1
    <3>2. CASE d \in E
      <4>1. x \in E /\ x \in ToSet(kids[d])
        BY <2>7, <3>2
      <4>2. x \notin A
        BY <2>2, <2>3, <3>2, <4>1
      <4> QED
        BY <4>1, <4>2
    <3> QED
      BY <2>10, <3>1, <3>2
  <2>13. \A d \in {Main} \cup X : Single(kids'[d])
    BY <1>1, <2>7, <2>8, <2>10
  <2>14. ASSUME NEW d \in {Main} \cup X, NEW e \in {Main} \cup X, d # e,
                NEW x \in ToSet(kids'[d]), x \in ToSet(kids'[e])
         PROVE  FALSE
    <3>0. \A y \in ToSet(kids'[Main]) : \A f \in X : y \notin ToSet(kids'[f])
      <4> SUFFICES ASSUME NEW y \in ToSet(kids'[Main]), NEW f \in X, y \in ToSet(kids'[f]) PROVE FALSE
        OBVIOUS
      <4>1. y \in E \/ y = g
        BY <2>7, <2>10, <2>11, <2>6
      <4>2. f \in E => y \in E
        BY <2>7
      <4>3. y \in E
        BY <2>6, <2>10, <2>11, <4>2
      <4>4. y \in M /\ y \notin A
        BY <1>1, <2>5, <2>9, <4>3
      <4>5. CASE f = g
        BY <2>6, <2>11, <4>4, <4>5
      <4>6. CASE f \in E
        BY <2>3, <2>7, <4>4, <4>6
      <4> QED
        BY <2>10, <4>5, <4>6
    <3>1. ASSUME NEW f \in X, f # g, NEW y \in ToSet(kids'[f]) PROVE y \notin J
      BY <2>6, <2>7, <2>10, <3>1
    <3>2. CASE d # Main /\ e # Main
      <4>1. d \in X /\ e \in X
        BY <3>2
      <4>2. CASE d = g \/ e = g
        BY <2>11, <2>14, <3>1, <4>1, <4>2
      <4>3. CASE d # g /\ e # g
        BY <1>1, <2>7, <2>10, <2>14, <4>1, <4>3
      <4> QED
        BY <4>2, <4>3
    <3> QED
      BY <2>14, <3>0, <3>2
  <2>15. ASSUME NEW d \in {Main} \cup X, NEW x \in ToSet(kids'[d]) \cap Ids
         PROVE  at'[x] = NameOf(kind', origin', d)
    <3>1. CASE d = Main
      <4>1. NameOf(kind', origin', Main) = Main /\ NameOf(kind, origin, Main) = Main
        BY DEF NameOf
      <4>2. CASE x = g
        BY <1>6, <2>15, <3>1, <4>1, <4>2
      <4>3. CASE x # g
        <5>1. x \in M /\ x \notin J
          BY <2>6, <2>9, <2>15, <3>1, <4>3
        <5>2. at[x] = Main
          BY <1>1, <2>15, <4>1, <5>1 DEF M
        <5> QED
          BY <1>6, <2>15, <3>1, <4>1, <4>3, <5>1, <5>2
      <4> QED
        BY <4>2, <4>3
    <3>2. CASE d = g
      <4>1. x \in J /\ x # g
        BY <2>5, <2>6, <2>11, <2>15, <3>2
      <4>2. at'[x] = g /\ origin'[g] = g
        BY <1>4, <1>5, <1>6, <2>15, <4>1
      <4> QED
        BY <1>5, <1>13, <3>2, <4>2 DEF NameOf
    <3>3. CASE d \in X /\ d # g
      <4>1. d \in E /\ x \in ToSet(kids[d]) /\ x \in E
        BY <2>7, <2>10, <2>15, <3>3
      <4>2. x \notin J /\ x # g
        BY <2>5, <2>6, <2>10, <3>3, <4>1
      <4>3. at'[x] = at[x] /\ at[x] = NameOf(kind, origin, d)
        BY <1>1, <1>6, <2>15, <4>1, <4>2
      <4>4. origin'[d] = origin[d] /\ kind'[d] = kind[d]
        BY <1>1, <1>4, <1>6, <2>7, <3>3, <4>1
      <4> QED
        BY <4>3, <4>4 DEF NameOf
    <3> QED
      BY <3>1, <3>2, <3>3
  <2>16. ASSUME NEW d \in X, NEW x \in ToSet(kids'[d])
         PROVE  kind'[x] # kind'[d] /\ \A p \in ToSet(kids'[x]) : kind'[p] = "view"
    <3>1. CASE d = g
      <4>1. x \in J /\ x \in E
        BY <2>6, <2>11, <2>16, <3>1
      <4>2. kind'[x] # "Group" /\ ToSet(kids'[x]) = ToSet(kids[x]) /\ ToSet(kids[x]) \subseteq E
        BY <2>6, <2>7, <4>1
      <4>3. \A p \in ToSet(kids[x]) : kind'[p] = "view"
        BY <2>6, <2>7, <4>1, <4>2
      <4> QED
        BY <1>13, <3>1, <4>2, <4>3
    <3>2. CASE d \in E
      <4>1. x \in ToSet(kids[d]) /\ x \in E
        BY <2>7, <2>16, <3>2
      <4> QED
        BY <1>1, <2>7, <3>2, <4>1
    <3> QED
      BY <2>10, <3>1, <3>2
  <2>17. Branches(kids', kind', origin', at', X, {Main} \cup X)
    BY <2>12, <2>13, <2>14, <2>15, <2>16 DEF Branches
  <2>18. ToSet(kids'[Main]) \cap Ids \subseteq X
    BY <1>1, <2>9
  <2>19. X \in SUBSET Ids
    BY <1>1, <1>5
  <2> QED
    BY <2>17, <2>18, <2>19 DEF Tree
<1>24. X \in SUBSET Ids
  BY <1>1, <1>5
<1>25. ToSet(area') = {}
  BY <1>11, EmptyIs
<1> HIDE DEF X
<1> QED
  BY <1>15, <1>21, <1>22, <1>23, <1>24, <1>25, GrowStep

-------------------------------------------------------------------------------
(* Pasting                                                                 *)

\* The new ids are above the last one, and differ.
LEMMA FreshIs ==
    ASSUME last \in Nat, NEW all \in SUBSET Ids, last + Cardinality(all) <= MaxIds
    PROVE  /\ IsFiniteSet(all) /\ Cardinality(all) \in Nat
           /\ \A o \in all : /\ Fresh(o, all) \in Ids /\ last < Fresh(o, all)
                             /\ Fresh(o, all) <= last + Cardinality(all)
           /\ \A o, p \in all : Fresh(o, all) = Fresh(p, all) => o = p
<1> DEFINE B(o) == {x \in all : x <= o}
<1>1. MaxIds \in Nat /\ Ids \subseteq Nat /\ IsFiniteSet(Ids)
  BY IdsAre, FS_Interval DEF Ids
<1>2. IsFiniteSet(all) /\ Cardinality(all) \in Nat
  BY <1>1, FS_Subset, FS_CardinalityType
<1>3. ASSUME NEW o \in all
      PROVE  IsFiniteSet(B(o)) /\ Cardinality(B(o)) \in Nat /\ Cardinality(B(o)) <= Cardinality(all)
  <2>1. B(o) \in SUBSET all
    OBVIOUS
  <2> HIDE DEF B
  <2> QED
    BY <1>2, <2>1, FS_Subset, FS_CardinalityType
<1>4. ASSUME NEW o \in all PROVE Cardinality(B(o)) >= 1
  <2>1. o \in B(o)
    BY <1>1
  <2> HIDE DEF B
  <2>2. Cardinality(B(o)) # 0
    BY <1>3, <2>1, FS_EmptySet
  <2> QED
    BY <1>3, <2>2
<1>5. ASSUME NEW o \in all, NEW p \in all, o < p
      PROVE  Cardinality(B(o)) < Cardinality(B(p))
  <2>1. o \in Nat /\ p \in Nat
    BY <1>1
  <2>2. B(o) \subseteq B(p)
    <3> SUFFICES ASSUME NEW x \in all, x <= o PROVE x <= p
      OBVIOUS
    <3>1. x \in Nat
      BY <1>1
    <3> QED
      BY <1>5, <2>1, <3>1
  <2>3. p \in B(p) /\ p \notin B(o)
    BY <1>5, <2>1
  <2>4. IsFiniteSet(B(p)) /\ Cardinality(B(p)) \in Nat /\ Cardinality(B(o)) \in Nat
    BY <1>3
  <2> DEFINE S == B(o)
             T == B(p)
  <2> HIDE DEF S, T
  <2>5. S \in SUBSET T /\ S # T /\ IsFiniteSet(T) /\ Cardinality(T) \in Nat /\ Cardinality(S) \in Nat
    BY <2>2, <2>3, <2>4 DEF S, T
  <2>6. Cardinality(S) <= Cardinality(T) /\ Cardinality(S) # Cardinality(T)
    BY <2>5, FS_Subset
  <2>7. Cardinality(S) < Cardinality(T)
    BY <2>5, <2>6
  <2> QED
    BY <2>7 DEF S, T
<1>6. \A o \in all : Fresh(o, all) = last + Cardinality(B(o))
  BY DEF Fresh
<1> HIDE DEF B
<1>7. ASSUME NEW o \in all
      PROVE  Fresh(o, all) \in Ids /\ last < Fresh(o, all) /\ Fresh(o, all) <= last + Cardinality(all)
  <2>1. Fresh(o, all) = last + Cardinality(B(o)) /\ Cardinality(B(o)) \in Nat
        /\ Cardinality(B(o)) >= 1 /\ Cardinality(B(o)) <= Cardinality(all)
    BY <1>3, <1>4, <1>6
  <2> QED
    BY <1>1, <1>2, <2>1 DEF Ids
<1>8. ASSUME NEW o \in all, NEW p \in all, Fresh(o, all) = Fresh(p, all) PROVE o = p
  <2>1. o \in Nat /\ p \in Nat
    BY <1>1
  <2>2. Cardinality(B(o)) = Cardinality(B(p)) /\ Cardinality(B(o)) \in Nat /\ Cardinality(B(p)) \in Nat
    <3>1. Cardinality(B(o)) \in Nat /\ Cardinality(B(p)) \in Nat
      BY <1>3
    <3>2. last + Cardinality(B(o)) = last + Cardinality(B(p))
      BY <1>6, <1>8
    <3> QED
      BY <3>1, <3>2
  <2>3. ~(o < p) /\ ~(p < o)
    BY <1>5, <2>2
  <2> QED
    BY <2>1, <2>3
<1> QED
  BY <1>2, <1>7, <1>8

\* A list with every component replaced by its copy.
LEMMA RenamedIs ==
    ASSUME NEW all, NEW s \in Seq(all), \A o \in all : Fresh(o, all) \in Ids,
           \A o, p \in all : Fresh(o, all) = Fresh(p, all) => o = p
    PROVE  LET t == [i \in 1..Len(s) |-> Fresh(s[i], all)]
           IN /\ t \in Seq(Ids)
              /\ \A x : x \in ToSet(t) <=> \E o \in ToSet(s) : x = Fresh(o, all)
              /\ Single(s) => Single(t)
              /\ s = <<>> => t = <<>>
<1> DEFINE t == [i \in 1..Len(s) |-> Fresh(s[i], all)]
<1>1. Len(s) \in Nat /\ DOMAIN s = 1..Len(s) /\ \A i \in 1..Len(s) : s[i] \in all
  BY SeqDom
<1>2. t \in [1..Len(s) -> Ids]
  BY <1>1
<1>3. t \in Seq(Ids) /\ DOMAIN t = 1..Len(s)
  BY <1>1, <1>2
<1>4. \A i \in 1..Len(s) : t[i] = Fresh(s[i], all)
  OBVIOUS
<1> HIDE DEF t
<1>5. \A x : x \in ToSet(t) <=> \E o \in ToSet(s) : x = Fresh(o, all)
  BY <1>1, <1>3, <1>4 DEF ToSet
<1>6. Single(s) => Single(t)
  BY <1>1, <1>3, <1>4 DEF Single
<1>7. s = <<>> => t = <<>>
  <2> SUFFICES ASSUME s = <<>> PROVE t = <<>>
    OBVIOUS
  <2>1. ToSet(s) = {}
    BY EmptyIs
  <2>2. ToSet(t) = {}
    BY <1>5, <2>1
  <2> QED
    BY <1>3, <2>2, NothingHeld
<1> QED
  BY <1>3, <1>5, <1>6, <1>7 DEF t

\* What is pasted: what the root holds in the copy.  Nothing of it holds the root.
LEMMA PastedIs ==
    ASSUME NEW kd \in [Ids -> {"view", "DeTabs", "Group", "free"}], NEW og, NEW n, NEW c,
           Copied(kd, og, n, c), NEW root \in DOMAIN c.kids
    PROVE  LET all == Under(c.kids, {root})
           IN /\ root \in all /\ all \subseteq DOMAIN c.kids /\ all \in SUBSET Ids
              /\ \A q \in all : ToSet(c.kids[q]) \subseteq all /\ root \notin ToSet(c.kids[q])
              /\ \A o \in all : o # root => \E q \in all : o \in ToSet(c.kids[q])
<1> DEFINE Y == DOMAIN c.kids
           k == c.kids
           all == Under(k, {root})
<1>1. /\ Y \in SUBSET Ids /\ k \in [Y -> Seq(Y)]
      /\ \A o \in Y : kd[o] = "view" => k[o] = <<>>
      /\ \A d \in Y : ToSet(k[d]) \subseteq Y
      /\ \A d \in Y : \A o \in ToSet(k[d]) :
            kd[o] # kd[d] /\ \A p \in ToSet(k[o]) : kd[p] = "view"
  BY DEF Copied, Branches
<1>2. \A x : x \in all <=>
             \/ x \in {root}
             \/ \E d \in {root} \cap Ids : x \in ToSet(k[d])
             \/ \E d \in {root} \cap Ids : \E e \in ToSet(k[d]) \cap Ids : x \in ToSet(k[e])
  BY UnderIs
<1>3. root \in Y
  OBVIOUS
<1> HIDE DEF Y, k, all
<1>4. /\ root \in Ids
      /\ \A x : x \in all <=> \/ x = root \/ x \in ToSet(k[root])
                              \/ \E e \in ToSet(k[root]) : x \in ToSet(k[e])
  BY <1>1, <1>2, <1>3
<1>5. root \in all /\ all \subseteq Y
  BY <1>1, <1>3, <1>4
<1>6. ASSUME NEW e \in ToSet(k[root]), NEW q \in ToSet(k[e]) PROVE k[q] = <<>>
  BY <1>1, <1>3, <1>6
<1>7. ASSUME NEW q \in all, NEW x \in ToSet(k[q]) PROVE x \in all /\ x # root
  <2>1. CASE q = root
    BY <1>1, <1>3, <1>4, <1>7, <2>1
  <2>2. CASE q \in ToSet(k[root])
    <3>1. x \in all
      BY <1>4, <1>7, <2>2
    <3>2. kd[x] = "view"
      BY <1>1, <1>3, <1>7, <2>2
    <3>3. x # root
      BY <1>1, <1>3, <2>2, <3>2, EmptyIs
    <3> QED
      BY <3>1, <3>3
  <2>3. ASSUME NEW e \in ToSet(k[root]), q \in ToSet(k[e]) PROVE FALSE
    BY <1>6, <1>7, <2>3, EmptyIs
  <2> QED
    BY <1>4, <2>1, <2>2, <2>3
<1>8. ASSUME NEW o \in all, o # root PROVE \E q \in all : o \in ToSet(k[q])
  BY <1>4, <1>8
<1>9. /\ root \in all /\ all \subseteq Y /\ all \in SUBSET Ids
      /\ \A q \in all : ToSet(k[q]) \subseteq all /\ root \notin ToSet(k[q])
      /\ \A o \in all : o # root => \E q \in all : o \in ToSet(k[q])
  BY <1>1, <1>5, <1>7, <1>8
<1> QED
  BY <1>9 DEF all, k, Y

\* Pasting adds to the lists of the tree.
LEMMA PasteNextStep ==
    ASSUME IInv, ~stale, NEW w \in 1..MaxEdits, PasteNext(w)
    PROVE  IInv' /\ \A d \in {Main} \cup Elements(kids) : ToSet(kids[d]) \subseteq ToSet(kids'[d])
<1> DEFINE c == pending[w].clip
           root == c.roots[pending[w].next]
           all == Under(c.kids, {root})
           new(o) == Fresh(o, all)
           made == {new(o) : o \in all}
           old == [n \in made |-> CHOOSE o \in all : new(o) = n]
           holder(o) == CHOOSE p \in all : o \in ToSet(c.kids[p])
           home == IF c.at[root] # Main /\ kind[c.at[root]] = "Group" THEN Main ELSE c.at[root]
           copied == [n \in Canvases |->
                        IF n \in made
                        THEN [i \in 1..Len(c.kids[old[n]]) |-> new(c.kids[old[n]][i])]
                        ELSE kids[n]]
           placed == home = Main \/ home \in ToSet(kids[Main])
           E == Elements(kids)
           Y == DOMAIN c.kids
           N == 1..(MaxIds + 2)
<1>1. /\ E \subseteq Ids /\ ToSet(kids[Main]) \cap Ids \subseteq E
      /\ \A d \in E : ToSet(kids[d]) \subseteq E
      /\ \A d \in {Main} \cup E : Single(kids[d])
      /\ \A d, e \in {Main} \cup E : d # e => ToSet(kids[d]) \cap ToSet(kids[e]) = {}
      /\ \A d \in {Main} \cup E : \A x \in ToSet(kids[d]) \cap Ids : at[x] = NameOf(kind, origin, d)
      /\ \A d \in E : \A x \in ToSet(kids[d]) :
            kind[x] # kind[d] /\ \A p \in ToSet(kids[x]) : kind[p] = "view"
      /\ \A x \in E : Made(kind, last, x)
  BY TreeIs
<1>2. ToSet(area) \cap E \subseteq ToSet(kids[Main])
  BY DEF IInv, AreaInv
<1>3. Types /\ MadeInv /\ CopyInv
  BY DEF IInv
<1>4. /\ kids \in Lists /\ kind \in [Ids -> {"view", "DeTabs", "Group", "free"}]
      /\ at \in [Ids -> Canvases] /\ last \in Views..MaxIds
      /\ \A x \in Ids : kind[x] = "view" => kids[x] = <<>>
      /\ last \in Nat /\ MaxIds \in Nat /\ origin \in [Ids -> Ids]
      /\ \A o \in Ids : origin[o] <= o /\ kind[origin[o]] = kind[o] /\ (o > last => origin[o] = o)
  BY <1>3, IdsAre DEF Types, MadeInv, OriginInv
<1>5. /\ pending[w] # NoPaste
      /\ last + Cardinality(all) <= MaxIds
      /\ last' = last + Cardinality(all)
      /\ kind' = [n \in Ids |-> IF n \in made THEN kind[old[n]] ELSE kind[n]]
      /\ origin' = [n \in Ids |-> IF n \in made THEN origin[old[n]] ELSE origin[n]]
      /\ at' = [n \in Ids |->
                   IF n \notin made THEN at[n]
                   ELSE IF n = new(root) THEN home
                   ELSE CopiedId(holder(old[n]), new(holder(old[n])), c.at[old[n]])]
      /\ kids' = IF placed THEN [copied EXCEPT ![home] = Append(@, new(root))] ELSE copied
      /\ cur' = IF Len(c.roots) = 1 THEN new(root) ELSE cur
      /\ pending' = [pending EXCEPT ![w] = IF @.next = Len(c.roots) THEN NoPaste
                                           ELSE [clip |-> c, next |-> @.next + 1]]
      /\ UNCHANGED <<area, clip, stale, edits>>
  BY DEF PasteNext
<1>6. /\ Copied(kind, origin, last, c) /\ pending[w].next \in 1..Len(c.roots)
      /\ pending[w] = [clip |-> c, next |-> pending[w].next]
  BY <1>3, <1>5 DEF CopyInv, Running
<1>7. /\ Y \in SUBSET Ids /\ c.kids \in [Y -> Seq(Y)] /\ c.at \in [Y -> Canvases]
      /\ c.roots \in Seq(Y)
      /\ \A d \in Y : Single(c.kids[d])
      /\ \A d, e \in Y : d # e => ToSet(c.kids[d]) \cap ToSet(c.kids[e]) = {}
      /\ \A d \in Y : \A o \in ToSet(c.kids[d]) \cap Ids : c.at[o] = NameOf(kind, origin, d)
      /\ \A d \in Y : \A o \in ToSet(c.kids[d]) :
            kind[o] # kind[d] /\ \A p \in ToSet(c.kids[o]) : kind[p] = "view"
      /\ \A o \in Y : Made(kind, last, o) /\ (kind[o] = "view" => c.kids[o] = <<>>)
      /\ \A r \in ToSet(c.roots) : c.at[r] \in Ids =>
             /\ c.at[r] <= last
             /\ \/ kind[c.at[r]] = "Group"
                \/ /\ kind[c.at[r]] = "DeTabs" /\ kind[r] # "DeTabs"
                   /\ \A p \in ToSet(c.kids[r]) : kind[p] = "view"
  <2> HIDE DEF c
  <2> QED
    BY <1>6 DEF Copied, Branches
<1>8. root \in Y /\ root \in ToSet(c.roots) /\ Len(c.roots) \in Nat
  <2> DEFINE rs == c.roots
  <2>1. rs \in Seq(Y)
    BY <1>7
  <2>2. pending[w].next \in 1..Len(rs)
    BY <1>6
  <2> HIDE DEF rs, c
  <2>3. Len(rs) \in Nat /\ DOMAIN rs = 1..Len(rs) /\ \A i \in 1..Len(rs) : rs[i] \in Y
    BY <2>1, SeqDom
  <2>4. rs[pending[w].next] \in Y /\ rs[pending[w].next] \in ToSet(rs)
    BY <2>2, <2>3 DEF ToSet
  <2> QED
    BY <2>3, <2>4 DEF rs
<1>9. /\ root \in all /\ all \subseteq Y /\ all \in SUBSET Ids
      /\ \A q \in all : ToSet(c.kids[q]) \subseteq all /\ root \notin ToSet(c.kids[q])
      /\ \A o \in all : o # root => \E q \in all : o \in ToSet(c.kids[q])
  <2> HIDE DEF c, root
  <2> QED
    BY <1>4, <1>6, <1>8, PastedIs
<1> HIDE DEF all
<1>10. /\ Cardinality(all) \in Nat
       /\ \A o \in all : new(o) \in Ids /\ last < new(o) /\ new(o) <= last'
       /\ \A o, p \in all : new(o) = new(p) => o = p
  BY <1>4, <1>5, <1>9, FreshIs
<1> HIDE DEF new
<1>11. \A o \in all : new(o) \in made /\ old[new(o)] = o
  <2> SUFFICES ASSUME NEW o \in all PROVE new(o) \in made /\ old[new(o)] = o
    OBVIOUS
  <2>1. new(o) \in made
    OBVIOUS
  <2>2. \A p \in all : new(p) = new(o) <=> p = o
    BY <1>10
  <2>3. old[new(o)] = CHOOSE p \in all : new(p) = new(o)
    BY <2>1
  <2>4. (CHOOSE p \in all : new(p) = new(o)) = o
    BY <2>2
  <2> QED
    BY <2>1, <2>3, <2>4
<1>12. \A n \in made : n \in Ids /\ last < n /\ n <= last' /\ old[n] \in all /\ old[n] \in Y /\ n = new(old[n])
  <2> SUFFICES ASSUME NEW n \in made
               PROVE  n \in Ids /\ last < n /\ n <= last' /\ old[n] \in all /\ old[n] \in Y /\ n = new(old[n])
    OBVIOUS
  <2>1. PICK o \in all : n = new(o)
    OBVIOUS
  <2>2. old[n] = o
    BY <1>11, <2>1
  <2> QED
    BY <1>9, <1>10, <2>1, <2>2
<1>13. \A o \in all : \A p \in all : o \in ToSet(c.kids[p]) => holder(o) = p
  <2> SUFFICES ASSUME NEW o \in all, NEW p \in all, o \in ToSet(c.kids[p]) PROVE holder(o) = p
    OBVIOUS
  <2>1. \A q \in all : o \in ToSet(c.kids[q]) <=> q = p
    BY <1>7, <1>9
  <2> QED
    BY <2>1
<1>14. /\ home \in Canvases
       /\ home \in Ids => /\ home <= last /\ kind[home] = "DeTabs" /\ kind[root] # "DeTabs"
                          /\ \A p \in ToSet(c.kids[root]) : kind[p] = "view"
       /\ home = Main \/ home \in Ids
  <2>1. c.at[root] \in Canvases
    BY <1>7, <1>8
  <2>2. c.at[root] = Main \/ c.at[root] \in Ids
    BY <2>1, IdsAre
  <2>3. c.at[root] \in Ids =>
          /\ c.at[root] <= last
          /\ \/ kind[c.at[root]] = "Group"
             \/ /\ kind[c.at[root]] = "DeTabs" /\ kind[root] # "DeTabs"
                /\ \A p \in ToSet(c.kids[root]) : kind[p] = "view"
    BY <1>7, <1>8
  <2> HIDE DEF c, root
  <2>4. CASE home = Main
    BY <2>4, IdsAre
  <2>5. CASE home # Main
    BY <2>1, <2>2, <2>3, <2>5
  <2> QED
    BY <2>4, <2>5
<1> HIDE DEF home, holder, old, made
<1>15. \A x \in Ids : Made(kind, last, x) => x \notin made
  <2> SUFFICES ASSUME NEW x \in Ids, Made(kind, last, x), x \in made PROVE FALSE
    OBVIOUS
  <2>1. x <= last /\ last < x /\ x \in Nat
    BY <1>12 DEF Made, Ids
  <2> QED
    BY <1>4, <2>1
<1>16. home \notin made /\ Main \notin made /\ \A d \in E : d \notin made
  <2>1. home \in Ids => home \notin made
    <3> SUFFICES ASSUME home \in Ids, home \in made PROVE FALSE
      OBVIOUS
    <3>1. home <= last /\ last < home /\ home \in Nat
      BY <1>12, <1>14 DEF Ids
    <3> QED
      BY <1>4, <3>1
  <2>2. Main \notin made
    BY <1>12, IdsAre
  <2> QED
    BY <1>1, <1>14, <1>15, <2>1, <2>2
<1>17. ASSUME NEW n \in made
       PROVE  /\ copied[n] \in Seq(Ids)
              /\ \A x : x \in ToSet(copied[n]) <=> \E o \in ToSet(c.kids[old[n]]) : x = new(o)
              /\ Single(copied[n]) /\ (kind[old[n]] = "view" => copied[n] = <<>>)
  <2> DEFINE s == c.kids[old[n]]
  <2>1. old[n] \in all /\ old[n] \in Y /\ n \in Canvases
    BY <1>12, IdsAre
  <2>2. s \in Seq(Y) /\ ToSet(s) \subseteq all /\ Single(s) /\ (kind[old[n]] = "view" => s = <<>>)
    BY <1>7, <1>9, <2>1
  <2>3. copied[n] = [i \in 1..Len(s) |-> Fresh(s[i], all)]
    BY <2>1 DEF new
  <2> DEFINE t == [i \in 1..Len(s) |-> Fresh(s[i], all)]
  <2> HIDE DEF s, copied, Y
  <2>4. s \in Seq(all)
    BY <2>2, SeqNarrow
  <2>5. /\ \A o \in all : Fresh(o, all) \in Ids
        /\ \A o, p \in all : Fresh(o, all) = Fresh(p, all) => o = p
    BY <1>10 DEF new
  <2>6. /\ t \in Seq(Ids) /\ \A x : x \in ToSet(t) <=> \E o \in ToSet(s) : x = Fresh(o, all)
        /\ Single(s) => Single(t)
        /\ s = <<>> => t = <<>>
    BY <2>4, <2>5, RenamedIs
  <2>7. copied[n] = t
    BY <2>3
  <2> HIDE DEF t
  <2> QED
    BY <2>2, <2>6, <2>7 DEF s, new
<1>18. \A n \in Canvases : n \notin made => copied[n] = kids[n]
  OBVIOUS
<1>19. copied \in Lists
  <2>1. \A n \in Canvases : copied[n] \in Seq(N)
    <3> SUFFICES ASSUME NEW n \in Canvases PROVE copied[n] \in Seq(N)
      OBVIOUS
    <3>1. CASE n \in made
      <4>1. copied[n] \in Seq(Ids) /\ Ids \subseteq N
        BY <1>17, <3>1, IdsAre
      <4>2. ToSet(copied[n]) \subseteq Ids
        BY <4>1, SeqDom
      <4> HIDE DEF copied, N
      <4>3. ToSet(copied[n]) \subseteq N
        BY <4>1, <4>2
      <4> QED
        BY <4>1, <4>3, SeqNarrow
    <3>2. CASE n \notin made
      BY <1>4, <1>18, <3>2 DEF Lists
    <3> QED
      BY <3>1, <3>2
  <2>2. copied = [n \in Canvases |-> copied[n]]
    OBVIOUS
  <2> HIDE DEF copied
  <2> QED
    BY <2>1, <2>2 DEF Lists
<1> HIDE DEF copied
<1> DEFINE r == new(root)
           l == Append(kids[home], r)
<1>20. /\ l \in Seq(1..(MaxIds + 2)) /\ ToSet(l) = ToSet(kids[home]) \cup {r}
       /\ Single(kids[home]) /\ r \notin ToSet(kids[home]) => Single(l)
  <2>1. kids[home] \in Seq(1..(MaxIds + 2)) /\ r \in 1..(MaxIds + 2)
    BY <1>4, <1>9, <1>10, <1>14, IdsAre DEF Lists
  <2> HIDE DEF r
  <2> QED
    BY <2>1, AppendKid
<1> HIDE DEF l, r
<1>21. kids' \in Lists /\ \A d \in Canvases : kids'[d] = IF placed /\ d = home THEN l ELSE copied[d]
  <2>1. copied[home] = kids[home]
    BY <1>14, <1>16, <1>18
  <2>2. kids' = IF placed THEN [copied EXCEPT ![home] = l] ELSE copied
    BY <1>5, <2>1 DEF l, r
  <2> QED
    BY <1>14, <1>19, <1>20, <2>2 DEF Lists
<1> HIDE DEF placed
<1>22. /\ r \in made /\ r \in Ids /\ last < r /\ r <= last' /\ old[r] = root /\ root \in Ids
  BY <1>9, <1>11, <1>12 DEF r
<1>23. \A n \in made : kids'[n] = copied[n]
  BY <1>12, <1>16, <1>21, IdsAre
<1>24. \A d \in Canvases : d \notin made =>
          /\ kids'[d] = kids[d] \/ (placed /\ d = home /\ ToSet(kids'[d]) = ToSet(kids[d]) \cup {r})
          /\ (d # home \/ ~placed) => kids'[d] = kids[d]
          /\ ToSet(kids[d]) \subseteq ToSet(kids'[d])
          /\ ToSet(kids'[d]) \subseteq ToSet(kids[d]) \cup {r}
  BY <1>18, <1>20, <1>21
<1>25. /\ kind' \in [Ids -> {"view", "DeTabs", "Group", "free"}]
       /\ origin' \in [Ids -> Ids]
       /\ \A n \in made : kind'[n] = kind[old[n]] /\ origin'[n] = origin[old[n]]
       /\ \A n \in Ids : n \notin made => kind'[n] = kind[n] /\ origin'[n] = origin[n]
  <2>1. \A n \in made : n \in Ids /\ old[n] \in Ids
    BY <1>9, <1>12
  <2> QED
    BY <1>4, <1>5, <2>1
<1>26. /\ at'[r] = home /\ \A n \in Ids : n \notin made => at'[n] = at[n]
       /\ \A n \in made : n # r =>
             at'[n] = CopiedId(holder(old[n]), new(holder(old[n])), c.at[old[n]])
  <2>1. at'[r] = home
    BY <1>5, <1>22 DEF r
  <2>2. \A n \in Ids : n \notin made => at'[n] = at[n]
    BY <1>5
  <2>3. \A n \in made : n # r => at'[n] = CopiedId(holder(old[n]), new(holder(old[n])), c.at[old[n]])
    BY <1>5, <1>12 DEF r
  <2> QED
    BY <2>1, <2>2, <2>3
<1>27. ASSUME NEW n \in made, n # r
       PROVE  \E p \in all : /\ old[n] \in ToSet(c.kids[p]) /\ new(p) \in made /\ old[new(p)] = p
                             /\ at'[n] = IF kind[p] = "DeTabs" THEN new(p) ELSE c.at[old[n]]
  <2>1. old[n] \in all /\ old[n] # root
    BY <1>12, <1>27 DEF r
  <2>2. PICK p \in all : old[n] \in ToSet(c.kids[p])
    BY <1>9, <2>1
  <2>3. holder(old[n]) = p
    BY <1>13, <2>1, <2>2
  <2>4. at'[n] = CopiedId(p, new(p), c.at[old[n]])
    BY <1>26, <1>27, <2>3
  <2>5. new(p) \in made /\ old[new(p)] = p
    BY <1>11
  <2> HIDE DEF c
  <2> QED
    BY <2>2, <2>4, <2>5 DEF CopiedId
<1>28. at' \in [Ids -> Canvases]
  <2>1. \A n \in Ids : at'[n] \in Canvases
    <3> SUFFICES ASSUME NEW n \in Ids PROVE at'[n] \in Canvases
      OBVIOUS
    <3>1. CASE n \notin made
      BY <1>4, <1>26, <3>1
    <3>2. CASE n = r
      BY <1>14, <1>26, <3>2
    <3>3. CASE n \in made /\ n # r
      <4>1. PICK p \in all : /\ new(p) \in made
                             /\ at'[n] = IF kind[p] = "DeTabs" THEN new(p) ELSE c.at[old[n]]
        BY <1>27, <3>3
      <4>2. new(p) \in Canvases
        BY <1>12, <4>1, IdsAre
      <4>3. c.at[old[n]] \in Canvases
        BY <1>7, <1>12, <3>3
      <4> HIDE DEF c
      <4> QED
        BY <4>1, <4>2, <4>3
    <3> QED
      BY <3>1, <3>2, <3>3
  <2>2. at' = [n \in Ids |-> at'[n]]
    BY <1>5
  <2> QED
    BY <2>1, <2>2
<1>29. Types'
  <2>1. \A x \in Ids : kind'[x] = "view" => kids'[x] = <<>>
    <3> SUFFICES ASSUME NEW x \in Ids, kind'[x] = "view" PROVE kids'[x] = <<>>
      OBVIOUS
    <3>1. CASE x \in made
      BY <1>17, <1>23, <1>25, <3>1
    <3>2. CASE x \notin made
      <4>1. kind[x] = "view" /\ kids[x] = <<>>
        BY <1>4, <1>25, <3>2
      <4>2. x # home
        BY <1>14, <4>1
      <4> QED
        BY <1>24, <3>2, <4>1, <4>2, IdsAre
    <3> QED
      BY <3>1, <3>2
  <2>2. last' \in Views..MaxIds
    <3>1. Views \in Nat /\ last' = last + Cardinality(all) /\ last + Cardinality(all) <= MaxIds
      BY <1>5, IdsAre
    <3>2. last \in Nat /\ last >= Views /\ MaxIds \in Nat /\ Cardinality(all) \in Nat
      BY <1>4, <1>10, <3>1
    <3> QED
      BY <3>1, <3>2
  <2>3. cur' \in {None, Frame} \cup Ids
    BY <1>3, <1>5, <1>22 DEF Types, r
  <2> QED
    BY <1>3, <1>5, <1>21, <1>25, <1>28, <2>1, <2>2, <2>3 DEF Types
<1>30. \A x \in Ids : Made(kind, last, x) => Made(kind', last', x)
  <2> SUFFICES ASSUME NEW x \in Ids, Made(kind, last, x) PROVE Made(kind', last', x)
    OBVIOUS
  <2>1. x <= last /\ kind[x] # "free" /\ x \in Nat /\ kind'[x] = kind[x]
    BY <1>15, <1>25 DEF Made, Ids
  <2>2. x <= last'
    BY <1>4, <1>5, <1>10, <2>1
  <2> QED
    BY <2>1, <2>2 DEF Made
<1>31. \A n \in made : Made(kind', last', n)
  <2> SUFFICES ASSUME NEW n \in made PROVE Made(kind', last', n)
    OBVIOUS
  <2>1. n <= last' /\ kind'[n] = kind[old[n]] /\ old[n] \in Y
    BY <1>12, <1>25
  <2>2. kind[old[n]] # "free"
    BY <1>7, <2>1 DEF Made
  <2> QED
    BY <2>1, <2>2 DEF Made
<1>32. \A n \in made : \A x \in ToSet(kids'[n]) :
          /\ x \in made /\ x # r /\ old[x] \in ToSet(c.kids[old[n]])
          /\ x = new(old[x])
  <2> SUFFICES ASSUME NEW n \in made, NEW x \in ToSet(kids'[n])
               PROVE  x \in made /\ x # r /\ old[x] \in ToSet(c.kids[old[n]]) /\ x = new(old[x])
    OBVIOUS
  <2>1. PICK o \in ToSet(c.kids[old[n]]) : x = new(o)
    BY <1>17, <1>23
  <2>2. old[n] \in all
    BY <1>12
  <2>3. o \in all /\ o # root
    BY <1>9, <2>2
  <2>4. x \in made /\ old[x] = o
    BY <1>11, <2>1, <2>3
  <2> QED
    BY <1>22, <2>1, <2>3, <2>4
<1>48. \A o \in Ids : o <= last => o \notin made
  <2> SUFFICES ASSUME NEW o \in Ids, o <= last, o \in made PROVE FALSE
    OBVIOUS
  <2>1. last < o /\ o \in Nat
    BY <1>12 DEF Ids
  <2> QED
    BY <1>4, <2>1
<1>49. ASSUME NEW o \in Ids
       PROVE  origin'[o] <= o /\ kind'[origin'[o]] = kind'[o] /\ (o > last' => origin'[o] = o)
  <2>0. last <= last' /\ last' \in Nat /\ o \in Nat
    BY <1>4, <1>5, <1>10 DEF Ids
  <2>1. CASE o \in made
    <3>1. old[o] \in Y /\ old[o] \in Ids /\ last < o /\ o <= last' /\ o = new(old[o])
      BY <1>9, <1>12, <2>1
    <3> DEFINE b == old[o]
    <3>2. b <= last /\ b \in Ids
      BY <1>7, <3>1 DEF Made
    <3>3. origin'[o] = origin[b] /\ kind'[o] = kind[b]
      BY <1>25, <2>1
    <3> HIDE DEF b
    <3>4. origin[b] \in Ids /\ origin[b] <= b /\ kind[origin[b]] = kind[b] /\ origin[b] \in Nat /\ b \in Nat
      BY <1>4, <3>2 DEF Ids
    <3>5. origin[b] <= last /\ origin[b] <= o /\ ~(o > last')
      BY <1>4, <2>0, <3>1, <3>2, <3>4
    <3>6. kind'[origin[b]] = kind[b]
      BY <1>25, <1>48, <3>4, <3>5
    <3> QED
      BY <3>3, <3>5, <3>6
  <2>2. CASE o \notin made
    <3>1. /\ origin'[o] = origin[o] /\ kind'[o] = kind[o] /\ origin[o] \in Ids
          /\ origin[o] <= o /\ kind[origin[o]] = kind[o] /\ (o > last => origin[o] = o)
      BY <1>4, <1>25, <2>2
    <3>2. o > last' => o > last
      BY <1>4, <2>0
    <3>3. o <= last => origin[o] <= last
      BY <1>4, <2>0, <3>1 DEF Ids
    <3>4. o <= last \/ o > last
      BY <1>4, <2>0
    <3>5. origin[o] \notin made
      BY <1>48, <2>2, <3>1, <3>3, <3>4
    <3> QED
      BY <1>25, <3>1, <3>2, <3>5
  <2> QED
    BY <2>1, <2>2
<1>33. MadeInv'
  <2>1. \A d \in Canvases : \A x \in ToSet(kids'[d]) \cap Ids : Made(kind', last', x)
    <3> SUFFICES ASSUME NEW d \in Canvases, NEW x \in ToSet(kids'[d]) \cap Ids PROVE Made(kind', last', x)
      OBVIOUS
    <3>1. CASE d \in made
      BY <1>31, <1>32, <3>1
    <3>2. CASE d \notin made
      <4>1. x \in ToSet(kids[d]) \/ x = r
        BY <1>24, <3>2
      <4> QED
        BY <1>3, <1>22, <1>30, <1>31, <4>1 DEF MadeInv
    <3> QED
      BY <3>1, <3>2
  <2>2. \A x \in ToSet(area') : Made(kind', last', x)
    <3>1. ToSet(area) \subseteq Ids /\ area' = area
      BY <1>3, <1>5, SeqDom DEF Types
    <3> QED
      BY <1>3, <1>30, <3>1 DEF MadeInv
  <2>3. cur' \in Ids => Made(kind', last', cur')
    <3>1. cur' = r \/ cur' = cur
      BY <1>5 DEF r
    <3> QED
      BY <1>3, <1>22, <1>30, <1>31, <3>1 DEF MadeInv
  <2>4. OriginInv'
    BY <1>49 DEF OriginInv
  <2> QED
    BY <2>1, <2>2, <2>3, <2>4 DEF MadeInv
<1>34. CopyInv'
  <2>1. \A o \in Ids : o <= last => o \notin made /\ kind'[o] = kind[o] /\ origin'[o] = origin[o]
    BY <1>25, <1>48
  <2>2. last' \in Nat /\ last <= last'
    BY <1>4, <1>5, <1>10
  <2>3. Copied(kind', origin', last', clip')
    <3>1. Copied(kind, origin, last, clip) /\ clip' = clip
      BY <1>3, <1>5 DEF CopyInv
    <3>2. Copied(kind', origin', last', clip)
      BY <1>4, <2>1, <2>2, <3>1, CopyKept
    <3> QED
      BY <3>1, <3>2
  <2>4. Copied(kind', origin', last', c)
    <3> HIDE DEF c
    <3> QED
      BY <1>4, <1>6, <2>1, <2>2, CopyKept
  <2> DEFINE p == pending[w]
             p2 == IF p.next = Len(c.roots) THEN NoPaste ELSE [clip |-> c, next |-> p.next + 1]
  <2>5. Running(kind', origin', last', p2)
    <3>1. CASE p.next = Len(c.roots)
      BY <3>1 DEF Running
    <3>2. CASE p.next # Len(c.roots)
      <4> DEFINE q == p.next
      <4>1. q + 1 \in 1..Len(c.roots)
        BY <1>6, <1>8, <3>2
      <4>3. p2 = [clip |-> c, next |-> q + 1]
        BY <3>2
      <4> HIDE DEF c, q, p2, p
      <4>4. p2.clip = c /\ p2.next \in 1..Len(c.roots) /\ p2 = [clip |-> p2.clip, next |-> p2.next]
        BY <4>1, <4>3
      <4> QED
        BY <2>4, <4>4 DEF Running
    <3> QED
      BY <3>1, <3>2
  <2>11. DOMAIN pending = 1..MaxEdits /\ \A n \in 1..MaxEdits : Running(kind, origin, last, pending[n])
    BY <1>3 DEF CopyInv
  <2>12. DOMAIN pending' = DOMAIN pending /\ \A n \in DOMAIN pending : n # w => pending'[n] = pending[n]
    BY <1>5
  <2>13. pending'[w] = p2
    <3> DEFINE more == [clip |-> c, next |-> p.next + 1]
               L == Len(c.roots)
    <3>1. w \in DOMAIN pending
      BY <2>11
    <3>2. pending' = [pending EXCEPT ![w] = IF p.next = L THEN NoPaste ELSE more]
      BY <1>5
    <3> HIDE DEF p, more, L
    <3>3. pending'[w] = IF p.next = L THEN NoPaste ELSE more
      BY <3>1, <3>2
    <3> QED
      BY <3>3 DEF more, L
  <2> HIDE DEF p, p2
  <2>8. DOMAIN pending' = 1..MaxEdits /\ \A n \in 1..MaxEdits : pending'[n] = p2 \/ pending'[n] = pending[n]
    BY <2>11, <2>12, <2>13
  <2>9. \A n \in 1..MaxEdits : Running(kind', origin', last', pending[n])
    <3> SUFFICES ASSUME NEW n \in 1..MaxEdits PROVE Running(kind', origin', last', pending[n])
      OBVIOUS
    <3>1. Running(kind, origin, last, pending[n]) /\ last \in Nat
      BY <1>4, <2>11
    <3>2. \A o \in Ids : o <= last => kind'[o] = kind[o] /\ origin'[o] = origin[o]
      BY <2>1
    <3> HIDE DEF made
    <3> QED
      BY <2>2, <3>1, <3>2, RunningKept
  <2>10. \A n \in 1..MaxEdits : Running(kind', origin', last', pending'[n])
    BY <2>5, <2>8, <2>9
  <2>7. clip' = NoClip \/ clip'.roots # <<>>
    BY <1>3, <1>5 DEF CopyInv
  <2> QED
    BY <2>3, <2>7, <2>8, <2>10 DEF CopyInv
<1> HIDE DEF c, root, E, Y
<1> DEFINE X == E \cup made
<1>35. /\ \A d \in X : d \in Ids /\ d \in Canvases /\ d # Main
       /\ \A d \in {Main} \cup E : d \in Canvases /\ d \notin made
       /\ \A d \in {Main} \cup X : d \in {Main} \cup E \/ d \in made
  BY <1>1, <1>12, <1>16, IdsAre
<1>36. r \notin E /\ \A d \in {Main} \cup E : r \notin ToSet(kids[d])
  <2>1. r \notin E
    BY <1>16, <1>22
  <2>2. \A d \in {Main} \cup E : r \notin ToSet(kids[d])
    BY <1>1, <1>22, <2>1
  <2> QED
    BY <2>1, <2>2
<1>37. \A d \in X : ToSet(kids'[d]) \subseteq X
  <2> SUFFICES ASSUME NEW d \in X PROVE ToSet(kids'[d]) \subseteq X
    OBVIOUS
  <2>1. CASE d \in made
    BY <1>32, <2>1
  <2>2. CASE d \in E
    BY <1>1, <1>22, <1>24, <1>35, <2>2
  <2> QED
    BY <2>1, <2>2
<1>38. \A d \in {Main} \cup X : Single(kids'[d])
  <2> SUFFICES ASSUME NEW d \in {Main} \cup X PROVE Single(kids'[d])
    OBVIOUS
  <2>1. CASE d \in made
    BY <1>17, <1>23, <2>1
  <2>2. CASE d \in {Main} \cup E
    <3>1. Single(kids[d]) /\ r \notin ToSet(kids[d]) /\ d \in Canvases /\ d \notin made
      BY <1>1, <1>35, <1>36, <2>2
    <3>2. kids'[d] = kids[d] \/ (d = home /\ kids'[d] = l)
      BY <1>18, <1>21, <3>1
    <3> QED
      BY <1>20, <3>1, <3>2
  <2> QED
    BY <1>35, <2>1, <2>2
<1>39. ASSUME NEW d \in {Main} \cup X, NEW e \in {Main} \cup X, d # e,
              NEW x \in ToSet(kids'[d]), x \in ToSet(kids'[e])
       PROVE  FALSE
  <2>0. ASSUME NEW f \in made, NEW h \in {Main} \cup E, NEW y \in ToSet(kids'[f]), y \in ToSet(kids'[h])
        PROVE  FALSE
    <3>1. y \in made /\ y # r /\ y \in Ids
      BY <1>12, <1>32, <2>0
    <3>2. y \in ToSet(kids[h])
      BY <1>24, <1>35, <2>0, <3>1
    <3>3. Made(kind, last, y)
      BY <1>3, <1>35, <3>1, <3>2 DEF MadeInv
    <3> QED
      BY <1>15, <3>1, <3>3
  <2>1. CASE d \in made /\ e \in made
    <3>1. old[d] \in Y /\ old[e] \in Y /\ old[d] # old[e]
      BY <1>12, <1>39, <2>1
    <3>2. old[x] \in ToSet(c.kids[old[d]]) /\ old[x] \in ToSet(c.kids[old[e]])
      BY <1>32, <1>39, <2>1
    <3> QED
      BY <1>7, <3>1, <3>2
  <2>2. CASE d \in {Main} \cup E /\ e \in {Main} \cup E
    <3>1. CASE x = r
      BY <1>24, <1>35, <1>36, <1>39, <2>2, <3>1
    <3>2. CASE x # r
      <4>1. x \in ToSet(kids[d]) /\ x \in ToSet(kids[e])
        BY <1>24, <1>35, <1>39, <2>2, <3>2
      <4> QED
        BY <1>1, <1>39, <2>2, <4>1
    <3> QED
      BY <3>1, <3>2
  <2> QED
    BY <1>35, <1>39, <2>0, <2>1, <2>2
<1>40. ASSUME NEW d \in {Main} \cup X, NEW x \in ToSet(kids'[d]) \cap Ids
       PROVE  at'[x] = NameOf(kind', origin', d)
  <2>1. CASE d \in made
    <3>1. x \in made /\ x # r /\ old[x] \in ToSet(c.kids[old[d]]) /\ old[d] \in all
      BY <1>12, <1>32, <1>40, <2>1
    <3>2. PICK p \in all : /\ old[x] \in ToSet(c.kids[p]) /\ new(p) \in made /\ old[new(p)] = p
                           /\ at'[x] = IF kind[p] = "DeTabs" THEN new(p) ELSE c.at[old[x]]
      BY <1>27, <3>1
    <3>3. p = old[d] /\ new(p) = d
      BY <1>7, <1>9, <1>12, <2>1, <3>1, <3>2
    <3>4. kind'[d] = kind[p] /\ p \in Y /\ p \in Ids /\ d # Main /\ p # Main
      BY <1>9, <1>12, <1>16, <1>25, <2>1, <3>3, IdsAre
    <3>5. CASE kind[p] = "DeTabs"
      BY <3>2, <3>3, <3>4, <3>5 DEF NameOf
    <3>6. CASE kind[p] # "DeTabs"
      <4>1. kind[p] # "view" /\ kind[p] # "free"
        BY <1>7, <3>2, <3>4, EmptyIs DEF Made
      <4>2. kind[p] = "Group"
        BY <1>4, <3>4, <3>6, <4>1
      <4>3. old[x] \in Ids
        BY <1>9, <1>12, <3>1
      <4>4. c.at[old[x]] = origin[p] /\ origin'[d] = origin[p]
        BY <1>7, <1>25, <2>1, <3>2, <3>3, <3>4, <4>2, <4>3 DEF NameOf
      <4> QED
        BY <3>2, <3>4, <3>6, <4>2, <4>4 DEF NameOf
    <3> QED
      BY <3>5, <3>6
  <2>2. CASE d \in {Main} \cup E
    <3>0. d \in Canvases /\ d \notin made /\ (d # Main => d \in Ids /\ kind'[d] = kind[d] /\ origin'[d] = origin[d])
      BY <1>25, <1>35, <2>2, IdsAre
    <3>1. NameOf(kind', origin', d) = NameOf(kind, origin, d)
      BY <3>0 DEF NameOf
    <3>2. CASE x = r
      <4>1. d = home
        BY <1>24, <1>36, <1>40, <2>2, <3>0, <3>2
      <4>2. NameOf(kind, origin, home) = home
        BY <1>14 DEF NameOf
      <4> QED
        BY <1>26, <3>1, <3>2, <4>1, <4>2
    <3>3. CASE x # r
      <4>1. x \in ToSet(kids[d])
        BY <1>24, <1>40, <3>0, <3>3
      <4>2. x \notin made
        BY <1>3, <1>15, <1>40, <3>0, <4>1 DEF MadeInv
      <4> QED
        BY <1>1, <1>26, <1>40, <2>2, <3>1, <4>1, <4>2
    <3> QED
      BY <3>2, <3>3
  <2> QED
    BY <1>35, <2>1, <2>2
<1>41. ASSUME NEW d \in X, NEW x \in ToSet(kids'[d])
       PROVE  kind'[x] # kind'[d] /\ \A p \in ToSet(kids'[x]) : kind'[p] = "view"
  <2>1. CASE d \in made
    <3>1. x \in made /\ old[x] \in ToSet(c.kids[old[d]]) /\ old[d] \in Y
      BY <1>12, <1>32, <1>41, <2>1
    <3>2. kind[old[x]] # kind[old[d]] /\ \A p \in ToSet(c.kids[old[x]]) : kind[p] = "view"
      BY <1>7, <3>1
    <3>3. \A p \in ToSet(kids'[x]) : kind'[p] = "view"
      BY <1>25, <1>32, <3>1, <3>2
    <3> QED
      BY <1>25, <2>1, <3>1, <3>2, <3>3
  <2>2. CASE d \in E
    <3>0. d \in Ids /\ d \in Canvases /\ d \notin made /\ kind'[d] = kind[d]
      BY <1>25, <1>35, <2>2
    <3>1. CASE x = r
      <4>1. d = home /\ home \in Ids
        BY <1>24, <1>36, <1>41, <2>2, <3>0, <3>1
      <4>2. kind'[r] = kind[root]
        BY <1>22, <1>25
      <4>3. \A p \in ToSet(kids'[r]) : kind'[p] = "view"
        BY <1>14, <1>22, <1>25, <1>32, <4>1
      <4> QED
        BY <1>14, <3>0, <3>1, <4>1, <4>2, <4>3
    <3>2. CASE x # r
      <4>1. x \in ToSet(kids[d]) /\ x \in E
        BY <1>1, <1>24, <1>41, <2>2, <3>0, <3>2
      <4>2. x \in Ids /\ x \notin made /\ x \in Canvases
        BY <1>1, <1>35, <4>1
      <4>3. ~(placed /\ x = home)
        <5> SUFFICES ASSUME placed, x = home PROVE FALSE
          OBVIOUS
        <5>1. x \in ToSet(kids[Main])
          BY <4>2, IdsAre DEF placed
        <5>2. d # Main
          BY <3>0, IdsAre
        <5> QED
          BY <1>1, <2>2, <4>1, <5>1, <5>2
      <4>4. kids'[x] = kids[x] /\ kind'[x] = kind[x]
        BY <1>24, <1>25, <4>2, <4>3
      <4>5. kind[x] # kind[d] /\ \A p \in ToSet(kids[x]) : kind[p] = "view" /\ p \in E
        BY <1>1, <2>2, <4>1
      <4>6. \A p \in E : kind'[p] = kind[p]
        BY <1>1, <1>25, <1>35
      <4> QED
        BY <3>0, <4>4, <4>5, <4>6
    <3> QED
      BY <3>1, <3>2
  <2> QED
    BY <2>1, <2>2
<1>42. Branches(kids', kind', origin', at', X, {Main} \cup X)
  BY <1>37, <1>38, <1>39, <1>40, <1>41 DEF Branches
<1>43. X \in SUBSET Ids /\ ToSet(kids'[Main]) \cap Ids \subseteq X
  <2>1. ToSet(kids'[Main]) \subseteq ToSet(kids[Main]) \cup {r}
    BY <1>24, <1>35
  <2> QED
    BY <1>1, <1>22, <1>35, <2>1
<1>44. Tree(kids', kind', origin', at', X)
  BY <1>42, <1>43 DEF Tree
<1>45. ToSet(area') \cap X \subseteq ToSet(kids'[Main])
  <2> SUFFICES ASSUME NEW x \in ToSet(area), x \in X PROVE x \in ToSet(kids'[Main])
    BY <1>5
  <2>1. x \notin made
    BY <1>3, <1>15, <1>35 DEF MadeInv
  <2>2. x \in ToSet(kids[Main])
    BY <1>2, <2>1
  <2> QED
    BY <1>24, <1>35, <2>2
<1>46. \A d \in {Main} \cup E : ToSet(kids[d]) \subseteq ToSet(kids'[d])
  BY <1>24, <1>35
<1> HIDE DEF X
<1>47. IInv'
  BY <1>29, <1>33, <1>34, <1>43, <1>44, <1>45, GrowStep
<1> QED
  BY <1>46, <1>47 DEF E

-------------------------------------------------------------------------------
(* The invariant                                                           *)

LEMMA InitKeeps ==
    ASSUME Init
    PROVE  IInv
<1> DEFINE tab == Views + 1
           group == Views + 2
           inner == [i \in 1..(Views - 1) |-> i + 1]
<1>1. /\ kids = [c \in Canvases |-> CASE c = Main -> <<1, tab>>
                                      [] c = tab -> <<group>>
                                      [] c = group -> inner
                                      [] OTHER -> <<>>]
      /\ kind = [o \in Ids |-> CASE o <= Views -> "view"
                                 [] o = tab -> "DeTabs"
                                 [] o = group -> "Group"
                                 [] OTHER -> "free"]
      /\ at = [o \in Ids |-> CASE o \in 2..Views -> group
                               [] o = group -> tab
                               [] OTHER -> Main]
      /\ last = Views + 2 /\ cur = None /\ area = <<>> /\ clip = NoClip
      /\ origin = [o \in Ids |-> o]
      /\ pending = [n \in 1..MaxEdits |-> NoPaste] /\ stale = FALSE
  BY DEF Init
<1>2. /\ Views \in Nat /\ Views >= 1 /\ MaxIds \in Nat /\ Views + 2 <= MaxIds
      /\ tab \in Ids /\ group \in Ids /\ 1 \in Ids /\ tab # group /\ 1 # tab /\ 1 # group
      /\ ~(tab <= Views) /\ ~(group <= Views) /\ Main # tab /\ Main # group
      /\ \A i \in 1..(Views - 1) : i + 1 \in Ids /\ i + 1 <= Views /\ i + 1 >= 2 /\ i + 1 # Main
      /\ tab <= last /\ group <= last
  BY <1>1, IdsAre DEF Ids, Main
<1>3. /\ kids[Main] = <<1, tab>> /\ kids[tab] = <<group>> /\ kids[group] = inner
      /\ \A c \in Canvases : c # Main /\ c # tab /\ c # group => kids[c] = <<>>
  BY <1>1, <1>2, IdsAre
<1>4. /\ kind \in [Ids -> {"view", "DeTabs", "Group", "free"}]
      /\ kind[tab] = "DeTabs" /\ kind[group] = "Group"
      /\ \A o \in Ids : o <= Views => kind[o] = "view"
  BY <1>1, <1>2
<1>5. /\ at \in [Ids -> Canvases]
      /\ origin \in [Ids -> Ids] /\ origin[group] = group
      /\ at[1] = Main /\ at[tab] = Main /\ at[group] = tab
      /\ \A o \in 2..Views : o \in Ids => at[o] = group
  <2>1. tab \notin 2..Views /\ group \notin 2..Views /\ 1 \notin 2..Views
    BY <1>2
  <2> HIDE DEF inner
  <2>2. at \in [Ids -> Canvases]
    BY <1>1, <1>2, IdsAre
  <2>3. origin \in [Ids -> Ids] /\ origin[group] = group
    BY <1>1, <1>2
  <2> QED
    BY <1>1, <1>2, <2>1, <2>2, <2>3
<1> DEFINE N == 1..(MaxIds + 2)
<1>6. inner \in Seq(N) /\ DOMAIN inner = 1..(Views - 1) /\ \A i \in 1..(Views - 1) : inner[i] = i + 1
  <2>1. Views - 1 \in Nat /\ \A i \in 1..(Views - 1) : i + 1 \in N
    BY <1>2
  <2>2. inner \in [1..(Views - 1) -> N]
    BY <2>1
  <2>3. \A i \in 1..(Views - 1) : inner[i] = i + 1
    OBVIOUS
  <2> DEFINE n == Views - 1
  <2>4. n \in Nat /\ inner \in [1..n -> N]
    BY <2>1, <2>2
  <2> HIDE DEF n, inner, N
  <2>5. inner \in Seq(N)
    BY <2>4
  <2>6. DOMAIN inner = 1..n
    BY <2>4
  <2> QED
    BY <2>3, <2>5, <2>6 DEF n
<1>7. /\ <<1, tab>> \in Seq(N) /\ ToSet(<<1, tab>>) = {1, tab} /\ Single(<<1, tab>>)
      /\ <<group>> \in Seq(N) /\ ToSet(<<group>>) = {group} /\ Single(<<group>>)
      /\ <<>> \in Seq(N)
  <2>1. 1 \in N /\ tab \in N /\ group \in N /\ 1 # tab
    BY <1>2, IdsAre
  <2> HIDE DEF N, tab, group
  <2>2. <<1, tab>> \in Seq(N) /\ ToSet(<<1, tab>>) = {1, tab}
    BY <2>1 DEF ToSet
  <2>3. Single(<<1, tab>>)
    BY <2>1 DEF Single
  <2> QED
    BY <2>1, <2>2, <2>3, OneIs, EmptySeq
<1>8. Single(inner) /\ \A x \in ToSet(inner) : x \in Ids /\ x <= Views /\ x \in 2..Views /\ x # Main
  <2>1. Single(inner)
    BY <1>2, <1>6 DEF Single
  <2>2. \A x \in ToSet(inner) : \E i \in 1..(Views - 1) : x = i + 1
    BY <1>6 DEF ToSet
  <2>3. \A i \in 1..(Views - 1) : i + 1 \in 2..Views
    BY <1>2
  <2> HIDE DEF inner
  <2> QED
    BY <1>2, <2>1, <2>2, <2>3
<1> HIDE DEF inner
<1>9. kids \in Lists
  <2>1. \A c \in Canvases : kids[c] \in Seq(N)
    <3> HIDE DEF N, tab, group
    <3> QED
      BY <1>3, <1>6, <1>7
  <2>2. kids = [c \in Canvases |-> kids[c]]
    BY <1>1
  <2> QED
    BY <2>1, <2>2 DEF Lists
<1>10. /\ 1 <= Views /\ tab <= last /\ group <= last
       /\ \A x \in Ids : x <= Views => x <= last
  BY <1>1, <1>2 DEF Ids
<1> HIDE DEF tab, group, N
<1>11. \A x \in Ids : x = 1 \/ x = tab \/ x = group \/ x <= Views => Made(kind, last, x)
  BY <1>2, <1>4, <1>10 DEF Made
<1>12. \A c \in Canvases : \A x \in ToSet(kids[c]) :
          \/ c = Main /\ (x = 1 \/ x = tab)
          \/ c = tab /\ x = group
          \/ c = group /\ x \in ToSet(inner)
  BY <1>3, <1>7, EmptyIs
<1>13. Types
  <2>1. \A o \in Ids : kind[o] = "view" => kids[o] = <<>>
    BY <1>2, <1>3, <1>4, IdsAre
  <2>2. last \in Views..MaxIds
    BY <1>1, <1>2
  <2>3. area \in Seq(Ids) /\ Len(area) <= MaxMarks
    BY <1>1, NothingSelected
  <2> QED
    BY <1>1, <1>4, <1>5, <1>9, <2>1, <2>2, <2>3 DEF Types
<1>14. MadeInv
  <2>1. \A c \in Canvases : \A o \in ToSet(kids[c]) \cap Ids : Made(kind, last, o)
    BY <1>8, <1>11, <1>12
  <2>2. cur \notin Ids
    BY <1>1, IdsAre DEF None, Main
  <2>3. \A o \in Ids : origin[o] <= o /\ kind[origin[o]] = kind[o] /\ (o > last => origin[o] = o)
    BY <1>1
  <2> QED
    BY <1>1, <2>1, <2>2, <2>3, EmptyIs DEF MadeInv, OriginInv
<1>15. CopyInv
  <2>1. Copied(kind, origin, last, NoClip)
    <3>1. DOMAIN NoClip.kids = {} /\ NoClip.kids = <<>> /\ NoClip.at = <<>> /\ NoClip.roots = <<>>
      BY DEF NoClip
    <3>2. <<>> \in [{} -> Seq({})] /\ <<>> \in [{} -> Canvases] /\ DOMAIN <<>> = {} /\ <<>> \in Seq({})
      OBVIOUS
    <3> QED
      BY <3>1, <3>2, EmptyIs DEF Copied, Branches
  <2>2. DOMAIN pending = 1..MaxEdits /\ \A n \in 1..MaxEdits : Running(kind, origin, last, pending[n])
    BY <1>1 DEF Running
  <2> QED
    BY <1>1, <2>1, <2>2 DEF CopyInv
<1> DEFINE X == {1, tab, group} \cup ToSet(inner)
<1>16. Branches(kids, kind, origin, at, X, {Main} \cup X)
  <2>0. /\ \A x \in ToSet(inner) : x # tab /\ x # group /\ kids[x] = <<>> /\ kind[x] = "view"
        /\ kids[1] = <<>> /\ kind[1] = "view" /\ 1 \notin ToSet(inner)
    <3>1. \A x \in ToSet(inner) : x # tab /\ x # group
      BY <1>2, <1>8
    <3>2. \A x \in ToSet(inner) : kids[x] = <<>> /\ kind[x] = "view"
      BY <1>3, <1>4, <1>8, <3>1, IdsAre
    <3>3. 1 \notin ToSet(inner)
      BY <1>8
    <3>4. kids[1] = <<>> /\ kind[1] = "view"
      BY <1>2, <1>3, <1>4, <1>10, IdsAre
    <3> QED
      BY <3>1, <3>2, <3>3, <3>4
  <2>1. \A c \in X : ToSet(kids[c]) \subseteq X
    BY <1>3, <1>7, <2>0, EmptyIs
  <2>2. \A c \in {Main} \cup X : Single(kids[c])
    BY <1>3, <1>7, <1>8, <2>0, EmptyIs
  <2>3. \A c \in {Main} \cup X : c \in Canvases
    BY <1>2, <1>8, IdsAre
  <2>4. \A c, d \in {Main} \cup X : c # d => ToSet(kids[c]) \cap ToSet(kids[d]) = {}
    BY <1>2, <1>12, <2>0, <2>3
  <2>5. \A c \in {Main} \cup X : \A o \in ToSet(kids[c]) \cap Ids : at[o] = NameOf(kind, origin, c)
    BY <1>2, <1>4, <1>5, <1>8, <1>12, <2>3 DEF NameOf
  <2>6. ASSUME NEW c \in X, NEW o \in ToSet(kids[c])
        PROVE  kind[o] # kind[c] /\ \A p \in ToSet(kids[o]) : kind[p] = "view"
    <3>1. c \in Canvases /\ c # Main
      BY <1>2, <1>8, <2>3, IdsAre
    <3>2. CASE c = tab /\ o = group
      BY <1>3, <1>4, <2>0, <3>2
    <3>3. CASE c = group /\ o \in ToSet(inner)
      BY <1>4, <2>0, <3>3, EmptyIs
    <3> QED
      BY <1>12, <2>6, <3>1, <3>2, <3>3
  <2> QED
    BY <2>1, <2>2, <2>4, <2>5, <2>6 DEF Branches
<1>17. X \in SUBSET Ids /\ ToSet(kids[Main]) \cap Ids \subseteq X
  BY <1>2, <1>3, <1>7, <1>8
<1>18. Tree(kids, kind, origin, at, X)
  BY <1>16, <1>17 DEF Tree
<1>19. TreeInv
  <2>1. \A o \in X : kind[o] = "view" => kids[o] = <<>>
    BY <1>13, <1>17 DEF Types
  <2> HIDE DEF X
  <2> QED
    BY <1>18, <2>1, ElementsTree DEF TreeInv
<1>20. AreaInv
  BY <1>1, EmptyIs DEF AreaInv
<1> QED
  BY <1>13, <1>14, <1>15, <1>19, <1>20 DEF IInv

LEMMA NextKeeps ==
    ASSUME IInv, [Next]_vars
    PROVE  IInv'
<1>1. CASE UNCHANGED vars
  <2>1. UNCHANGED <<kids, kind, at, origin, last, cur, area, clip, pending, stale>>
    BY <1>1 DEF vars
  <2> QED
    BY <2>1 DEF IInv, Types, MadeInv, OriginInv, TreeInv, AreaInv, CopyInv
<1>2. CASE Next
  <2>1. ~stale /\ Null \notin ToSet(kids[Main])
    BY <1>2 DEF Next, Explored
  <2>2. CASE Selecting
    BY <2>1, <2>2, SelectingKeeps
  <2>3. CASE DeleteKey \/ DeleteInMenu
    BY <2>1, <2>3, DeletingStep
  <2>4. ASSUME CutKey \/ CutInMenu PROVE IInv'
    <3>1. \E c \in Canvases : Cut(c)
      BY <2>4, PlaceIs, IdsAre DEF CutKey, CutInMenu
    <3> QED
      BY <2>1, <3>1, CutStep
  <2>5. CASE Copy \/ Paste \/ ComposeOne
    BY <2>1, <2>5, CopyStep
  <2>6. ASSUME NEW n \in 1..MaxEdits, PasteNext(n) PROVE IInv'
    BY <2>1, <2>6, PasteNextStep
  <2>7. CASE Compose
    BY <2>1, <2>7, ComposeStep
  <2>8. CASE Decompose
    BY <2>1, <2>8, DecomposeStep
  <2>9. ASSUME NEW move \in {"up", "down", "top", "bottom"}, MoveLayer(move) PROVE IInv'
    BY <2>1, <2>9, MoveLayerStep
  <2>10. ASSUME NEW o \in Ids, NEW t \in Ids, MoveIn(o, t) \/ MoveOut(o, t) PROVE IInv'
    BY <2>1, <2>10, MoveInStep, MoveOutStep
  <2> QED
    BY <1>2, <2>2, <2>3, <2>4, <2>5, <2>6, <2>7, <2>8, <2>9, <2>10 DEF Next, Deleting, Moving
<1> QED
  BY <1>1, <1>2

\* The inductive invariant.
THEOREM Invariant == Spec => []IInv
<1>1. Init => IInv
  BY InitKeeps
<1>2. IInv /\ [Next]_vars => IInv'
  BY NextKeeps
<1> QED
  BY <1>1, <1>2, PTL DEF Spec

\* Every component of the tree is in the list of some canvas.
LEMMA ElementsMade ==
    ASSUME IInv
    PROVE  /\ Elements(kids) \subseteq Ids
           /\ \A o \in Elements(kids) : Made(kind, last, o)
<1>1. Elements(kids) \subseteq Ids
  BY DEF Elements
<1>2. ASSUME NEW o \in Elements(kids) PROVE Made(kind, last, o)
  <2>1. \E c \in {Main} \cup Elements(kids) : o \in ToSet(kids[c])
    BY ElementsHeld
  <2>2. \E c \in Canvases : o \in ToSet(kids[c]) \cap Ids
    BY <1>1, <2>1, IdsAre
  <2> QED
    BY <2>2 DEF IInv, MadeInv
<1> QED
  BY <1>1, <1>2

\* Every list, kind and selection has its type, charts hold nothing, and the
\* components on the screen have been made by generateID before.
THEOREM CanvasTypes == Spec => []TypeOK
<1>1. IInv => TypeOK
  <2> SUFFICES ASSUME IInv PROVE TypeOK
    OBVIOUS
  <2>1. Types
    BY DEF IInv
  <2>2. \A o \in Elements(kids) : o <= last /\ kind[o] # "free"
    BY ElementsMade DEF Made
  <2> QED
    BY <2>1, <2>2 DEF TypeOK, Types, Lists
<1> QED
  BY <1>1, Invariant, PTL

\* Each component is on the screen once, whatever was grouped, taken apart, copied,
\* pasted and dragged, for every screen to begin with and any number of operations.
THEOREM IdsUnique == Spec => []IdsAreUnique
<1>1. IInv => IdsAreUnique
  <2> SUFFICES ASSUME IInv, ~stale
               PROVE  LET lists == {Main} \cup Elements(kids)
                      IN /\ \A c \in lists : Cardinality(ToSet(kids[c])) = Len(kids[c])
                         /\ \A c, d \in lists : ToSet(kids[c]) \cap ToSet(kids[d]) # {} => c = d
    BY DEF IdsAreUnique
  <2>1. ASSUME NEW c \in {Main} \cup Elements(kids)
        PROVE  Cardinality(ToSet(kids[c])) = Len(kids[c])
    <3>1. c \in Canvases /\ Single(kids[c])
      BY TreeIs, IdsAre
    <3>2. kids[c] \in Seq(1..(MaxIds + 2))
      BY <3>1 DEF IInv, Types, Lists
    <3> QED
      BY <3>1, <3>2, SingleLen
  <2>2. \A c, d \in {Main} \cup Elements(kids) : ToSet(kids[c]) \cap ToSet(kids[d]) # {} => c = d
    BY TreeIs
  <2> QED
    BY <2>1, <2>2
<1> QED
  BY <1>1, Invariant, PTL

\* A component names the canvas it is on, by which it is deleted, dragged, taken
\* apart and pasted; what is in a pasted group names the group that was copied first.
THEOREM CanvasIdRight == Spec => []CanvasIdIsRight
<1>1. IInv => CanvasIdIsRight
  <2> SUFFICES ASSUME IInv, ~stale, NEW c \in {Main} \cup Elements(kids), NEW o \in ToSet(kids[c]) \cap Ids
               PROVE  at[o] = IF c # Main /\ kind[c] = "Group" THEN origin[c] ELSE c
    BY DEF CanvasIdIsRight
  <2>1. at[o] = NameOf(kind, origin, c)
    BY TreeIs
  <2> QED
    BY <2>1 DEF NameOf
<1> QED
  BY <1>1, Invariant, PTL

\* No group comes into a group and no tab into a tab, and what is in a group in a
\* tab, or in a tab in a group, is a chart: no handler looks further down.
THEOREM NestingShallow == Spec => []NestingIsShallow
<1>1. IInv => NestingIsShallow
  BY TreeIs DEF NestingIsShallow
<1> QED
  BY <1>1, Invariant, PTL

-------------------------------------------------------------------------------
(* What leaves the screen                                                  *)

\* When the lists of the tree lose members of S only, the components that leave
\* are members of S or are held by one.
LEMMA LostUnder ==
    ASSUME NEW k, NEW k2, NEW S,
           \A c \in {Main} \cup Elements(k) : (ToSet(k[c]) \cap Ids) \ S \subseteq ToSet(k2[c])
    PROVE  Elements(k) \ Elements(k2) \subseteq Under(k, S \cap Ids)
<1> SUFFICES ASSUME NEW x \in Elements(k), x \notin Under(k, S \cap Ids) PROVE x \in Elements(k2)
  OBVIOUS
<1> DEFINE U == Under(k, S \cap Ids)
<1>1. /\ \A y \in S \cap Ids : /\ y \in U /\ ToSet(k[y]) \subseteq U
                               /\ \A d \in ToSet(k[y]) \cap Ids : ToSet(k[d]) \subseteq U
  BY UnderIs
<1>2. x \notin U
  OBVIOUS
<1>3. /\ x \in Ids
      /\ \/ x \in ToSet(k[Main])
         \/ \E c \in ToSet(k[Main]) \cap Ids : x \in ToSet(k[c])
         \/ \E c \in ToSet(k[Main]) \cap Ids : \E d \in ToSet(k[c]) \cap Ids : x \in ToSet(k[d])
  BY ElementsAre
<1>4. \A c \in ToSet(k[Main]) \cap Ids : c \in Elements(k) /\ ToSet(k[c]) \cap Ids \subseteq Elements(k)
  BY ElementsAre
<1> HIDE DEF U
<1>5. CASE x \in ToSet(k[Main])
  <2>1. x \in ToSet(k2[Main])
    BY <1>1, <1>2, <1>3, <1>5
  <2> QED
    BY <1>3, <2>1, ElementsAre
<1>6. ASSUME NEW c \in ToSet(k[Main]) \cap Ids, x \in ToSet(k[c]) PROVE x \in Elements(k2)
  <2>1. c \notin S /\ x \notin S
    BY <1>1, <1>2, <1>3, <1>6
  <2>2. c \in ToSet(k2[Main]) \cap Ids /\ x \in ToSet(k2[c])
    BY <1>3, <1>4, <1>6, <2>1
  <2> QED
    BY <1>3, <2>2, ElementsAre
<1>7. ASSUME NEW c \in ToSet(k[Main]) \cap Ids, NEW d \in ToSet(k[c]) \cap Ids, x \in ToSet(k[d])
      PROVE  x \in Elements(k2)
  <2>1. c \notin S /\ d \notin S /\ x \notin S
    BY <1>1, <1>2, <1>3, <1>7
  <2>2. c \in ToSet(k2[Main]) \cap Ids /\ d \in ToSet(k2[c]) \cap Ids /\ x \in ToSet(k2[d])
    BY <1>3, <1>4, <1>7, <2>1
  <2> QED
    BY <1>3, <2>2, ElementsAre
<1> QED
  BY <1>3, <1>5, <1>6, <1>7

\* When they lose nothing, nothing leaves.
LEMMA NothingLost ==
    ASSUME NEW k, NEW k2,
           \A c \in {Main} \cup Elements(k) : ToSet(k[c]) \cap Ids \subseteq ToSet(k2[c])
    PROVE  Elements(k) \subseteq Elements(k2)
<1>1. Elements(k) \ Elements(k2) \subseteq Under(k, {} \cap Ids)
  <2>1. \A c \in {Main} \cup Elements(k) : (ToSet(k[c]) \cap Ids) \ {} \subseteq ToSet(k2[c])
    OBVIOUS
  <2> QED
    BY <2>1, LostUnder
<1>2. {} \cap Ids = {}
  OBVIOUS
<1>3. Under(k, {}) = {}
  BY UnderIs
<1> QED
  BY <1>1, <1>2, <1>3

\* The components that leave the screen with a step, the groups left aside.
Lost == {o \in Elements(kids) \ Elements(kids') : kind[o] # "Group"}

LEMMA SelectLoses ==
    ASSUME NEW k \in Lists, NEW a, NEW c, Select(k, a, c), NEW S \in SUBSET Ids,
           \A d \in Canvases : (ToSet(kids[d]) \cap Ids) \ S \subseteq ToSet(k[d])
    PROVE  Elements(kids) \ Elements(kids') \subseteq Under(kids, S)
<1>1. /\ \A d \in Ids : kids'[d] = k[d]
      /\ ToSet(kids'[Main]) \cap Ids = ToSet(k[Main]) \cap Ids
  BY SelectIs
<1>2. Elements(kids) \subseteq Ids
  BY DEF Elements
<1>3. \A d \in {Main} \cup Elements(kids) : (ToSet(kids[d]) \cap Ids) \ S \subseteq ToSet(kids'[d])
  BY <1>1, <1>2, IdsAre
<1>4. S \cap Ids = S
  OBVIOUS
<1> QED
  BY <1>3, <1>4, LostUnder

LEMMA NothingUnder ==
    ASSUME NEW k
    PROVE  Under(k, {}) = {}
  BY UnderIs

LEMMA SelectingLoses ==
    ASSUME IInv, Selecting
    PROVE  Elements(kids) \subseteq Elements(kids')
<1>1. ASSUME NEW a, NEW c, Select(kids, a, c) PROVE Elements(kids) \subseteq Elements(kids')
  <2>1. kids \in Lists /\ {} \in SUBSET Ids
    BY DEF IInv, Types
  <2>2. \A d \in Canvases : (ToSet(kids[d]) \cap Ids) \ {} \subseteq ToSet(kids[d])
    OBVIOUS
  <2>3. Elements(kids) \ Elements(kids') \subseteq Under(kids, {})
    BY <1>1, <2>1, <2>2, SelectLoses
  <2> QED
    BY <2>3, NothingUnder
<1>2. (\E o \in Ids : ClickOnCanvas(o)) \/ (\E a, c : Select(kids, a, c))
  BY DEF Selecting, ClickOnCanvas, ClickBeside, RubberBand, MarkOnCanvas, MarkInList, MarkRange, Unmark
<1>3. ASSUME NEW o \in Ids, ClickOnCanvas(o) PROVE Elements(kids) \subseteq Elements(kids')
  BY <1>3 DEF ClickOnCanvas
<1> QED
  BY <1>1, <1>2, <1>3

LEMMA DeletingLoses ==
    ASSUME IInv, ~Astray, Deleting
    PROVE  Elements(kids) \ Elements(kids') \subseteq Under(kids, ({cur} \cup ToSet(area)) \cap Ids)
<1> DEFINE U == ({cur} \cup ToSet(area)) \cap Ids
           A == ToSet(area)
<1>1. kids \in Lists /\ cur \in {None, Frame} \cup Ids /\ A \subseteq Ids
  BY SeqDom DEF IInv, Types
<1>2. \A c \in Canvases : kids[c] \in Seq(1..(MaxIds + 2))
  BY <1>1 DEF Lists
<1>3. \A S, T : S \subseteq T => \A x : x \in Under(kids, S) => x \in Under(kids, T)
  BY UnderIs
<1>4. A \subseteq U /\ (cur \in Ids => {cur} \subseteq U)
  BY <1>1
<1> HIDE DEF U
\* The lists lose what is in S, and the frame comes or goes.
<1>5. ASSUME NEW S \in SUBSET U, S \subseteq Ids, NEW k \in Lists,
             \A d \in Canvases : (ToSet(kids[d]) \cap Ids) \ S \subseteq ToSet(k[d]),
             kids' = k \/ \E a, c : Select(k, a, c)
      PROVE  Elements(kids) \ Elements(kids') \subseteq Under(kids, U)
  <2>1. Elements(kids) \ Elements(kids') \subseteq Under(kids, S)
    <3>1. CASE kids' = k
      <4>1. \A d \in {Main} \cup Elements(kids) : (ToSet(kids[d]) \cap Ids) \ S \subseteq ToSet(kids'[d])
        BY <1>5, <3>1, IdsAre DEF Elements
      <4>2. S \cap Ids = S
        BY <1>5
      <4> QED
        BY <4>1, <4>2, LostUnder
    <3>2. ASSUME NEW a, NEW c, Select(k, a, c) PROVE Elements(kids) \ Elements(kids') \subseteq Under(kids, S)
      <4>1. S \in SUBSET Ids
        BY <1>5
      <4> QED
        BY <1>5, <3>2, <4>1, SelectLoses
    <3> QED
      BY <1>5, <3>1, <3>2
  <2> QED
    BY <1>3, <1>5, <2>1
<1>6. ASSUME NEW c \in Canvases, NEW S
      PROVE  /\ [kids EXCEPT ![c] = Without(@, S)] \in Lists
             /\ \A d \in Canvases : (ToSet(kids[d]) \cap Ids) \ S \subseteq ToSet([kids EXCEPT ![c] = Without(@, S)][d])
  <2> DEFINE t == Without(kids[c], S)
             k == [kids EXCEPT ![c] = t]
  <2>1. t \in Seq(1..(MaxIds + 2)) /\ ToSet(t) = ToSet(kids[c]) \ S
    BY <1>2, WithoutIs
  <2> HIDE DEF t
  <2>2. k \in Lists /\ k[c] = t /\ \A d \in Canvases : d # c => k[d] = kids[d]
    BY <1>1, <2>1 DEF Lists
  <2>3. [kids EXCEPT ![c] = Without(@, S)] = k
    BY DEF t
  <2> HIDE DEF k
  <2>4. \A d \in Canvases : (ToSet(kids[d]) \cap Ids) \ S \subseteq ToSet(k[d])
    BY <2>1, <2>2
  <2> QED
    BY <2>2, <2>3, <2>4
<1>7. A \in SUBSET U /\ A \subseteq Ids /\ (cur \in Ids => {cur} \in SUBSET U /\ {cur} \subseteq Ids)
  BY <1>1, <1>4
<1>8. Main \in Canvases /\ PlaceOf(cur) \in Canvases
  BY IdsAre, PlaceIs
<1>9. ASSUME NEW k, k = [kids EXCEPT ![Main] = Without(@, A)], kids' = k \/ \E a, c : Select(k, a, c)
      PROVE  Elements(kids) \ Elements(kids') \subseteq Under(kids, U)
  <2>1. k \in Lists /\ \A d \in Canvases : (ToSet(kids[d]) \cap Ids) \ A \subseteq ToSet(k[d])
    BY <1>6, <1>8, <1>9
  <2>2. A \in SUBSET U /\ A \subseteq Ids
    BY <1>7
  <2> HIDE DEF A
  <2> QED
    BY <1>5, <1>9, <2>1, <2>2
<1>10. ASSUME NEW c \in Canvases, cur \in Ids, NEW k, k = [kids EXCEPT ![c] = Without(@, {cur})],
              kids' = k \/ \E a, d : Select(k, a, d)
       PROVE  Elements(kids) \ Elements(kids') \subseteq Under(kids, U)
  <2> DEFINE S == {cur}
  <2>1. k \in Lists /\ \A d \in Canvases : (ToSet(kids[d]) \cap Ids) \ S \subseteq ToSet(k[d])
    BY <1>6, <1>10
  <2>2. S \in SUBSET U /\ S \subseteq Ids
    BY <1>7, <1>10
  <2> HIDE DEF S
  <2> QED
    BY <1>5, <1>10, <2>1, <2>2
<1>11. CASE DeleteKey
  <2>1. CASE cur # Frame
    <3>1. cur \in Ids /\ kids' = DropAt(PlaceOf(cur), cur)
      BY <1>1, <1>11, <2>1 DEF DeleteKey
    <3> DEFINE p == PlaceOf(cur)
    <3>2. p \in Canvases /\ cur \in ToSet(kids[p])
      BY <1>8, <3>1, FoundThere
    <3> HIDE DEF p
    <3> DEFINE t == RemoveFirst(kids[p], cur)
    <3>3. t \in Seq(1..(MaxIds + 2)) /\ ToSet(kids[p]) \ {cur} \subseteq ToSet(t)
      BY <1>2, <3>2, RemoveFirstIs
    <3>4. kids' = [kids EXCEPT ![p] = t]
      BY <3>1, <3>2 DEF DropAt, p
    <3> HIDE DEF t
    <3>5. kids' \in Lists /\ kids'[p] = t /\ \A d \in Canvases : d # p => kids'[d] = kids[d]
      BY <1>1, <3>2, <3>3, <3>4 DEF Lists
    <3>6. \A d \in Canvases : (ToSet(kids[d]) \cap Ids) \ {cur} \subseteq ToSet(kids'[d])
      BY <3>3, <3>5
    <3> QED
      BY <1>5, <1>7, <3>1, <3>5, <3>6 DEF U
  <2>2. CASE cur = Frame
    <3>1. \E a, c : Select([kids EXCEPT ![Main] = Without(@, A)], a, c)
      BY <1>11, <2>2 DEF DeleteKey
    <3> QED
      BY <1>9, <3>1 DEF U
  <2> QED
    BY <2>1, <2>2
<1>12. CASE DeleteInMenu
  <2>1. CASE cur \in Ids
    <3>1. \E a, c : Select([kids EXCEPT ![PlaceOf(cur)] = Without(@, {cur})], a, c)
      BY <1>12, <2>1 DEF DeleteInMenu
    <3> QED
      BY <1>8, <1>10, <2>1, <3>1 DEF U
  <2>2. CASE cur \notin Ids
    <3>1. \E a, c : Select([kids EXCEPT ![Main] = Without(@, A)], a, c)
      BY <1>12, <2>2 DEF DeleteInMenu
    <3> QED
      BY <1>9, <3>1 DEF U
  <2> QED
    BY <2>1, <2>2
<1>13. ASSUME NEW c \in Canvases, Cut(c)
       PROVE  Elements(kids) \ Elements(kids') \subseteq Under(kids, U)
  <2>1. CASE cur \in Ids
    <3>1. kids' = [kids EXCEPT ![c] = Without(@, {cur})]
      BY <1>13, <2>1 DEF Cut
    <3> QED
      BY <1>10, <2>1, <3>1
  <2>2. CASE cur \notin Ids
    <3>1. \E a, d : Select([kids EXCEPT ![Main] = Without(@, A)], a, d)
      BY <1>13, <2>2 DEF Cut
    <3> QED
      BY <1>9, <3>1
  <2> QED
    BY <2>1, <2>2
<1>14. CutKey \/ CutInMenu => \E c \in Canvases : Cut(c)
  BY <1>8 DEF CutKey, CutInMenu
<1> QED
  BY <1>11, <1>12, <1>13, <1>14 DEF Deleting, U


\* What is a component, seen from the main canvas down.
LEMMA Reached ==
    ASSUME NEW k
    PROVE  /\ ToSet(k[Main]) \cap Ids \subseteq Elements(k)
           /\ \A c \in ToSet(k[Main]) \cap Ids : ToSet(k[c]) \cap Ids \subseteq Elements(k)
           /\ \A c \in ToSet(k[Main]) \cap Ids : \A d \in ToSet(k[c]) \cap Ids :
                 ToSet(k[d]) \cap Ids \subseteq Elements(k)
  BY ElementsAre

\* Dragging moves a component, and what it holds goes with it.
LEMMA MoveInLoses ==
    ASSUME IInv, ~stale, NEW o \in Ids, NEW t \in Ids, MoveIn(o, t)
    PROVE  Elements(kids) \subseteq Elements(kids')
<1> DEFINE E == Elements(kids)
<1>1. /\ E \subseteq Ids /\ ToSet(kids[Main]) \cap Ids \subseteq E
      /\ \A c \in E : ToSet(kids[c]) \subseteq E
      /\ \A c \in E : \A x \in ToSet(kids[c]) : kind[x] # kind[c]
      /\ \A x \in E : kind[x] # "free"
  BY TreeIs DEF Made
<1>2. /\ o \in E /\ t \in ToSet(kids[Main]) /\ kind[o] # "DeTabs" /\ JoinsTab(o) /\ o # t
      /\ kids' = [kids EXCEPT ![Main] = Without(@, {o}), ![t] = Append(@, o)]
  BY <1>1 DEF MoveIn
<1>3. /\ kids \in Lists /\ kind \in [Ids -> {"view", "DeTabs", "Group", "free"}]
      /\ \A x \in Ids : kind[x] = "view" => kids[x] = <<>>
  BY DEF IInv, Types
<1> DEFINE m == Without(kids[Main], {o})
           l == Append(kids[t], o)
<1>4. ToSet(m) = ToSet(kids[Main]) \ {o}
  <2>1. kids[Main] \in Seq(1..(MaxIds + 2))
    BY <1>3, IdsAre DEF Lists
  <2> QED
    BY <2>1, WithoutIs
<1>5. ToSet(l) = ToSet(kids[t]) \cup {o}
  <2>1. kids[t] \in Seq(1..(MaxIds + 2)) /\ o \in 1..(MaxIds + 2)
    BY <1>3, IdsAre DEF Lists
  <2> QED
    BY <2>1, AppendKid
<1> HIDE DEF m, l, E
<1>6. /\ kids'[Main] = m /\ kids'[t] = l
      /\ \A c \in Canvases : c # Main /\ c # t => kids'[c] = kids[c]
  <2>1. kids' = [kids EXCEPT ![Main] = m, ![t] = l]
    BY <1>2, IdsAre DEF m, l
  <2> QED
    BY <1>3, <2>1, IdsAre DEF Lists
<1>7. \A c \in Ids : ToSet(kids[c]) \subseteq ToSet(kids'[c])
  BY <1>5, <1>6, IdsAre
<1>8. t \in ToSet(kids'[Main]) \cap Ids /\ o \in ToSet(kids'[t]) \cap Ids
  BY <1>2, <1>4, <1>5, <1>6
<1>9. \A d \in ToSet(kids[o]) : ToSet(kids[d]) = {}
  <2> SUFFICES ASSUME NEW d \in ToSet(kids[o]) PROVE ToSet(kids[d]) = {}
    OBVIOUS
  <2>1. d \in Ids /\ kind[d] # kind[o] /\ kind[d] # "free" /\ kind[o] # "free"
    BY <1>1, <1>2
  <2>2. kind[o] = "Group"
    BY <1>2, <1>3, <2>1, EmptyIs
  <2>3. kind[d] = "view"
    BY <1>2, <1>3, <2>1, <2>2 DEF JoinsTab
  <2> QED
    BY <1>3, <2>1, <2>3, EmptyIs
<1>10. ASSUME NEW y \in ToSet(kids[Main]) \cap Ids
       PROVE  /\ y \in Elements(kids') /\ ToSet(kids[y]) \cap Ids \subseteq Elements(kids')
              /\ \A d \in ToSet(kids[y]) \cap Ids : ToSet(kids[d]) \cap Ids \subseteq Elements(kids')
  <2>1. CASE y # o
    <3>1. y \in ToSet(kids'[Main]) \cap Ids
      BY <1>4, <1>6, <2>1
    <3> QED
      BY <1>7, <3>1, Reached
  <2>2. CASE y = o
    BY <1>7, <1>8, <1>9, <2>2, Reached
  <2> QED
    BY <2>1, <2>2
<1> QED
  BY <1>10, ElementsAre

LEMMA MoveOutLoses ==
    ASSUME IInv, ~stale, NEW o \in Ids, NEW t \in Ids, MoveOut(o, t)
    PROVE  Elements(kids) \subseteq Elements(kids')
<1>1. t \in Elements(kids) /\ kind[t] = "DeTabs" /\ o \in ToSet(kids[t])
  BY TreeIs DEF MoveOut
<1>2. at[o] = t
  BY <1>1, TreeIs DEF NameOf
<1>3. kids' = [kids EXCEPT ![t] = Without(@, {o}), ![Main] = Append(@, o)]
  BY <1>2 DEF MoveOut
<1>4. kids \in Lists
  BY DEF IInv, Types
<1> DEFINE m == Append(kids[Main], o)
           l == Without(kids[t], {o})
<1>5. ToSet(m) = ToSet(kids[Main]) \cup {o}
  <2>1. kids[Main] \in Seq(1..(MaxIds + 2)) /\ o \in 1..(MaxIds + 2)
    BY <1>4, IdsAre DEF Lists
  <2> QED
    BY <2>1, AppendKid
<1>6. ToSet(l) = ToSet(kids[t]) \ {o}
  <2>1. kids[t] \in Seq(1..(MaxIds + 2))
    BY <1>4, IdsAre DEF Lists
  <2> QED
    BY <2>1, WithoutIs
<1> HIDE DEF m, l
<1>7. /\ kids'[Main] = m /\ kids'[t] = l
      /\ \A c \in Canvases : c # Main /\ c # t => kids'[c] = kids[c]
  <2>1. kids' = [kids EXCEPT ![t] = l, ![Main] = m]
    BY <1>3, IdsAre DEF m, l
  <2> QED
    BY <1>4, <2>1, IdsAre DEF Lists
<1>8. o \in ToSet(kids'[Main]) \cap Ids /\ ToSet(kids[Main]) \subseteq ToSet(kids'[Main])
  BY <1>5, <1>7
<1>9. \A c \in Ids : ToSet(kids[c]) \subseteq ToSet(kids'[c]) \cup {o}
  BY <1>6, <1>7, IdsAre
<1>10. ASSUME NEW y \in ToSet(kids[Main]) \cap Ids
       PROVE  /\ y \in Elements(kids') /\ ToSet(kids[y]) \cap Ids \subseteq Elements(kids')
              /\ \A d \in ToSet(kids[y]) \cap Ids : ToSet(kids[d]) \cap Ids \subseteq Elements(kids')
  <2>1. y \in ToSet(kids'[Main]) \cap Ids /\ o \in Elements(kids')
    BY <1>8, Reached
  <2>2. y \in Elements(kids') /\ ToSet(kids'[y]) \cap Ids \subseteq Elements(kids')
    BY <2>1, Reached
  <2>3. ASSUME NEW d \in ToSet(kids[y]) \cap Ids PROVE ToSet(kids'[d]) \cap Ids \subseteq Elements(kids')
    BY <1>8, <1>9, <2>1, Reached
  <2> QED
    BY <1>9, <2>1, <2>2, <2>3
<1> QED
  BY <1>10, ElementsAre


\* Of a group that is taken apart the group leaves, and nothing of a group that is
\* gone.
LEMMA DecomposeLoses ==
    ASSUME IInv, ~stale, Decompose
    PROVE  Elements(kids) \subseteq Elements(kids') \cup {cur}
<1> DEFINE E == Elements(kids)
           c == at[cur]
           t == Without(kids[c], {cur})
           l == t \o kids[cur]
<1>1. /\ E \subseteq Ids /\ ToSet(kids[Main]) \cap Ids \subseteq E
      /\ \A d \in E : ToSet(kids[d]) \subseteq E
      /\ \A d, e \in {Main} \cup E : d # e => ToSet(kids[d]) \cap ToSet(kids[e]) = {}
      /\ \A d \in {Main} \cup E : \A x \in ToSet(kids[d]) \cap Ids : at[x] = NameOf(kind, origin, d)
      /\ \A d \in E : \A x \in ToSet(kids[d]) :
            kind[x] # kind[d] /\ \A p \in ToSet(kids[x]) : kind[p] = "view"
  BY TreeIs
<1>2. /\ cur \in Ids /\ kind[cur] = "Group"
      /\ c # Main => cur \in ToSet(kids[c]) /\ c \in E
      /\ kids' = [kids EXCEPT ![c] = l]
  BY DEF Decompose
<1>3. kids \in Lists
  BY DEF IInv, Types
<1>4. c \in {Main} \cup E /\ c \in Canvases
  BY <1>1, <1>2, IdsAre
<1>5. ToSet(l) = (ToSet(kids[c]) \ {cur}) \cup ToSet(kids[cur])
  <2> DEFINE N == 1..(MaxIds + 2)
  <2>1. kids[c] \in Seq(N) /\ kids[cur] \in Seq(N)
    BY <1>2, <1>3, <1>4, IdsAre DEF Lists
  <2> HIDE DEF N, c
  <2>2. t \in Seq(N) /\ ToSet(t) = ToSet(kids[c]) \ {cur}
    BY <2>1, WithoutIs
  <2> HIDE DEF t
  <2>3. ToSet(t \o kids[cur]) = ToSet(t) \cup ToSet(kids[cur])
    BY <2>1, <2>2, ConcatIs
  <2> QED
    BY <2>2, <2>3
<1> HIDE DEF t, l, c, E
<1>6. kids'[c] = l /\ \A d \in Canvases : d # c => kids'[d] = kids[d]
  BY <1>2, <1>3, <1>4 DEF Lists
<1>7. \A d \in Canvases : ToSet(kids[d]) \subseteq ToSet(kids'[d]) \cup {cur}
  BY <1>5, <1>6
<1>8. ASSUME NEW y \in ToSet(kids[Main]) \cap Ids, y # cur
      PROVE  /\ y \in Elements(kids') /\ ToSet(kids[y]) \cap Ids \subseteq Elements(kids') \cup {cur}
             /\ \A d \in ToSet(kids[y]) \cap Ids : d # cur =>
                   ToSet(kids[d]) \cap Ids \subseteq Elements(kids') \cup {cur}
  <2>1. y \in ToSet(kids'[Main]) \cap Ids
    BY <1>7, <1>8, IdsAre
  <2>2. ToSet(kids[y]) \subseteq ToSet(kids'[y]) \cup {cur}
    BY <1>7, IdsAre
  <2>3. ASSUME NEW d \in ToSet(kids[y]) \cap Ids, d # cur
        PROVE  ToSet(kids[d]) \subseteq ToSet(kids'[d]) \cup {cur} /\ d \in ToSet(kids'[y]) \cap Ids
    BY <1>7, <2>2, <2>3, IdsAre
  <2> QED
    BY <2>1, <2>2, <2>3, Reached
\* What the group held takes its place, on the main canvas or in a tab of it.
<1>9. ASSUME cur \in E
      PROVE  \/ c = Main
             \/ c \in ToSet(kids[Main]) \cap Ids /\ cur \notin ToSet(kids[Main])
  <2> SUFFICES ASSUME c # Main PROVE c \in ToSet(kids[Main]) \cap Ids /\ cur \notin ToSet(kids[Main])
    OBVIOUS
  <2>1. c \in E /\ cur \in ToSet(kids[c]) /\ c \in Ids
    BY <1>1, <1>2
  <2>2. cur \notin ToSet(kids[Main])
    BY <1>1, <2>1, IdsAre
  <2>3. PICK d \in {Main} \cup E : c \in ToSet(kids[d])
    BY <2>1, ElementsHeld DEF E
  <2>4. d \notin E
    BY <1>1, <1>2, <2>1, <2>3
  <2> QED
    BY <2>1, <2>2, <2>3, <2>4
<1>10. ASSUME cur \in E
       PROVE  ToSet(kids[cur]) \cap Ids \subseteq Elements(kids')
  <2>1. ToSet(kids[cur]) \subseteq ToSet(kids'[c])
    BY <1>5, <1>6
  <2>2. CASE c = Main
    BY <2>1, <2>2, Reached
  <2>3. CASE c \in ToSet(kids[Main]) \cap Ids /\ cur \notin ToSet(kids[Main])
    <3>1. c \in ToSet(kids'[Main]) \cap Ids
      BY <1>7, <2>3, IdsAre
    <3> QED
      BY <2>1, <3>1, Reached
  <2> QED
    BY <1>9, <1>10, <2>2, <2>3
<1>11. ASSUME cur \in ToSet(kids[Main]), NEW d \in ToSet(kids[cur]) \cap Ids
       PROVE  ToSet(kids[d]) \cap Ids \subseteq Elements(kids') \cup {cur}
  <2>1. c = Main
    BY <1>1, <1>2, <1>9, <1>11
  <2>2. d \in ToSet(kids'[Main]) \cap Ids
    BY <1>5, <1>6, <2>1
  <2>3. ToSet(kids[d]) \subseteq ToSet(kids'[d]) \cup {cur}
    BY <1>7, IdsAre
  <2> QED
    BY <2>2, <2>3, Reached
<1>12. ASSUME NEW y \in ToSet(kids[Main]) \cap Ids
       PROVE  /\ y \in Elements(kids') \cup {cur} /\ ToSet(kids[y]) \cap Ids \subseteq Elements(kids') \cup {cur}
              /\ \A d \in ToSet(kids[y]) \cap Ids :
                    ToSet(kids[d]) \cap Ids \subseteq Elements(kids') \cup {cur}
  <2>1. CASE y = cur
    BY <1>1, <1>10, <1>11, <2>1
  <2>2. CASE y # cur
    <3>1. ASSUME NEW d \in ToSet(kids[y]) \cap Ids
          PROVE  ToSet(kids[d]) \cap Ids \subseteq Elements(kids') \cup {cur}
      <4>1. d \in E
        BY <1>1
      <4> QED
        BY <1>8, <1>10, <2>2, <4>1
    <3> QED
      BY <1>8, <2>2, <3>1
  <2> QED
    BY <2>1, <2>2
<1> QED
  BY <1>12, ElementsAre


\* What grouping does to the lists of the tree.
LEMMA ComposedIs ==
    ASSUME IInv, ~stale, Compose
    PROVE  /\ \A d \in Elements(kids) : kids'[d] = kids[d]
           /\ \E g \in ToSet(kids'[Main]) \cap Ids : ToSet(kids'[g]) = ToSet(Joining)
           /\ (ToSet(kids[Main]) \cap Ids) \ ToSet(area) \subseteq ToSet(kids'[Main])
<1> DEFINE g == last + 1
           t == TakenOut(kids[Main])
           m == Append(t, g)
           k == [kids EXCEPT ![g] = Joining, ![Main] = m]
<1>1. kids \in Lists /\ last \in Nat
  BY IdsAre DEF IInv, Types
<1>2. g \in Ids /\ g # Main /\ Select(k, <<>>, g) /\ \A o \in Ids : o <= last => o # g
  BY <1>1, IdsAre DEF Compose, Ids
<1>3. Joining \in Seq(1..(MaxIds + 2))
  BY JoiningIs
<1>4. t \in Seq(1..(MaxIds + 2)) /\ ToSet(t) = ToSet(kids[Main]) \ ToSet(area)
  <2>1. kids[Main] \in Seq(1..(MaxIds + 2))
    BY <1>1, IdsAre DEF Lists
  <2> QED
    BY <2>1, WithoutIs DEF TakenOut
<1> HIDE DEF t
<1>5. m \in Seq(1..(MaxIds + 2)) /\ ToSet(m) = ToSet(t) \cup {g}
  <2>1. g \in 1..(MaxIds + 2)
    BY <1>2, IdsAre
  <2> HIDE DEF g
  <2> QED
    BY <1>4, <2>1, AppendKid
<1> HIDE DEF m
<1>6. k \in Lists /\ k[Main] = m /\ k[g] = Joining /\ \A d \in Canvases : d # Main /\ d # g => k[d] = kids[d]
  BY <1>1, <1>2, <1>3, <1>5, IdsAre DEF Lists
<1> HIDE DEF k, g
<1>7. (\A d \in Ids : kids'[d] = k[d]) /\ ToSet(kids'[Main]) \cap Ids = ToSet(m) \cap Ids
  BY <1>2, <1>6, SelectIs
<1>8. \A d \in Elements(kids) : d \in Ids /\ d # Main /\ d # g
  BY <1>2, TreeIs, IdsAre DEF Made
<1>9. \A d \in Elements(kids) : kids'[d] = kids[d]
  BY <1>6, <1>7, <1>8, IdsAre
<1>10. g \in ToSet(kids'[Main]) \cap Ids /\ ToSet(kids'[g]) = ToSet(Joining)
  BY <1>2, <1>5, <1>6, <1>7
<1>11. (ToSet(kids[Main]) \cap Ids) \ ToSet(area) \subseteq ToSet(kids'[Main])
  BY <1>4, <1>5, <1>7
<1> QED
  BY <1>9, <1>10, <1>11

\* A selected group gives its components to the new one; the others go there, but
\* for a tab with a group, which leaves the screen.
LEMMA ComposeLoses ==
    ASSUME IInv, ~stale, Compose
    PROVE  Lost \subseteq Under(kids, {o \in ToSet(area) : ~JoinsGroup(o)})
<1> DEFINE E == Elements(kids)
           U == Under(kids, {o \in ToSet(area) : ~JoinsGroup(o)})
           V == Elements(kids') \cup U
<1>1. /\ E \subseteq Ids /\ ToSet(kids[Main]) \cap Ids \subseteq E
      /\ \A c \in E : ToSet(kids[c]) \subseteq E
      /\ \A c \in E : \A x \in ToSet(kids[c]) : kind[x] # kind[c]
      /\ \A x \in E : kind[x] # "free"
  BY TreeIs DEF Made
<1>2. /\ kind \in [Ids -> {"view", "DeTabs", "Group", "free"}]
      /\ \A x \in Ids : kind[x] = "view" => kids[x] = <<>>
  BY DEF IInv, Types
<1>3. \A d \in E : kids'[d] = kids[d]
  BY ComposedIs
<1>4. PICK g \in ToSet(kids'[Main]) \cap Ids : ToSet(kids'[g]) = ToSet(Joining)
  BY ComposedIs
<1>5. (ToSet(kids[Main]) \cap Ids) \ ToSet(area) \subseteq ToSet(kids'[Main])
  BY ComposedIs
<1>6. \A x : x \in ToSet(Joining) <=> Joins(x)
  BY JoiningIs
<1> HIDE DEF E
<1>7. ASSUME NEW y \in ToSet(kids[Main]) \cap Ids
      PROVE  /\ y \in V \/ kind[y] = "Group"
             /\ ToSet(kids[y]) \cap Ids \subseteq V
             /\ \A d \in ToSet(kids[y]) \cap Ids : ToSet(kids[d]) \cap Ids \subseteq V
  <2>1. y \in E /\ ToSet(kids[y]) \subseteq E /\ ToSet(kids'[y]) = ToSet(kids[y])
    BY <1>1, <1>3
  <2>2. \A d \in ToSet(kids[y]) : d \in E /\ kids'[d] = kids[d]
    BY <1>3, <2>1
  <2>3. CASE y \notin ToSet(area)
    <3>1. y \in ToSet(kids'[Main]) \cap Ids
      BY <1>5, <2>3
    <3> QED
      BY <2>1, <2>2, <3>1, Reached
  <2>4. CASE y \in ToSet(area) /\ kind[y] = "Group"
    <3>1. ToSet(kids[y]) \subseteq ToSet(kids'[g])
      BY <1>4, <1>6, <2>4 DEF Joins
    <3> QED
      BY <1>4, <2>2, <2>4, <3>1, Reached
  <2>5. CASE y \in ToSet(area) /\ kind[y] # "Group" /\ JoinsGroup(y)
    <3>1. y \in ToSet(kids'[g])
      BY <1>4, <1>6, <2>5 DEF Joins
    <3>2. \A d \in ToSet(kids[y]) : ToSet(kids[d]) = {}
      <4> SUFFICES ASSUME NEW d \in ToSet(kids[y]) PROVE ToSet(kids[d]) = {}
        OBVIOUS
      <4>1. d \in Ids /\ kind[d] # kind[y] /\ kind[d] # "free" /\ kind[y] # "free"
        BY <1>1, <2>1
      <4>2. kind[y] = "DeTabs"
        BY <1>2, <2>5, <4>1, EmptyIs
      <4>3. kind[d] = "view"
        BY <1>2, <2>5, <4>1, <4>2 DEF JoinsGroup
      <4> QED
        BY <1>2, <4>1, <4>3, EmptyIs
    <3> QED
      BY <1>4, <2>1, <3>1, <3>2, Reached
  <2>6. CASE y \in ToSet(area) /\ ~JoinsGroup(y)
    <3>1. y \in {o \in ToSet(area) : ~JoinsGroup(o)}
      BY <2>6
    <3>2. /\ y \in U /\ ToSet(kids[y]) \subseteq U
          /\ \A d \in ToSet(kids[y]) \cap Ids : ToSet(kids[d]) \subseteq U
      BY <3>1, UnderIs
    <3> QED
      BY <3>2
  <2> QED
    BY <2>3, <2>4, <2>5, <2>6
<1> HIDE DEF U
<1>8. \A x \in Elements(kids) : x \in V \/ kind[x] = "Group"
  BY <1>7, ElementsAre
<1> QED
  BY <1>8 DEF Lost, U

\* Nothing else loses a component.
LEMMA KeepingLoses ==
    ASSUME IInv, ~stale, Null \notin ToSet(kids[Main]), ~Astray,
           \/ Copy \/ Paste \/ ComposeOne \/ (\E n \in 1..MaxEdits : PasteNext(n))
           \/ \E move \in {"up", "down", "top", "bottom"} : MoveLayer(move)
    PROVE  Elements(kids) \subseteq Elements(kids')
<1>1. CASE Copy \/ Paste \/ ComposeOne
  BY <1>1 DEF Copy, Paste, ComposeOne
<1>2. CASE \E n \in 1..MaxEdits : PasteNext(n)
  BY <1>2, PasteNextStep, NothingLost
<1>3. ASSUME NEW move \in {"up", "down", "top", "bottom"}, MoveLayer(move)
      PROVE  Elements(kids) \subseteq Elements(kids')
  <2> DEFINE c == PlaceOf(cur)
             t == Layer(kids[c], Position(kids[c], cur), move)
  <2>1. cur \in Ids /\ kids' = [kids EXCEPT ![c] = t] /\ kids \in Lists
    BY <1>3 DEF MoveLayer, IInv, Types
  <2>2. c \in Canvases
    BY <2>1, PlaceIs
  <2>3. ToSet(kids[c]) \subseteq ToSet(t)
    BY <1>3, <2>1, LayerIs
  <2> HIDE DEF t, c
  <2>4. \A d \in Canvases : ToSet(kids[d]) \subseteq ToSet(kids'[d])
    BY <2>1, <2>2, <2>3 DEF Lists
  <2>5. \A d \in {Main} \cup Elements(kids) : ToSet(kids[d]) \cap Ids \subseteq ToSet(kids'[d])
    BY <2>4, IdsAre DEF Elements
  <2> QED
    BY <2>5, NothingLost
<1> QED
  BY <1>1, <1>2, <1>3


\* A chart or a tab leaves the screen only when the user deletes or cuts it, or
\* what holds it, but for the two ways named at the property: no other handler
\* loses a component, whatever was done before it.
THEOREM OnlyDeleting == Spec => OnlyDeletingLoses
<1> DEFINE Kept == \/ Lost = {} \/ Astray
                   \/ Deleting /\ Lost \subseteq Under(kids, ({cur} \cup ToSet(area)) \cap Ids)
                   \/ Compose /\ Lost \subseteq Under(kids, {o \in ToSet(area) : ~JoinsGroup(o)})
<1>1. ASSUME IInv, [Next]_vars PROVE [Kept]_vars
  <2> SUFFICES ASSUME Next, ~Astray PROVE Kept
    BY <1>1
  <2>1. ~stale /\ Null \notin ToSet(kids[Main])
    BY DEF Next, Explored
  <2>2. Elements(kids) \subseteq Elements(kids') => Lost = {}
    BY DEF Lost
  <2>3. CASE Selecting
    BY <1>1, <2>2, <2>3, SelectingLoses
  <2>4. CASE Deleting
    <3>1. Elements(kids) \ Elements(kids') \subseteq Under(kids, ({cur} \cup ToSet(area)) \cap Ids)
      BY <1>1, <2>4, DeletingLoses
    <3> QED
      BY <2>4, <3>1 DEF Lost
  <2>5. CASE Compose
    BY <1>1, <2>1, <2>5, ComposeLoses
  <2>6. CASE Decompose
    <3>1. Elements(kids) \subseteq Elements(kids') \cup {cur} /\ kind[cur] = "Group"
      BY <1>1, <2>1, <2>6, DecomposeLoses DEF Decompose
    <3> QED
      BY <3>1 DEF Lost
  <2>7. ASSUME NEW o \in Ids, NEW t \in Ids, MoveIn(o, t) \/ MoveOut(o, t) PROVE Kept
    BY <1>1, <2>1, <2>2, <2>7, MoveInLoses, MoveOutLoses
  <2>8. CASE \/ Copy \/ Paste \/ ComposeOne \/ \E n \in 1..MaxEdits : PasteNext(n)
             \/ \E move \in {"up", "down", "top", "bottom"} : MoveLayer(move)
    BY <1>1, <2>1, <2>2, <2>8, KeepingLoses
  <2> QED
    BY <2>3, <2>4, <2>5, <2>6, <2>7, <2>8 DEF Next, Moving
<1>2. Kept <=> LET lost == {o \in Elements(kids) \ Elements(kids') : kind[o] # "Group"}
               IN \/ lost = {} \/ Astray
                  \/ Deleting /\ lost \subseteq Under(kids, ({cur} \cup ToSet(area)) \cap Ids)
                  \/ Compose /\ lost \subseteq Under(kids, {o \in ToSet(area) : ~JoinsGroup(o)})
  BY DEF Lost
<1> HIDE DEF Kept
<1> QED
  BY <1>1, <1>2, Invariant, PTL DEF OnlyDeletingLoses, Spec
===============================================================================
