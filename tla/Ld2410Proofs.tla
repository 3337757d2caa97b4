--------------------------- MODULE Ld2410Proofs ---------------------------
(***************************************************************************)
(* The radar's parser, for any markers, any buffer that is longer than a   *)
(* header and any line: what the unit knows does not depend on how the     *)
(* UART cuts the line into pieces, and it is right again once more than a  *)
(* buffer of clean frames has come.  What the parser's loop computes is    *)
(* reached by induction over the bytes, from the well-foundedness of the   *)
(* natural numbers.                                                        *)
(***************************************************************************)
EXTENDS Ld2410, WellFoundedInduction, TLAPS

-----------------------------------------------------------------------------
(* Induction over sequences of bytes.                                       *)

\* A set of natural numbers has a least element.
LEMMA Least ==
  ASSUME NEW T, T \subseteq Nat, T # {}
  PROVE  \E m \in T : \A k \in T : m <= k
  <1> DEFINE R == OpToRel(<, Nat)
  <1>1. IsWellFoundedOn(R, Nat)
    BY NatLessThanWellFounded
  <1>2. R = {ss \in Nat \X Nat : ss[1] < ss[2]}
    BY DEF OpToRel
  <1> HIDE DEF R
  <1>3. PICK m \in T : \A k \in T : ~(<<k, m>> \in R)
    BY <1>1, WFMin
  <1>4. ASSUME NEW k \in T PROVE m <= k
    <2>1. ~(<<k, m>> \in R) /\ k \in Nat /\ m \in Nat
      BY <1>3
    <2> QED BY <1>2, <2>1
  <1> QED BY <1>4

LEMMA Induct ==
  ASSUME NEW S, 0 \in S, \A n \in Nat : n \in S => n + 1 \in S
  PROVE  \A n \in Nat : n \in S
  <1> SUFFICES ASSUME Nat \ S # {} PROVE FALSE
    OBVIOUS
  <1>1. PICK m \in Nat \ S : \A k \in Nat \ S : m <= k
    BY Least
  <1>2. m - 1 \in Nat /\ m - 1 + 1 = m
    BY <1>1
  <1>3. m - 1 \in S
    BY <1>1, <1>2
  <1> QED BY <1>1, <1>2, <1>3

LEMMA InductLen ==
  ASSUME NEW S, \A s \in Seq(Nat) : (\A t \in Seq(Nat) : Len(t) < Len(s) => t \in S) => s \in S
  PROVE  \A s \in Seq(Nat) : s \in S
  <1> SUFFICES ASSUME NEW s \in Seq(Nat), s \notin S PROVE FALSE
    OBVIOUS
  <1> DEFINE T == {n \in Nat : \E t \in Seq(Nat) : t \notin S /\ Len(t) = n}
  <1>1. T \subseteq Nat /\ T # {}
    <2>1. Len(s) \in Nat
      OBVIOUS
    <2>2. Len(s) \in T
      BY <2>1
    <2> QED BY <2>2
  <1>2. PICK m \in T : \A k \in T : m <= k
    BY <1>1, Least
  <1>3. PICK t \in Seq(Nat) : t \notin S /\ Len(t) = m
    OBVIOUS
  <1>4. PICK u \in Seq(Nat) : Len(u) < Len(t) /\ u \notin S
    BY <1>3
  <1>5. Len(u) \in T /\ Len(u) < m
    <2>1. Len(u) \in Nat
      OBVIOUS
    <2> QED BY <1>3, <1>4, <2>1
  <1>6. m <= Len(u) /\ m \in Nat /\ Len(u) \in Nat
    BY <1>2, <1>5
  <1> QED BY <1>5, <1>6

-----------------------------------------------------------------------------
(* What is defined by recursion on shorter and shorter sequences exists.    *)

Recursive(T, R, base, comb, next) ==
  /\ base \in [Seq(Nat) -> R] /\ comb \in [Seq(Nat) \X R -> R]
  /\ \A s \in Seq(Nat) : s \notin T => next[s] \in Seq(Nat) /\ Len(next[s]) < Len(s)

Computes(f, T, R, base, comb, next) ==
  /\ f \in [Seq(Nat) -> R]
  /\ \A s \in Seq(Nat) : f[s] = IF s \in T THEN base[s] ELSE comb[<<s, f[next[s]]>>]

LEMMA Recursion ==
  ASSUME NEW T, NEW R, NEW base, NEW comb, NEW next, Recursive(T, R, base, comb, next)
  PROVE  \E f : Computes(f, T, R, base, comb, next)
  <1> USE DEF Recursive
  <1> DEFINE D(n) == {s \in Seq(Nat) : Len(s) < n}
             Solves(g, n) == /\ g \in [D(n) -> R]
                             /\ \A s \in D(n) : g[s] = IF s \in T THEN base[s] ELSE comb[<<s, g[next[s]]>>]
             S == {n \in Nat : \E g : Solves(g, n)}
  <1>1. 0 \in S
    <2>1. D(0) = {}
      OBVIOUS
    <2>2. Solves([s \in D(0) |-> base[s]], 0)
      BY <2>1
    <2> QED BY <2>2
  <1>2. ASSUME NEW n \in Nat, n \in S PROVE n + 1 \in S
    <2>1. PICK g : Solves(g, n)
      BY <1>2
    <2> DEFINE h == [s \in D(n + 1) |-> IF s \in T THEN base[s] ELSE comb[<<s, g[next[s]]>>]]
    <2>2. ASSUME NEW s \in D(n + 1), s \notin T PROVE next[s] \in D(n) /\ g[next[s]] \in R
      <3>1. next[s] \in Seq(Nat) /\ Len(next[s]) < Len(s) /\ Len(s) < n + 1
        BY <2>2
      <3>2. next[s] \in D(n)
        BY <3>1
      <3> QED BY <2>1, <3>2
    <2>3. ASSUME NEW s \in D(n + 1) PROVE (IF s \in T THEN base[s] ELSE comb[<<s, g[next[s]]>>]) \in R
      BY <2>2
    <2>4. h \in [D(n + 1) -> R]
      BY <2>3
    <2>5. \A s \in D(n) : s \in D(n + 1) /\ h[s] = g[s]
      BY <2>1
    <2>6. ASSUME NEW s \in D(n + 1) PROVE h[s] = IF s \in T THEN base[s] ELSE comb[<<s, h[next[s]]>>]
      <3>1. s \notin T => h[next[s]] = g[next[s]]
        BY <2>2, <2>5
      <3>2. h[s] = IF s \in T THEN base[s] ELSE comb[<<s, g[next[s]]>>]
        OBVIOUS
      <3> HIDE DEF h
      <3> QED BY <3>1, <3>2
    <2> HIDE DEF h
    <2>7. Solves(h, n + 1) /\ n + 1 \in Nat
      BY <2>4, <2>6
    <2> HIDE DEF Solves
    <2> QED BY <2>7
  <1>3. \A n \in Nat : \E g : Solves(g, n)
    <2> HIDE DEF Solves
    <2>1. \A n \in Nat : n \in S
      <3> HIDE DEF S
      <3> QED BY <1>1, <1>2, Induct
    <2> QED BY <2>1
  <1> DEFINE Same(s) == \A m, n \in Nat : \A g, h : Solves(g, m) /\ Solves(h, n) /\ s \in D(m) /\ s \in D(n) => g[s] = h[s]
             A == {s \in Seq(Nat) : Same(s)}
  <1>4. ASSUME NEW s \in Seq(Nat), \A t \in Seq(Nat) : Len(t) < Len(s) => t \in A PROVE s \in A
    <2> HIDE DEF Solves, D
    <2> SUFFICES ASSUME NEW m \in Nat, NEW n \in Nat, NEW g, NEW h, Solves(g, m), Solves(h, n), s \in D(m), s \in D(n)
                 PROVE  g[s] = h[s]
      OBVIOUS
    <2> USE DEF Solves, D
    <2>1. CASE s \in T
      BY <2>1
    <2>2. CASE s \notin T
      <3>1. PICK t \in Seq(Nat) : t = next[s] /\ Len(t) < Len(s)
        BY <2>2
      <3>2. t \in D(m) /\ t \in D(n)
        BY <3>1
      <3>3. Same(t)
        <4> HIDE DEF Same
        <4> QED BY <1>4, <3>1
      <3>4. g[t] = h[t]
        <4> HIDE DEF Solves, D
        <4> QED BY <3>2, <3>3
      <3> QED BY <2>2, <3>1, <3>4
    <2> QED BY <2>1, <2>2
  <1>5. \A s \in Seq(Nat) : Same(s)
    <2>1. \A s \in Seq(Nat) : s \in A
      <3> HIDE DEF A
      <3> QED BY <1>4, InductLen
    <2> HIDE DEF Same
    <2> QED BY <2>1
  <1> DEFINE G(s) == CHOOSE g : Solves(g, Len(s) + 1)
             f == [s \in Seq(Nat) |-> G(s)[s]]
  <1>6. \A s \in Seq(Nat) : Solves(G(s), Len(s) + 1) /\ s \in D(Len(s) + 1)
    <2> HIDE DEF Solves
    <2>1. \A s \in Seq(Nat) : Len(s) + 1 \in Nat
      OBVIOUS
    <2>2. \A s \in Seq(Nat) : Solves(G(s), Len(s) + 1)
      BY <1>3, <2>1
    <2>3. \A s \in Seq(Nat) : s \in D(Len(s) + 1)
      OBVIOUS
    <2> QED BY <2>2, <2>3
  <1>7. f \in [Seq(Nat) -> R]
    <2>1. \A s \in Seq(Nat) : G(s)[s] \in R
      <3> HIDE DEF G
      <3> QED BY <1>6
    <2> HIDE DEF G
    <2> QED BY <2>1
  <1>8. ASSUME NEW s \in Seq(Nat) PROVE f[s] = IF s \in T THEN base[s] ELSE comb[<<s, f[next[s]]>>]
    <2>1. f[s] = G(s)[s]
      OBVIOUS
    <2>2. G(s)[s] = IF s \in T THEN base[s] ELSE comb[<<s, G(s)[next[s]]>>]
      <3> HIDE DEF G
      <3> QED BY <1>6
    <2>3. s \notin T => f[next[s]] = G(s)[next[s]]
      <3> SUFFICES ASSUME s \notin T PROVE f[next[s]] = G(s)[next[s]]
        OBVIOUS
      <3>1. PICK t \in Seq(Nat) : t = next[s] /\ Len(t) < Len(s)
        OBVIOUS
      <3>2. f[t] = G(t)[t]
        OBVIOUS
      <3>3. Solves(G(s), Len(s) + 1) /\ Solves(G(t), Len(t) + 1) /\ t \in D(Len(s) + 1) /\ t \in D(Len(t) + 1)
        <4> HIDE DEF G, Solves
        <4> QED BY <1>6, <3>1
      <3>4. Len(s) + 1 \in Nat /\ Len(t) + 1 \in Nat
        OBVIOUS
      <3>5. G(s)[t] = G(t)[t]
        <4> HIDE DEF G, Solves, D
        <4> QED BY <1>5, <3>3, <3>4
      <3> QED BY <3>1, <3>2, <3>5
    <2> HIDE DEF f, G
    <2> QED BY <2>1, <2>2, <2>3
  <1> HIDE DEF f
  <1> QED BY <1>7, <1>8 DEF Computes

-----------------------------------------------------------------------------
(* Sequences of bytes and their parts.                                      *)

LEMMA SameBytes ==
  ASSUME NEW s \in Seq(Nat), NEW t \in Seq(Nat), Len(s) = Len(t), \A i \in 1..Len(s) : s[i] = t[i]
  PROVE  s = t
  OBVIOUS

LEMMA FromFacts ==
  ASSUME NEW b \in Seq(Nat), NEW p \in 1..Len(b) + 1
  PROVE  /\ From(b, p) \in Seq(Nat) /\ Len(From(b, p)) = Len(b) + 1 - p
         /\ \A i \in 1..Len(b) + 1 - p : From(b, p)[i] = b[p - 1 + i]
  BY DEF From

LEMMA JoinFacts ==
  ASSUME NEW s \in Seq(Nat), NEW t \in Seq(Nat)
  PROVE  /\ s \o t \in Seq(Nat) /\ Len(s \o t) = Len(s) + Len(t)
         /\ \A i \in 1..Len(s) : (s \o t)[i] = s[i]
         /\ \A i \in 1..Len(t) : (s \o t)[Len(s) + i] = t[i]
  OBVIOUS

LEMMA JoinEmpty ==
  ASSUME NEW s \in Seq(Nat)
  PROVE  s \o <<>> = s /\ <<>> \o s = s
  OBVIOUS

LEMMA JoinAssoc == \A s, t, u \in Seq(Nat) : s \o (t \o u) = (s \o t) \o u
  BY SMTT(60)

\* From an element on of what comes from another on.
LEMMA FromFrom ==
  ASSUME NEW b \in Seq(Nat), NEW p \in 1..Len(b) + 1, NEW q \in 1..Len(b) + 2 - p
  PROVE  From(From(b, p), q) = From(b, p + q - 1) /\ p + q - 1 \in 1..Len(b) + 1
  <1>0. Len(b) \in Nat /\ p + q - 1 \in 1..Len(b) + 1
    OBVIOUS
  <1>1. PICK c : c = From(b, p)
    OBVIOUS
  <1>2. c \in Seq(Nat) /\ Len(c) = Len(b) + 1 - p /\ \A i \in 1..Len(c) : c[i] = b[p - 1 + i]
    BY <1>1, FromFacts
  <1>3. q \in 1..Len(c) + 1
    BY <1>0, <1>2
  <1>4. PICK d : d = From(c, q)
    OBVIOUS
  <1>5. d \in Seq(Nat) /\ Len(d) = Len(c) + 1 - q /\ \A i \in 1..Len(d) : d[i] = c[q - 1 + i]
    BY <1>2, <1>3, <1>4, FromFacts
  <1>6. PICK e : e = From(b, p + q - 1)
    OBVIOUS
  <1>7. /\ e \in Seq(Nat) /\ Len(e) = Len(b) + 1 - (p + q - 1)
        /\ \A i \in 1..Len(e) : e[i] = b[(p + q - 1) - 1 + i]
    BY <1>0, <1>6, FromFacts
  <1>8. Len(d) = Len(e)
    BY <1>0, <1>2, <1>5, <1>7
  <1>9. ASSUME NEW i \in 1..Len(d) PROVE d[i] = e[i]
    <2>1. q - 1 + i \in 1..Len(c) /\ p - 1 + (q - 1 + i) = (p + q - 1) - 1 + i
      BY <1>0, <1>2, <1>5
    <2> QED BY <1>2, <1>5, <1>7, <1>8, <2>1
  <1>10. d = e
    BY <1>5, <1>7, <1>8, <1>9, SameBytes
  <1> QED BY <1>0, <1>1, <1>4, <1>6, <1>10

\* What follows stays where it is.
LEMMA FromJoin ==
  ASSUME NEW b \in Seq(Nat), NEW e \in Seq(Nat), NEW p \in 1..Len(b) + 1
  PROVE  From(b \o e, p) = From(b, p) \o e
  <1>0. Len(b) \in Nat /\ Len(e) \in Nat
    OBVIOUS
  <1>1. PICK a : a = b \o e
    OBVIOUS
  <1>2. /\ a \in Seq(Nat) /\ Len(a) = Len(b) + Len(e)
        /\ \A i \in 1..Len(b) : a[i] = b[i]
        /\ \A i \in 1..Len(e) : a[Len(b) + i] = e[i]
    BY <1>1, JoinFacts
  <1>3. PICK c : c = From(a, p)
    OBVIOUS
  <1>4. c \in Seq(Nat) /\ Len(c) = Len(a) + 1 - p /\ \A i \in 1..Len(c) : c[i] = a[p - 1 + i]
    <2>1. p \in 1..Len(a) + 1
      BY <1>0, <1>2
    <2>2. /\ From(a, p) \in Seq(Nat) /\ Len(From(a, p)) = Len(a) + 1 - p
          /\ \A i \in 1..Len(a) + 1 - p : From(a, p)[i] = a[p - 1 + i]
      BY <1>2, <2>1, FromFacts
    <2> QED BY <1>3, <2>2
  <1>5. PICK d : d = From(b, p)
    OBVIOUS
  <1>6. d \in Seq(Nat) /\ Len(d) = Len(b) + 1 - p /\ \A i \in 1..Len(d) : d[i] = b[p - 1 + i]
    BY <1>5, FromFacts
  <1>7. PICK f : f = d \o e
    OBVIOUS
  <1>8. /\ f \in Seq(Nat) /\ Len(f) = Len(d) + Len(e)
        /\ \A i \in 1..Len(d) : f[i] = d[i]
        /\ \A i \in 1..Len(e) : f[Len(d) + i] = e[i]
    BY ZenonT(30), <1>6, <1>7, JoinFacts
  <1>9. Len(c) = Len(f)
    BY <1>0, <1>2, <1>4, <1>6, <1>8
  <1>10. ASSUME NEW i \in 1..Len(c) PROVE c[i] = f[i]
    <2>1. CASE i \in 1..Len(d)
      <3>1. p - 1 + i \in 1..Len(b)
        BY <1>0, <1>6, <2>1
      <3> QED BY <1>2, <1>4, <1>6, <1>8, <2>1, <3>1
    <2>2. CASE i \notin 1..Len(d)
      <3>1. PICK k \in 1..Len(e) : i = Len(d) + k
        <4>1. i - Len(d) \in 1..Len(e) /\ i = Len(d) + (i - Len(d))
          BY <1>0, <1>2, <1>4, <1>6, <2>2
        <4> QED BY <4>1
      <3>2. p - 1 + i = Len(b) + k
        BY <1>0, <1>6, <3>1
      <3>3. c[i] = a[Len(b) + k]
        BY <1>4, <3>2
      <3> QED BY <1>2, <1>8, <3>1, <3>3
    <2> QED BY <2>1, <2>2
  <1>11. c = f
    BY <1>4, <1>8, <1>9, <1>10, SameBytes
  <1> QED BY <1>1, <1>3, <1>5, <1>7, <1>11

-----------------------------------------------------------------------------
(* The recursive definitions do what they say.                              *)

LEMMA Markers ==
  /\ Len(HEADER) \in Nat /\ Len(HEADER) > 0 /\ Len(FOOTER) \in Nat /\ Len(FOOTER) > 0
  /\ BufSize \in Nat /\ BufSize > Len(HEADER)
  /\ HEADER \in Seq(Nat) /\ FOOTER \in Seq(Nat)
  /\ \A k \in 1..Len(HEADER) : HEADER[k] # FOOTER[Len(FOOTER)]
  BY RadarAssumption DEF RadarAssumption

LEMMA MarkerLens ==
  /\ Len(HEADER) \in Nat /\ Len(HEADER) > 0 /\ Len(FOOTER) \in Nat /\ Len(FOOTER) > 0
  /\ BufSize \in Nat /\ BufSize > Len(HEADER)
  BY Markers

\* The length of a frame whose length has come.
LEMMA FrameLenFacts ==
  ASSUME NEW b \in Seq(Nat), Len(b) > Len(HEADER)
  PROVE  FrameLen(b) \in Nat /\ FrameLen(b) >= Len(HEADER) + 1 + Len(FOOTER)
  <1>1. Len(b) \in Nat /\ Len(HEADER) + 1 \in 1..Len(b)
    BY Markers
  <1>2. PICK x \in Nat : x = b[Len(HEADER) + 1]
    BY <1>1
  <1>3. FrameLen(b) = Len(HEADER) + 1 + x + Len(FOOTER)
    BY <1>2 DEF FrameLen
  <1> QED BY <1>3, Markers

LEMMA Unstuck ==
  ASSUME NEW b \in Seq(Nat), ~Stuck(b)
  PROVE  /\ Passes(b) \in Nat /\ Passes(b) >= 1 /\ Passes(b) <= Len(b)
         /\ Passes(b) + 1 \in 1..Len(b) + 1
         /\ Finds(b) \in Seq(Nat)
         /\ From(b, Passes(b) + 1) \in Seq(Nat) /\ Len(From(b, Passes(b) + 1)) = Len(b) - Passes(b)
  <1>1. Len(b) \in Nat /\ Len(b) >= Len(HEADER)
    BY Markers DEF Stuck
  <1>2. CASE StartsWith(b, HEADER)
    <2>1. Len(b) > Len(HEADER) /\ Len(b) >= FrameLen(b)
      <3>1. Len(b) # Len(HEADER) /\ ~(Len(b) < FrameLen(b))
        BY <1>2 DEF Stuck
      <3>2. Len(b) > Len(HEADER)
        BY <1>1, <3>1, Markers
      <3> QED BY <1>1, <3>1, <3>2, FrameLenFacts
    <2>2. FrameLen(b) \in Nat /\ FrameLen(b) >= Len(HEADER) + 1 + Len(FOOTER)
      BY <2>1, FrameLenFacts
    <2>3. Passes(b) = FrameLen(b)
      BY <1>2 DEF Passes
    <2>4. Len(HEADER) + 2 \in 1..Len(b)
      BY <1>1, <2>1, <2>2, Markers
    <2>5. TargetOf(b) \in Nat
      BY <2>4 DEF TargetOf
    <2>6. Finds(b) \in Seq(Nat)
      BY <2>5 DEF Finds
    <2>7. Passes(b) >= 1 /\ Passes(b) + 1 \in 1..Len(b) + 1
      <3>1. PICK n \in Nat : n = FrameLen(b)
        BY <2>2
      <3>2. n >= 1 /\ n <= Len(b)
        BY <2>1, <2>2, <3>1, MarkerLens
      <3>3. n + 1 \in 1..Len(b) + 1
        BY <1>1, <3>2
      <3> QED BY <2>3, <3>1, <3>2, <3>3
    <2>8. From(b, Passes(b) + 1) \in Seq(Nat) /\ Len(From(b, Passes(b) + 1)) = Len(b) + 1 - (Passes(b) + 1)
      BY <2>7, FromFacts
    <2> QED BY <1>1, <2>1, <2>2, <2>3, <2>6, <2>7, <2>8
  <1>3. CASE ~StartsWith(b, HEADER)
    <2>1. Passes(b) = 1 /\ Finds(b) = <<>> /\ Finds(b) \in Seq(Nat)
      BY <1>3 DEF Passes, Finds
    <2>2. Passes(b) + 1 \in 1..Len(b) + 1
      BY <1>1, <2>1, Markers
    <2>3. From(b, Passes(b) + 1) \in Seq(Nat) /\ Len(From(b, Passes(b) + 1)) = Len(b) + 1 - (Passes(b) + 1)
      BY <2>2, FromFacts
    <2> QED BY <1>1, <2>1, <2>2, <2>3, Markers
  <1> QED BY <1>2, <1>3

LEMMA FoundDefined ==
  /\ Found \in [Seq(Nat) -> Seq(Nat)]
  /\ \A b \in Seq(Nat) :
       Found[b] = IF Stuck(b) THEN <<>> ELSE Finds(b) \o Found[From(b, Passes(b) + 1)]
  <1> DEFINE P(f) == f = [b \in Seq(Nat) |-> IF Stuck(b) THEN <<>> ELSE Finds(b) \o f[From(b, Passes(b) + 1)]]
             T    == {b \in Seq(Nat) : Stuck(b)}
             base == [b \in Seq(Nat) |-> <<>>]
             next == [b \in Seq(Nat) |-> From(b, Passes(b) + 1)]
             comb == [x \in Seq(Nat) \X Seq(Nat) |-> IF Stuck(x[1]) THEN <<>> ELSE Finds(x[1]) \o x[2]]
  <1>1. base \in [Seq(Nat) -> Seq(Nat)]
    OBVIOUS
  <1>2. comb \in [Seq(Nat) \X Seq(Nat) -> Seq(Nat)]
    <2>1. ASSUME NEW x \in Seq(Nat) \X Seq(Nat)
          PROVE  (IF Stuck(x[1]) THEN <<>> ELSE Finds(x[1]) \o x[2]) \in Seq(Nat)
      <3>1. x[1] \in Seq(Nat) /\ x[2] \in Seq(Nat)
        OBVIOUS
      <3>2. ~Stuck(x[1]) => Finds(x[1]) \in Seq(Nat)
        BY <3>1, Unstuck
      <3> QED BY <3>1, <3>2
    <2> QED BY <2>1
  <1>3. \A s \in Seq(Nat) : s \notin T => next[s] \in Seq(Nat) /\ Len(next[s]) < Len(s)
    <2> SUFFICES ASSUME NEW s \in Seq(Nat), ~Stuck(s)
                 PROVE  From(s, Passes(s) + 1) \in Seq(Nat) /\ Len(From(s, Passes(s) + 1)) < Len(s)
      OBVIOUS
    <2>1. Len(s) \in Nat
      OBVIOUS
    <2> QED BY <2>1, Unstuck
  <1>4. PICK f \in [Seq(Nat) -> Seq(Nat)] :
          \A s \in Seq(Nat) : f[s] = IF s \in T THEN base[s] ELSE comb[<<s, f[next[s]]>>]
    <2> HIDE DEF T, base, next, comb
    <2>1. Recursive(T, Seq(Nat), base, comb, next)
      BY <1>1, <1>2, <1>3 DEF Recursive
    <2>2. \E f : Computes(f, T, Seq(Nat), base, comb, next)
      BY <2>1, Recursion
    <2> QED BY <2>2 DEF Computes
  <1>5. \A b \in Seq(Nat) : f[b] = IF Stuck(b) THEN <<>> ELSE Finds(b) \o f[From(b, Passes(b) + 1)]
    <2> SUFFICES ASSUME NEW b \in Seq(Nat), ~Stuck(b) PROVE f[b] = Finds(b) \o f[From(b, Passes(b) + 1)]
      BY <1>4
    <2>1. PICK t \in Seq(Nat) : t = From(b, Passes(b) + 1) /\ t = next[b]
      BY Unstuck
    <2>2. f[b] = comb[<<b, f[t]>>]
      BY <1>4, <2>1
    <2>3. f[t] \in Seq(Nat)
      OBVIOUS
    <2>4. comb[<<b, f[t]>>] = Finds(b) \o f[t]
      BY <2>3
    <2> QED BY <2>1, <2>2, <2>4
  <1>6. P(f)
    BY <1>5
  <1>7. Found = CHOOSE g : P(g)
    BY DEF Found
  <1>8. P(Found)
    <2> HIDE DEF P
    <2> QED BY <1>6, <1>7
  <1>9. \A b \in Seq(Nat) : Found[b] = IF Stuck(b) THEN <<>> ELSE Finds(b) \o Found[From(b, Passes(b) + 1)]
    BY <1>8
  <1> DEFINE S == {b \in Seq(Nat) : Found[b] \in Seq(Nat)}
  <1>10. ASSUME NEW s \in Seq(Nat), \A t \in Seq(Nat) : Len(t) < Len(s) => t \in S PROVE s \in S
    <2>1. CASE Stuck(s)
      <3>1. Found[s] = <<>> /\ <<>> \in Seq(Nat)
        BY <1>9, <2>1
      <3> QED BY <3>1
    <2>2. CASE ~Stuck(s)
      <3>1. PICK t \in Seq(Nat) : t = From(s, Passes(s) + 1) /\ Len(t) < Len(s)
        BY <1>3, <2>2
      <3>2. Found[t] \in Seq(Nat) /\ Finds(s) \in Seq(Nat)
        BY <1>10, <2>2, <3>1, Unstuck
      <3>3. Found[s] = Finds(s) \o Found[t]
        BY <1>9, <2>2, <3>1
      <3>4. Finds(s) \o Found[t] \in Seq(Nat)
        BY <3>2
      <3>5. Found[s] \in Seq(Nat)
        BY <3>3, <3>4
      <3> QED BY <3>5
    <2> QED BY <2>1, <2>2
  <1>11. \A b \in Seq(Nat) : b \in S
    <2> HIDE DEF S
    <2> QED BY <1>10, InductLen
  <1>12. Found = [b \in Seq(Nat) |-> Found[b]]
    BY <1>8
  <1>13. \A b \in Seq(Nat) : Found[b] \in Seq(Nat)
    BY <1>11
  <1> QED BY <1>9, <1>12, <1>13

LEMMA RestDefined ==
  \A b \in Seq(Nat) : /\ Rest[b] = IF Stuck(b) THEN b ELSE Rest[From(b, Passes(b) + 1)]
                      /\ Rest[b] \in Seq(Nat) /\ Len(Rest[b]) <= Len(b) /\ Stuck(Rest[b])
  <1> DEFINE P(f) == f = [b \in Seq(Nat) |-> IF Stuck(b) THEN b ELSE f[From(b, Passes(b) + 1)]]
             T    == {b \in Seq(Nat) : Stuck(b)}
             base == [b \in Seq(Nat) |-> b]
             next == [b \in Seq(Nat) |-> From(b, Passes(b) + 1)]
             comb == [x \in Seq(Nat) \X Seq(Nat) |-> x[2]]
  <1>1. base \in [Seq(Nat) -> Seq(Nat)] /\ comb \in [Seq(Nat) \X Seq(Nat) -> Seq(Nat)]
    OBVIOUS
  <1>2. ASSUME NEW s \in Seq(Nat), ~Stuck(s)
        PROVE  /\ From(s, Passes(s) + 1) \in Seq(Nat)
               /\ Len(From(s, Passes(s) + 1)) < Len(s)
    <2>1. Len(s) \in Nat
      OBVIOUS
    <2> QED BY <1>2, <2>1, Unstuck
  <1>3. PICK f : Computes(f, T, Seq(Nat), base, comb, next)
    <2>1. \A s \in Seq(Nat) : s \notin T => next[s] \in Seq(Nat) /\ Len(next[s]) < Len(s)
      BY <1>2
    <2> HIDE DEF T, base, next, comb
    <2>2. Recursive(T, Seq(Nat), base, comb, next)
      BY <1>1, <2>1 DEF Recursive
    <2> QED BY <2>2, Recursion
  <1>4. \A b \in Seq(Nat) : f[b] = IF Stuck(b) THEN b ELSE f[From(b, Passes(b) + 1)]
    <2> SUFFICES ASSUME NEW b \in Seq(Nat), ~Stuck(b) PROVE f[b] = f[From(b, Passes(b) + 1)]
      BY <1>3 DEF Computes
    <2>1. PICK t \in Seq(Nat) : t = From(b, Passes(b) + 1) /\ t = next[b]
      BY <1>2
    <2>2. f[b] = comb[<<b, f[t]>>] /\ f[t] \in Seq(Nat)
      BY <1>3, <2>1 DEF Computes
    <2>3. comb[<<b, f[t]>>] = f[t]
      BY <2>2
    <2> QED BY <2>1, <2>2, <2>3
  <1>5. P(f)
    BY <1>3, <1>4 DEF Computes
  <1>6. Rest = CHOOSE g : P(g)
    BY DEF Rest
  <1>7. P(Rest)
    <2> HIDE DEF P
    <2> QED BY <1>5, <1>6
  <1>8. \A b \in Seq(Nat) : Rest[b] = IF Stuck(b) THEN b ELSE Rest[From(b, Passes(b) + 1)]
    BY <1>7
  <1> DEFINE S == {b \in Seq(Nat) : Rest[b] \in Seq(Nat) /\ Len(Rest[b]) <= Len(b) /\ Stuck(Rest[b])}
  <1>9. ASSUME NEW s \in Seq(Nat), \A t \in Seq(Nat) : Len(t) < Len(s) => t \in S PROVE s \in S
    <2>1. Len(s) \in Nat
      OBVIOUS
    <2>2. CASE Stuck(s)
      BY <1>8, <2>1, <2>2
    <2>3. CASE ~Stuck(s)
      <3>1. PICK t \in Seq(Nat) : t = From(s, Passes(s) + 1) /\ Len(t) < Len(s)
        BY <1>2, <2>3
      <3>2. Rest[s] = Rest[t]
        BY <1>8, <2>3, <3>1
      <3>3. Rest[t] \in Seq(Nat) /\ Len(Rest[t]) <= Len(t) /\ Stuck(Rest[t])
        BY <1>9, <3>1
      <3>4. Len(Rest[s]) <= Len(s)
        <4>1. Len(Rest[t]) \in Nat /\ Len(t) \in Nat
          BY <3>3
        <4> QED BY <2>1, <3>1, <3>2, <3>3, <4>1
      <3> QED BY <3>2, <3>3, <3>4
    <2> QED BY <2>2, <2>3
  <1>10. \A b \in Seq(Nat) : b \in S
    <2> HIDE DEF S
    <2> QED BY <1>9, InductLen
  <1>11. \A b \in Seq(Nat) : Rest[b] \in Seq(Nat) /\ Len(Rest[b]) <= Len(b) /\ Stuck(Rest[b])
    BY <1>10
  <1> QED BY <1>8, <1>11

\* What the reference passes over of bytes that it need not wait for.
Gone(s)  == Fitting(Passes(s))
Given(s) == IF Passes(s) <= BufSize THEN Finds(s) ELSE <<>>

LEMMA Finished ==
  ASSUME NEW s \in Seq(Nat), ~Unfinished(s)
  PROVE  /\ Gone(s) \in Nat /\ Gone(s) >= 1 /\ Gone(s) <= Len(s) /\ Gone(s) <= BufSize
         /\ Gone(s) + 1 \in 1..Len(s) + 1
         /\ Given(s) \in Seq(Nat)
         /\ From(s, Gone(s) + 1) \in Seq(Nat) /\ Len(From(s, Gone(s) + 1)) = Len(s) - Gone(s)
         /\ Len(From(s, Gone(s) + 1)) < Len(s)
  <1>1. Len(s) \in Nat /\ Len(s) >= Len(HEADER)
    BY Markers DEF Unfinished
  <1>2. Passes(s) \in Nat /\ Passes(s) >= 1 /\ Gone(s) <= Len(s)
    <2>1. CASE StartsWith(s, HEADER)
      <3>1. Len(s) > Len(HEADER) /\ ~(Len(s) < Fitting(FrameLen(s)))
        <4>1. Len(s) # Len(HEADER) /\ ~(Len(s) < Fitting(FrameLen(s)))
          BY <2>1 DEF Unfinished
        <4> QED BY <1>1, <4>1, Markers
      <3>2. FrameLen(s) \in Nat /\ FrameLen(s) >= Len(HEADER) + 1 + Len(FOOTER)
        BY <3>1, FrameLenFacts
      <3>3. Passes(s) = FrameLen(s)
        BY <2>1 DEF Passes
      <3>4. Fitting(FrameLen(s)) \in Nat
        BY <3>2, Markers DEF Fitting
      <3> QED BY <1>1, <3>1, <3>2, <3>3, <3>4, Markers DEF Gone
    <2>2. CASE ~StartsWith(s, HEADER)
      BY <1>1, <2>2, Markers DEF Passes, Gone, Fitting
    <2> QED BY <2>1, <2>2
  <1>3. Gone(s) \in Nat /\ Gone(s) >= 1 /\ Gone(s) <= BufSize
    BY <1>2, Markers DEF Gone, Fitting
  <1>4. Gone(s) + 1 \in 1..Len(s) + 1
    BY <1>1, <1>2, <1>3
  <1>5. From(s, Gone(s) + 1) \in Seq(Nat) /\ Len(From(s, Gone(s) + 1)) = Len(s) + 1 - (Gone(s) + 1)
    BY <1>4, FromFacts
  <1>6. Given(s) \in Seq(Nat)
    <2>1. CASE Passes(s) <= BufSize
      <3>1. Fitting(Passes(s)) = Passes(s)
        BY <2>1 DEF Fitting
      <3>2. ~Stuck(s)
        <4>1. Passes(s) <= Len(s)
          BY <1>2, <3>1 DEF Gone
        <4>2. StartsWith(s, HEADER) => Len(s) # Len(HEADER) /\ ~(Len(s) < FrameLen(s))
          BY <1>1, <1>2, <4>1 DEF Passes, Unfinished
        <4> QED BY <1>1, <4>2, Markers DEF Stuck
      <3> QED BY <2>1, <3>2, Unstuck DEF Given
    <2>2. CASE ~(Passes(s) <= BufSize)
      BY <2>2 DEF Given
    <2> QED BY <2>1, <2>2
  <1> QED BY <1>1, <1>2, <1>3, <1>4, <1>5, <1>6

LEMMA StatesDefined ==
  \A s \in Seq(Nat) : /\ StatesIn[s] = IF Unfinished(s) THEN <<>> ELSE Given(s) \o StatesIn[From(s, Gone(s) + 1)]
                      /\ StatesIn[s] \in Seq(Nat)
  <1> DEFINE P(f) == f = [s \in Seq(Nat) |-> IF Unfinished(s) THEN <<>> ELSE Given(s) \o f[From(s, Gone(s) + 1)]]
             T    == {s \in Seq(Nat) : Unfinished(s)}
             base == [s \in Seq(Nat) |-> <<>>]
             next == [s \in Seq(Nat) |-> From(s, Gone(s) + 1)]
             comb == [x \in Seq(Nat) \X Seq(Nat) |-> IF Unfinished(x[1]) THEN <<>> ELSE Given(x[1]) \o x[2]]
  <1>1. base \in [Seq(Nat) -> Seq(Nat)] /\ comb \in [Seq(Nat) \X Seq(Nat) -> Seq(Nat)]
    <2>1. ASSUME NEW x \in Seq(Nat) \X Seq(Nat)
          PROVE  (IF Unfinished(x[1]) THEN <<>> ELSE Given(x[1]) \o x[2]) \in Seq(Nat)
      <3>1. x[1] \in Seq(Nat) /\ x[2] \in Seq(Nat)
        OBVIOUS
      <3>2. ~Unfinished(x[1]) => Given(x[1]) \in Seq(Nat)
        BY <3>1, Finished
      <3> QED BY <3>1, <3>2
    <2>2. comb \in [Seq(Nat) \X Seq(Nat) -> Seq(Nat)]
      BY <2>1
    <2>3. base \in [Seq(Nat) -> Seq(Nat)]
      OBVIOUS
    <2> QED BY <2>2, <2>3
  <1>2. ASSUME NEW s \in Seq(Nat), ~Unfinished(s)
        PROVE  /\ From(s, Gone(s) + 1) \in Seq(Nat)
               /\ Len(From(s, Gone(s) + 1)) < Len(s)
    BY <1>2, Finished
  <1>3. PICK f : Computes(f, T, Seq(Nat), base, comb, next)
    <2>1. \A s \in Seq(Nat) : s \notin T => next[s] \in Seq(Nat) /\ Len(next[s]) < Len(s)
      BY <1>2
    <2> HIDE DEF T, base, next, comb
    <2>2. Recursive(T, Seq(Nat), base, comb, next)
      BY <1>1, <2>1 DEF Recursive
    <2> QED BY <2>2, Recursion
  <1>4. \A s \in Seq(Nat) : f[s] = IF Unfinished(s) THEN <<>> ELSE Given(s) \o f[From(s, Gone(s) + 1)]
    <2>1. \A s \in Seq(Nat) : Unfinished(s) => f[s] = <<>>
      BY <1>3 DEF Computes
    <2> SUFFICES ASSUME NEW s \in Seq(Nat), ~Unfinished(s) PROVE f[s] = Given(s) \o f[From(s, Gone(s) + 1)]
      BY <2>1
    <2>2. PICK t \in Seq(Nat) : t = From(s, Gone(s) + 1) /\ t = next[s]
      BY <1>2
    <2>3. f[s] = comb[<<s, f[t]>>] /\ f[t] \in Seq(Nat)
      BY <1>3, <2>2 DEF Computes
    <2>4. comb[<<s, f[t]>>] = Given(s) \o f[t]
      BY <2>3
    <2> QED BY <2>2, <2>3, <2>4
  <1>5. P(f)
    BY <1>3, <1>4 DEF Computes
  <1>6. StatesIn = CHOOSE g : P(g)
    BY DEF StatesIn, Gone, Given
  <1>7. P(StatesIn)
    <2> HIDE DEF P
    <2> QED BY <1>5, <1>6
  <1>8. \A s \in Seq(Nat) : StatesIn[s] = IF Unfinished(s) THEN <<>> ELSE Given(s) \o StatesIn[From(s, Gone(s) + 1)]
    BY <1>7
  <1> DEFINE S == {s \in Seq(Nat) : StatesIn[s] \in Seq(Nat)}
  <1>9. ASSUME NEW s \in Seq(Nat), \A t \in Seq(Nat) : Len(t) < Len(s) => t \in S PROVE s \in S
    <2>1. CASE Unfinished(s)
      <3>1. StatesIn[s] = <<>> /\ <<>> \in Seq(Nat)
        BY <1>8, <2>1
      <3> QED BY <3>1
    <2>2. CASE ~Unfinished(s)
      <3>1. PICK t \in Seq(Nat) : t = From(s, Gone(s) + 1) /\ Len(t) < Len(s)
        BY <1>2, <2>2
      <3>2. StatesIn[t] \in Seq(Nat) /\ Given(s) \in Seq(Nat)
        BY <1>9, <2>2, <3>1, Finished
      <3>3. StatesIn[s] = Given(s) \o StatesIn[t]
        BY <1>8, <2>2, <3>1
      <3>4. Given(s) \o StatesIn[t] \in Seq(Nat)
        BY <3>2
      <3>5. StatesIn[s] \in Seq(Nat)
        BY <3>3, <3>4
      <3> QED BY <3>5
    <2> QED BY <2>1, <2>2
  <1>10. \A s \in Seq(Nat) : s \in S
    <2> HIDE DEF S
    <2> QED BY <1>9, InductLen
  <1>11. \A s \in Seq(Nat) : StatesIn[s] \in Seq(Nat)
    BY <1>10
  <1> QED BY <1>8, <1>11

LEMMA CleanDefined ==
  ASSUME NEW s \in Seq(Nat), s # <<>>, CleanRun[s]
  PROVE  BeginsClean(s) /\ CleanRun[From(s, FrameLen(s) + 1)]
  <1> DEFINE body(f, b) == IF b = <<>> THEN TRUE ELSE IF ~BeginsClean(b) THEN FALSE ELSE f[From(b, FrameLen(b) + 1)]
             P(f) == f = [b \in Seq(Nat) |-> body(f, b)]
             T    == {b \in Seq(Nat) : b = <<>> \/ ~BeginsClean(b)}
             base == [b \in Seq(Nat) |-> b = <<>>]
             next == [b \in Seq(Nat) |-> From(b, FrameLen(b) + 1)]
             comb == [x \in Seq(Nat) \X BOOLEAN |-> x[2]]
  <1>1. base \in [Seq(Nat) -> BOOLEAN] /\ comb \in [Seq(Nat) \X BOOLEAN -> BOOLEAN]
    OBVIOUS
  <1>2. ASSUME NEW b \in Seq(Nat), BeginsClean(b)
        PROVE  /\ From(b, FrameLen(b) + 1) \in Seq(Nat)
               /\ Len(From(b, FrameLen(b) + 1)) < Len(b)
    <2>1. Len(b) \in Nat /\ Len(b) > Len(HEADER) /\ FrameLen(b) <= Len(b)
      BY <1>2 DEF BeginsClean
    <2>2. FrameLen(b) \in Nat /\ FrameLen(b) >= 1
      BY <2>1, FrameLenFacts, Markers
    <2>3. FrameLen(b) + 1 \in 1..Len(b) + 1
      BY <2>1, <2>2
    <2>4. From(b, FrameLen(b) + 1) \in Seq(Nat) /\ Len(From(b, FrameLen(b) + 1)) = Len(b) + 1 - (FrameLen(b) + 1)
      BY <2>3, FromFacts
    <2> QED BY <2>1, <2>2, <2>4
  <1>3. PICK f : Computes(f, T, BOOLEAN, base, comb, next)
    <2>1. \A b \in Seq(Nat) : b \notin T => next[b] \in Seq(Nat) /\ Len(next[b]) < Len(b)
      BY <1>2
    <2> HIDE DEF T, base, next, comb
    <2>2. Recursive(T, BOOLEAN, base, comb, next)
      BY <1>1, <2>1 DEF Recursive
    <2> QED BY <2>2, Recursion
  <1>4. \A b \in Seq(Nat) : f[b] = body(f, b)
    <2>1. ASSUME NEW b \in Seq(Nat), b \in T PROVE f[b] = body(f, b)
      <3>1. f[b] = base[b]
        BY <1>3, <2>1 DEF Computes
      <3>2. base[b] = (b = <<>>)
        OBVIOUS
      <3> QED BY <2>1, <3>1, <3>2
    <2>2. ASSUME NEW b \in Seq(Nat), b \notin T PROVE f[b] = body(f, b)
      <3>1. PICK t \in Seq(Nat) : t = From(b, FrameLen(b) + 1) /\ t = next[b]
        BY <1>2, <2>2
      <3>2. f[b] = comb[<<b, f[t]>>] /\ f[t] \in BOOLEAN
        BY <1>3, <2>2, <3>1 DEF Computes
      <3>3. comb[<<b, f[t]>>] = f[t]
        BY <3>2
      <3>4. f[b] = f[From(b, FrameLen(b) + 1)]
        BY <3>1, <3>2, <3>3
      <3>5. body(f, b) = f[From(b, FrameLen(b) + 1)]
        BY <2>2
      <3> HIDE DEF body
      <3> QED BY <3>4, <3>5
    <2> HIDE DEF body, T
    <2> QED BY <2>1, <2>2
  <1>5. P(f)
    <2>1. f = [b \in Seq(Nat) |-> f[b]]
      BY <1>3 DEF Computes
    <2> HIDE DEF body
    <2> QED BY <1>4, <2>1
  <1>6. CleanRun = CHOOSE g : P(g)
    BY DEF CleanRun
  <1>7. P(CleanRun)
    <2> HIDE DEF P
    <2> QED BY <1>5, <1>6
  <1>8. CleanRun[s] = body(CleanRun, s)
    <2> HIDE DEF body
    <2> QED BY <1>7
  <1>9. CASE ~BeginsClean(s)
    BY <1>8, <1>9
  <1>10. CASE BeginsClean(s)
    BY <1>8, <1>10
  <1> QED BY <1>9, <1>10

-----------------------------------------------------------------------------
(* The parser's loop against a reader of the whole line.                    *)

\* A frame that is complete is the same with whatever follows it.
LEMMA Extends ==
  ASSUME NEW b \in Seq(Nat), NEW e \in Seq(Nat)
  PROVE  /\ Len(b) >= Len(HEADER) => (StartsWith(b \o e, HEADER) <=> StartsWith(b, HEADER))
         /\ Len(b) > Len(HEADER) => FrameLen(b \o e) = FrameLen(b)
         /\ Len(b) > Len(HEADER) /\ FrameLen(b) <= Len(b) =>
              (FrameEnds(b \o e) <=> FrameEnds(b)) /\ TargetOf(b \o e) = TargetOf(b)
  <1>1. PICK a \in Seq(Nat) : a = b \o e
    BY JoinFacts
  <1>2. Len(a) = Len(b) + Len(e) /\ Len(b) \in Nat /\ Len(e) \in Nat /\ \A i \in 1..Len(b) : a[i] = b[i]
    BY <1>1, JoinFacts
  <1>3. ASSUME Len(b) >= Len(HEADER) PROVE StartsWith(a, HEADER) <=> StartsWith(b, HEADER)
    <2>1. \A k \in 1..Len(HEADER) : k \in 1..Len(b)
      BY <1>2, <1>3, Markers
    <2>2. Len(HEADER) <= Len(a) /\ Len(HEADER) <= Len(b)
      BY <1>2, <1>3, Markers
    <2> QED BY <1>2, <2>1, <2>2 DEF StartsWith
  <1>4. ASSUME Len(b) > Len(HEADER) PROVE FrameLen(a) = FrameLen(b)
    <2>1. Len(HEADER) + 1 \in 1..Len(b)
      BY SMTT(30), <1>2, <1>4, Markers
    <2> QED BY <1>2, <2>1 DEF FrameLen
  <1>5. ASSUME Len(b) > Len(HEADER), FrameLen(b) <= Len(b)
        PROVE  (FrameEnds(a) <=> FrameEnds(b)) /\ TargetOf(a) = TargetOf(b)
    <2>1. FrameLen(b) \in Nat /\ FrameLen(b) >= Len(HEADER) + 1 + Len(FOOTER)
      BY <1>5, FrameLenFacts
    <2> DEFINE n == FrameLen(b)
    <2> HIDE DEF n
    <2>6. n \in Nat /\ n >= Len(HEADER) + 1 + Len(FOOTER) /\ n <= Len(b)
      BY <1>5, <2>1 DEF n
    <2>2. \A k \in 1..Len(FOOTER) : FrameLen(b) - Len(FOOTER) + k \in 1..Len(b)
      <3>1. \A k \in 1..Len(FOOTER) : n - Len(FOOTER) + k \in 1..Len(b)
        <4>1. Len(b) \in Nat
          OBVIOUS
        <4> QED BY <2>6, <4>1, MarkerLens
      <3> QED BY <3>1 DEF n
    <2>3. Len(HEADER) + 2 \in 1..Len(b)
      BY SMTT(30), <1>2, <2>6, MarkerLens
    <2>4. FrameLen(a) = FrameLen(b)
      BY <1>4, <1>5
    <2>5. FrameEnds(a) <=> FrameEnds(b)
      BY <1>2, <2>2, <2>4 DEF FrameEnds
    <2> QED BY <1>2, <2>3, <2>5 DEF TargetOf
  <1> QED BY <1>1, <1>3, <1>4, <1>5

\* A step of the loop is a step of the reader.
LEMMA SameStep ==
  ASSUME NEW b \in Seq(Nat), NEW e \in Seq(Nat), ~Stuck(b), Len(b) <= BufSize
  PROVE  StatesIn[b \o e] = Finds(b) \o StatesIn[From(b, Passes(b) + 1) \o e]
  <1>1. PICK a \in Seq(Nat) : a = b \o e
    BY JoinFacts
  <1>2. Len(a) = Len(b) + Len(e) /\ Len(b) \in Nat /\ Len(e) \in Nat /\ Len(b) >= Len(HEADER)
    BY <1>1, JoinFacts, Markers DEF Stuck
  <1>3. /\ Passes(b) \in Nat /\ Passes(b) >= 1 /\ Passes(b) <= Len(b) /\ Passes(b) + 1 \in 1..Len(b) + 1
        /\ Finds(b) \in Seq(Nat)
    BY Unstuck
  <1>4. StartsWith(a, HEADER) <=> StartsWith(b, HEADER)
    BY <1>1, <1>2, Extends
  <1>5. CASE StartsWith(b, HEADER)
    <2>1. Len(b) > Len(HEADER) /\ FrameLen(b) <= Len(b) /\ Passes(b) = FrameLen(b)
      <3>1. Len(b) # Len(HEADER) /\ Passes(b) = FrameLen(b)
        BY <1>5 DEF Stuck, Passes
      <3> QED BY <1>2, <1>3, <3>1, Markers
    <2>2. FrameLen(a) = FrameLen(b) /\ (FrameEnds(a) <=> FrameEnds(b)) /\ TargetOf(a) = TargetOf(b)
      BY <1>1, <2>1, Extends
    <2>3. Passes(a) = Passes(b) /\ Finds(a) = Finds(b)
      BY <1>4, <1>5, <2>1, <2>2 DEF Passes, Finds
    <2>4. Passes(b) <= BufSize
      BY <1>2, <1>3, Markers
    <2>5. Fitting(FrameLen(a)) = Passes(b) /\ Gone(a) = Passes(b) /\ Given(a) = Finds(b)
      BY <2>1, <2>2, <2>3, <2>4 DEF Fitting, Gone, Given
    <2>6. Len(a) >= Len(HEADER) /\ Len(a) # Len(HEADER) /\ ~(Len(a) < Passes(b)) /\ ~(Len(a) < Len(HEADER))
      <3>1. PICK l \in Nat, m \in Nat, k \in Nat : l = Len(b) /\ m = Len(e) /\ k = Passes(b)
        BY <1>2, <1>3
      <3>2. l > Len(HEADER) /\ k <= l /\ Len(a) = l + m
        BY <1>2, <1>3, <2>1, <3>1
      <3> QED BY <3>1, <3>2, MarkerLens
    <2>7. ~Unfinished(a)
      BY <2>5, <2>6 DEF Unfinished
    <2>8. StatesIn[a] = Finds(b) \o StatesIn[From(a, Passes(b) + 1)]
      BY <2>5, <2>7, StatesDefined
    <2> QED BY <1>1, <1>3, <2>8, FromJoin
  <1>6. CASE ~StartsWith(b, HEADER)
    <2>1. Passes(a) = 1 /\ Passes(b) = 1 /\ Finds(a) = <<>> /\ Finds(b) = <<>>
      BY <1>4, <1>6 DEF Passes, Finds
    <2>2. 1 <= BufSize /\ ~(Len(a) < Len(HEADER))
      BY <1>2, Markers
    <2>3. ~Unfinished(a) /\ Gone(a) = 1 /\ Given(a) = <<>>
      BY <1>4, <1>6, <2>1, <2>2 DEF Unfinished, Gone, Given, Fitting
    <2>4. StatesIn[a] = Finds(b) \o StatesIn[From(a, Passes(b) + 1)]
      BY <2>1, <2>3, StatesDefined
    <2> QED BY <1>1, <1>3, <2>4, FromJoin
  <1> QED BY <1>5, <1>6

\* All that the loop finds the reader finds, and goes on where the loop has stopped.
LEMMA SameStates ==
  ASSUME NEW b \in Seq(Nat), Len(b) <= BufSize, NEW e \in Seq(Nat)
  PROVE  StatesIn[b \o e] = Found[b] \o StatesIn[Rest[b] \o e]
  <1> DEFINE Same(s) == Len(s) <= BufSize => StatesIn[s \o e] = Found[s] \o StatesIn[Rest[s] \o e]
             S == {s \in Seq(Nat) : Same(s)}
  <1>1. ASSUME NEW s \in Seq(Nat), \A t \in Seq(Nat) : Len(t) < Len(s) => t \in S PROVE s \in S
    <2> SUFFICES ASSUME Len(s) <= BufSize PROVE StatesIn[s \o e] = Found[s] \o StatesIn[Rest[s] \o e]
      OBVIOUS
    <2>1. CASE Stuck(s)
      <3>1. Found[s] = <<>> /\ Rest[s] = s
        BY <2>1, FoundDefined, RestDefined
      <3>2. s \o e \in Seq(Nat)
        BY JoinFacts
      <3>3. StatesIn[s \o e] \in Seq(Nat)
        BY <3>2, StatesDefined
      <3>4. <<>> \o StatesIn[s \o e] = StatesIn[s \o e]
        BY <3>3, JoinEmpty
      <3> QED BY <3>1, <3>4
    <2>2. CASE ~Stuck(s)
      <3>1. PICK t \in Seq(Nat) : t = From(s, Passes(s) + 1) /\ Len(t) = Len(s) - Passes(s)
        BY <2>2, Unstuck
      <3>2. Len(t) < Len(s) /\ Len(t) <= BufSize
        <4>1. Len(s) \in Nat /\ Passes(s) \in Nat /\ Passes(s) >= 1
          BY <2>2, Unstuck
        <4> QED BY <3>1, <4>1, MarkerLens
      <3>3. StatesIn[t \o e] = Found[t] \o StatesIn[Rest[t] \o e]
        BY <1>1, <3>2
      <3>4. StatesIn[s \o e] = Finds(s) \o StatesIn[t \o e]
        BY <2>2, <3>1, SameStep
      <3>5. Found[s] = Finds(s) \o Found[t] /\ Rest[s] = Rest[t]
        BY <2>2, <3>1, FoundDefined, RestDefined
      <3>6. Finds(s) \in Seq(Nat) /\ Found[t] \in Seq(Nat)
        BY <2>2, Unstuck, FoundDefined
      <3>7. StatesIn[Rest[t] \o e] \in Seq(Nat)
        <4>1. Rest[t] \in Seq(Nat)
          BY RestDefined
        <4>2. Rest[t] \o e \in Seq(Nat)
          BY <4>1, JoinFacts
        <4> QED BY <4>2, StatesDefined
      <3>8. Finds(s) \o (Found[t] \o StatesIn[Rest[t] \o e]) = (Finds(s) \o Found[t]) \o StatesIn[Rest[t] \o e]
        <4>1. PICK x \in Seq(Nat), y \in Seq(Nat), z \in Seq(Nat) :
                x = Finds(s) /\ y = Found[t] /\ z = StatesIn[Rest[t] \o e]
          BY <3>6, <3>7
        <4>2. x \o (y \o z) = (x \o y) \o z
          BY JoinAssoc, SMTT(60)
        <4> QED BY <4>1, <4>2
      <3> QED BY <3>3, <3>4, <3>5, <3>8
    <2> QED BY <2>1, <2>2
  <1>2. \A s \in Seq(Nat) : s \in S
    <2> HIDE DEF S
    <2> QED BY <1>1, InductLen
  <1> QED BY <1>2

\* Where the loop stops with room in the buffer the reader knows no more.
LEMMA StuckUnfinished ==
  ASSUME NEW b \in Seq(Nat), Stuck(b), Len(b) < BufSize
  PROVE  StatesIn[b] = <<>>
  <1>1. Unfinished(b)
    <2>1. CASE Len(b) < Len(HEADER)
      BY <2>1 DEF Unfinished
    <2>2. CASE StartsWith(b, HEADER) /\ Len(b) = Len(HEADER)
      BY <2>2 DEF Unfinished
    <2>3. CASE StartsWith(b, HEADER) /\ Len(b) < FrameLen(b)
      <3>1. Len(b) < Fitting(FrameLen(b))
        BY <2>3 DEF Fitting
      <3> QED BY <2>3, <3>1 DEF Unfinished
    <2> QED BY <2>1, <2>2, <2>3 DEF Stuck
  <1> QED BY <1>1, StatesDefined

\* With none it passes over the buffer.
LEMMA StuckFull ==
  ASSUME NEW b \in Seq(Nat), Stuck(b), Len(b) = BufSize, NEW e \in Seq(Nat)
  PROVE  StatesIn[b \o e] = StatesIn[e]
  <1>1. PICK a \in Seq(Nat) : a = b \o e
    BY JoinFacts
  <1>2. Len(b) > Len(HEADER) /\ Len(b) \in Nat
    BY MarkerLens
  <1>3. StartsWith(b, HEADER) /\ Len(b) < FrameLen(b) /\ FrameLen(b) \in Nat
    <2>1. ~(Len(b) < Len(HEADER)) /\ Len(b) # Len(HEADER)
      BY <1>2, MarkerLens
    <2> QED BY <1>2, <2>1, FrameLenFacts DEF Stuck
  <1>4. StartsWith(a, HEADER) /\ FrameLen(a) = FrameLen(b)
    <2>1. Len(b) >= Len(HEADER)
      BY <1>2, MarkerLens
    <2> QED BY <1>1, <1>2, <1>3, <2>1, Extends
  <1>5. Passes(a) = FrameLen(b) /\ ~(FrameLen(b) <= BufSize)
    <2>1. Passes(a) = FrameLen(b)
      BY <1>4 DEF Passes
    <2> QED BY <1>2, <1>3, <2>1
  <1>6. Fitting(FrameLen(a)) = BufSize /\ Gone(a) = BufSize /\ Given(a) = <<>>
    BY <1>4, <1>5 DEF Fitting, Gone, Given
  <1>7. ~Unfinished(a)
    <2>3. Len(e) \in Nat
      OBVIOUS
    <2>1. Len(a) = Len(b) + Len(e) /\ Len(e) \in Nat
      BY <1>1, <2>3, JoinFacts
    <2>2. ~(Len(a) < Len(HEADER)) /\ Len(a) # Len(HEADER) /\ ~(Len(a) < BufSize)
      BY <1>2, <2>1, MarkerLens
    <2> QED BY <1>6, <2>2 DEF Unfinished
  <1>8. StatesIn[a] = <<>> \o StatesIn[From(a, BufSize + 1)]
    BY <1>6, <1>7, StatesDefined
  <1>9. From(a, BufSize + 1) = e
    <2>1. BufSize + 1 \in 1..Len(b) + 1
      BY <1>2
    <2>2. From(a, BufSize + 1) = From(b, BufSize + 1) \o e
      BY <1>1, <2>1, FromJoin
    <2>3. From(b, BufSize + 1) \in Seq(Nat) /\ Len(From(b, BufSize + 1)) = 0
      BY <1>2, <2>1, FromFacts
    <2>4. From(b, BufSize + 1) = <<>>
      BY <2>3
    <2> QED BY <2>2, <2>4, JoinEmpty
  <1>10. StatesIn[e] \in Seq(Nat)
    BY StatesDefined
  <1> QED BY <1>1, <1>8, <1>9, <1>10, JoinEmpty

-----------------------------------------------------------------------------
(* What the unit knows, and what makes it so for every way of cutting.      *)

\* Of the line up to any byte that is still to come, the reader finds what the parser has
\* found and then what there is in its buffer and behind it.
RadarInv ==
  /\ line \in Seq(Nat) /\ read \in 0..Len(line)
  /\ buf \in Seq(Nat) /\ Len(buf) <= BufSize /\ Stuck(buf)
  /\ states \in Seq(Nat)
  /\ uart.valid <=> states # <<>>
  /\ uart.valid => uart.target = states[Len(states)]
  /\ \A r \in read..Len(line) :
       StatesIn[SubSeq(line, 1, r)] = states \o StatesIn[buf \o SubSeq(line, read + 1, r)]

LEMMA CutFacts ==
  ASSUME NEW l \in Seq(Nat), NEW i \in Nat, NEW r \in i..Len(l)
  PROVE  SubSeq(l, i + 1, r) \in Seq(Nat) /\ Len(SubSeq(l, i + 1, r)) = r - i
         /\ \A k \in 1..r - i : SubSeq(l, i + 1, r)[k] = l[i + k]
  OBVIOUS

\* What is still to come is the next piece and what comes behind it.
LEMMA NextPiece ==
  ASSUME NEW l \in Seq(Nat), NEW i \in Nat, NEW m \in i..Len(l), NEW r \in m..Len(l)
  PROVE  SubSeq(l, i + 1, r) = SubSeq(l, i + 1, m) \o SubSeq(l, m + 1, r)
  <1>0. Len(l) \in Nat /\ m \in Nat /\ r \in i..Len(l) /\ r \in Nat /\ m <= r /\ i <= m
    OBVIOUS
  <1>1. PICK a \in Seq(Nat) : a = SubSeq(l, i + 1, r) /\ Len(a) = r - i /\ \A k \in 1..r - i : a[k] = l[i + k]
    BY <1>0, CutFacts
  <1>2. PICK b \in Seq(Nat) : b = SubSeq(l, i + 1, m) /\ Len(b) = m - i /\ \A k \in 1..m - i : b[k] = l[i + k]
    BY <1>0, CutFacts
  <1>3. PICK c \in Seq(Nat) : c = SubSeq(l, m + 1, r) /\ Len(c) = r - m /\ \A k \in 1..r - m : c[k] = l[m + k]
    BY <1>0, CutFacts
  <1>4. PICK d \in Seq(Nat) : d = b \o c /\ Len(d) = Len(b) + Len(c)
          /\ (\A k \in 1..Len(b) : d[k] = b[k]) /\ (\A k \in 1..Len(c) : d[Len(b) + k] = c[k])
    BY ZenonT(30), JoinFacts
  <1>5. Len(a) = Len(d)
    BY SMTT(30), <1>0, <1>1, <1>2, <1>3, <1>4
  <1>6. ASSUME NEW k \in 1..Len(a) PROVE a[k] = d[k]
    <2>1. CASE k \in 1..Len(b)
      BY <1>0, <1>1, <1>2, <1>4, <2>1
    <2>2. CASE k \notin 1..Len(b)
      <3>1. PICK j \in 1..Len(c) : k = Len(b) + j
        <4>1. k - Len(b) \in 1..Len(c) /\ k = Len(b) + (k - Len(b))
          BY <1>0, <1>1, <1>2, <1>3, <2>2
        <4> QED BY <4>1
      <3>2. i + k = m + j
        BY SMTT(30), <1>0, <1>2, <3>1
      <3>3. a[k] = l[m + j]
        BY <1>1, <3>2
      <3>4. c[j] = l[m + j]
        BY <1>3
      <3> QED BY <1>4, <3>1, <3>3, <3>4
    <2> QED BY <2>1, <2>2
  <1>7. a = d
    BY <1>5, <1>6, SameBytes
  <1> QED BY <1>1, <1>2, <1>3, <1>4, <1>7

LEMMA EmptyStuck == <<>> \in Seq(Nat) /\ Len(<<>>) = 0 /\ Stuck(<<>>) /\ StatesIn[<<>>] = <<>>
  <1>1. <<>> \in Seq(Nat) /\ Len(<<>>) = 0
    OBVIOUS
  <1>2. Stuck(<<>>)
    BY <1>1, MarkerLens DEF Stuck
  <1>3. Len(<<>>) < BufSize
    BY <1>1, MarkerLens
  <1> QED BY <1>1, <1>2, <1>3, StuckUnfinished

LEMMA InitRadar == RadarInit => RadarInv
  <1> SUFFICES ASSUME RadarInit PROVE RadarInv
    OBVIOUS
  <1>1. line \in Seq(Nat) /\ read = 0 /\ buf = <<>> /\ states = <<>> /\ ~uart.valid
    BY RadarAssumption DEF RadarInit, RadarAssumption
  <1>2. read \in 0..Len(line) /\ Len(buf) <= BufSize
    BY <1>1, EmptyStuck, MarkerLens
  <1>3. ASSUME NEW r \in read..Len(line)
        PROVE  StatesIn[SubSeq(line, 1, r)] = states \o StatesIn[buf \o SubSeq(line, read + 1, r)]
    <2>1. PICK e \in Seq(Nat) : e = SubSeq(line, 1, r) /\ e = SubSeq(line, read + 1, r)
      <3>1. read + 1 = 1 /\ 0 + 1 = 1 /\ r \in 0..Len(line) /\ line \in Seq(Nat) /\ 0 \in Nat
        BY <1>1
      <3>2. SubSeq(line, 0 + 1, r) \in Seq(Nat)
        BY <3>1, CutFacts
      <3> QED BY <3>1, <3>2
    <2>2. buf \o e = e
      BY <1>1, JoinEmpty
    <2>3. PICK x \in Seq(Nat) : x = StatesIn[e]
      BY StatesDefined
    <2>4. <<>> \o x = x
      BY JoinEmpty
    <2> QED BY <1>1, <2>1, <2>2, <2>3, <2>4
  <1> QED BY <1>1, <1>2, <1>3, EmptyStuck DEF RadarInv

LEMMA ReadKeeps ==
  ASSUME RadarInv, NEW n \in 1..Room, ReadAndScan(n) PROVE RadarInv'
  <1>1. /\ line \in Seq(Nat) /\ read \in Nat /\ read <= Len(line) /\ buf \in Seq(Nat) /\ Len(buf) \in Nat
        /\ Len(line) \in Nat /\ BufSize \in Nat /\ states \in Seq(Nat)
    BY MarkerLens DEF RadarInv
  <1>2. n \in Nat /\ n <= BufSize - Len(buf)
    BY <1>1 DEF Room
  <1>3. PICK piece \in Seq(Nat) : piece = SubSeq(line, read + 1, read + n) /\ Len(piece) = n
    <2>1. read + n \in read..Len(line)
      BY <1>1, <1>2 DEF ReadAndScan
    <2>2. /\ SubSeq(line, read + 1, read + n) \in Seq(Nat)
          /\ Len(SubSeq(line, read + 1, read + n)) = (read + n) - read
      BY <1>1, <2>1, CutFacts
    <2>3. (read + n) - read = n
      BY <1>1, <1>2
    <2> QED BY <2>2, <2>3
  <1>4. PICK all \in Seq(Nat) : all = buf \o piece /\ Len(all) <= BufSize
    <2>1. buf \o piece \in Seq(Nat) /\ Len(buf \o piece) = Len(buf) + Len(piece)
      BY <1>1, JoinFacts
    <2>2. Len(buf) + n <= BufSize
      BY <1>1, <1>2
    <2> QED BY <1>3, <2>1, <2>2
  <1>5. PICK found \in Seq(Nat) : found = Found[all]
    BY FoundDefined
  <1>6. /\ read' = read + n /\ read' <= Len(line) /\ line' = line
        /\ buf' = Rest[all] /\ states' = states \o found
        /\ uart' = IF found = <<>> THEN uart ELSE [target |-> found[Len(found)], valid |-> TRUE]
    BY <1>3, <1>4, <1>5 DEF ReadAndScan, ShiftedDown
  <1>7. buf' \in Seq(Nat) /\ Len(buf') <= BufSize /\ Stuck(buf)'
    <2>1. Rest[all] \in Seq(Nat) /\ Len(Rest[all]) <= Len(all) /\ Stuck(Rest[all])
      BY RestDefined
    <2>2. Len(Rest[all]) \in Nat /\ Len(all) \in Nat
      BY <2>1
    <2>3. Len(Rest[all]) <= BufSize
      BY <1>1, <1>4, <2>1, <2>2
    <2>4. Stuck(buf)' <=> Stuck(buf')
      BY DEF Stuck, StartsWith, FrameLen
    <2> QED BY <1>6, <2>1, <2>3, <2>4
  <1>8. states' \in Seq(Nat)
    BY <1>1, <1>6
  <1>9. (uart'.valid <=> states' # <<>>) /\ (uart'.valid => uart'.target = states'[Len(states')])
    <2>1. CASE found = <<>>
      BY <1>1, <1>6, <2>1, JoinEmpty DEF RadarInv
    <2>2. CASE found # <<>>
      <3>1. Len(found) \in Nat /\ Len(found) > 0
        BY <2>2
      <3>2. /\ Len(states') = Len(states) + Len(found)
            /\ states'[Len(states) + Len(found)] = found[Len(found)]
        <4>1. /\ Len(states \o found) = Len(states) + Len(found)
              /\ \A i \in 1..Len(found) : (states \o found)[Len(states) + i] = found[i]
          BY <1>1, JoinFacts
        <4> QED BY <1>6, <3>1, <4>1
      <3>3. states' # <<>>
        <4>1. Len(states) \in Nat
          BY <1>1
        <4> QED BY <3>1, <3>2, <4>1, EmptyStuck
      <3> QED BY <1>6, <2>2, <3>2, <3>3
    <2> QED BY <2>1, <2>2
  <1>10. ASSUME NEW r \in read'..Len(line)
         PROVE  StatesIn[SubSeq(line, 1, r)] = states' \o StatesIn[buf' \o SubSeq(line, read' + 1, r)]
    <2>1. read + n \in read..Len(line) /\ r \in read + n..Len(line) /\ r \in read..Len(line) /\ r \in Nat /\ read + n \in Nat
      BY <1>1, <1>2, <1>6
    <2>2. PICK e \in Seq(Nat) : e = SubSeq(line, (read + n) + 1, r)
      BY <1>1, <2>1, CutFacts
    <2>3. SubSeq(line, read + 1, r) = piece \o e
      BY <1>1, <1>3, <2>1, <2>2, NextPiece
    <2>4. buf \o (piece \o e) = all \o e
      <3>1. buf \in Seq(Nat)
        BY <1>1
      <3>2. buf \o (piece \o e) = (buf \o piece) \o e
        BY <3>1, JoinAssoc
      <3> QED BY <1>4, <3>2
    <2>5. StatesIn[SubSeq(line, 1, r)] = states \o StatesIn[all \o e]
      BY <2>1, <2>3, <2>4 DEF RadarInv
    <2>6. StatesIn[all \o e] = found \o StatesIn[Rest[all] \o e]
      BY <1>4, <1>5, SameStates
    <2>7. PICK x \in Seq(Nat) : x = StatesIn[Rest[all] \o e]
      <3>1. Rest[all] \in Seq(Nat)
        BY RestDefined
      <3>2. Rest[all] \o e \in Seq(Nat)
        BY <3>1, JoinFacts
      <3> QED BY <3>2, StatesDefined
    <2>8. states \o (found \o x) = (states \o found) \o x
      <3>1. states \in Seq(Nat)
        BY <1>1
      <3> QED BY ZenonT(30), <3>1, JoinAssoc
    <2> QED BY <1>6, <2>2, <2>5, <2>6, <2>7, <2>8
  <1>11. line' \in Seq(Nat) /\ read' \in 0..Len(line')
    BY <1>1, <1>2, <1>6
  <1> QED BY <1>6, <1>7, <1>8, <1>9, <1>10, <1>11 DEF RadarInv

LEMMA DiscardKeeps ==
  ASSUME RadarInv, Discards PROVE RadarInv'
  <1>1. /\ line \in Seq(Nat) /\ read \in Nat /\ read <= Len(line) /\ buf \in Seq(Nat) /\ Len(buf) \in Nat
        /\ Len(line) \in Nat /\ BufSize \in Nat /\ Stuck(buf)
    BY MarkerLens DEF RadarInv
  <1>2. Len(buf) = BufSize /\ buf' = <<>> /\ UNCHANGED <<line, read, states, uart>>
    BY <1>1 DEF Discards, Room, Emptied
  <1>3. ASSUME NEW r \in read..Len(line)
        PROVE  StatesIn[SubSeq(line, 1, r)] = states \o StatesIn[<<>> \o SubSeq(line, read + 1, r)]
    <2>1. PICK e \in Seq(Nat) : e = SubSeq(line, read + 1, r)
      BY <1>1, CutFacts
    <2>2. StatesIn[SubSeq(line, 1, r)] = states \o StatesIn[buf \o e]
      BY <2>1 DEF RadarInv
    <2>3. StatesIn[buf \o e] = StatesIn[e]
      BY <1>1, <1>2, StuckFull
    <2>4. <<>> \o e = e
      BY JoinEmpty
    <2> QED BY <2>1, <2>2, <2>3, <2>4
  <1>4. Stuck(buf)' /\ buf' \in Seq(Nat) /\ Len(buf') <= BufSize
    <2>1. Stuck(buf)' <=> Stuck(buf')
      BY DEF Stuck, StartsWith, FrameLen
    <2> QED BY <1>1, <1>2, <2>1, EmptyStuck, MarkerLens
  <1>5. \A r \in read'..Len(line') :
          StatesIn[SubSeq(line', 1, r)] = states' \o StatesIn[buf' \o SubSeq(line', read' + 1, r)]
    BY <1>2, <1>3
  <1> QED BY <1>2, <1>4, <1>5 DEF RadarInv

LEMMA InductiveRadar == RadarSpec => []RadarInv
  <1>1. RadarInv /\ [RadarNext]_radarVars => RadarInv'
    <2> SUFFICES ASSUME RadarInv, [RadarNext]_radarVars PROVE RadarInv'
      OBVIOUS
    <2>1. CASE \E n \in 1..Room : ReadAndScan(n)
      BY <2>1, ReadKeeps
    <2>2. CASE Discards
      BY <2>2, DiscardKeeps
    <2>3. CASE UNCHANGED radarVars
      BY <2>3 DEF radarVars, RadarInv, Stuck, StartsWith, FrameLen
    <2> QED BY <2>1, <2>2, <2>3 DEF RadarNext
  <1> QED BY <1>1, InitRadar, PTL DEF RadarSpec

LEMMA RadarInvSplitting == RadarInv => SplittingUnseen
  <1> SUFFICES ASSUME RadarInv PROVE states = StatesIn[SubSeq(line, 1, read)]
    BY DEF SplittingUnseen, RadarInv
  <1>1. line \in Seq(Nat) /\ read \in Nat /\ read <= Len(line) /\ buf \in Seq(Nat) /\ states \in Seq(Nat) /\ Len(line) \in Nat
    BY DEF RadarInv
  <1>2. SubSeq(line, read + 1, read) = <<>>
    <2>1. read \in read..Len(line)
      BY <1>1
    <2>2. SubSeq(line, read + 1, read) \in Seq(Nat) /\ Len(SubSeq(line, read + 1, read)) = read - read
      BY <1>1, <2>1, CutFacts
    <2> QED BY <1>1, <2>2
  <1>3. StatesIn[SubSeq(line, 1, read)] = states \o StatesIn[buf \o <<>>]
    <2>1. read \in read..Len(line)
      BY <1>1
    <2> QED BY <1>2, <2>1 DEF RadarInv
  <1>4. StatesIn[buf \o <<>>] = <<>>
    <2>1. CASE Len(buf) < BufSize
      BY <1>1, <2>1, JoinEmpty, StuckUnfinished DEF RadarInv
    <2>2. CASE ~(Len(buf) < BufSize)
      <3>1. Len(buf) = BufSize
        BY <1>1, <2>2, MarkerLens DEF RadarInv
      <3> QED BY ZenonT(30), <1>1, <3>1, StuckFull, EmptyStuck DEF RadarInv
    <2> QED BY <2>1, <2>2
  <1> QED BY <1>1, <1>3, <1>4, JoinEmpty

\* What the unit knows of the room depends on what the radar sent and not on how the UART
\* cut it up, what was left in the buffer or when the buffer ran full (ld2410c_parse_task).
THEOREM SplitsUnseen == RadarSpec => []SplittingUnseen
  BY InductiveRadar, RadarInvSplitting, PTL

-----------------------------------------------------------------------------
(* Finding the way back after noise.                                        *)

LastIs(s, v) == s # <<>> /\ s[Len(s)] = v

LEMMA LastJoin ==
  ASSUME NEW s \in Seq(Nat), NEW t \in Seq(Nat), NEW v, LastIs(t, v)
  PROVE  LastIs(s \o t, v)
  <1>1. Len(t) \in Nat /\ Len(s) \in Nat /\ Len(t) > 0 /\ t[Len(t)] = v
    BY DEF LastIs
  <1>2. Len(s \o t) = Len(s) + Len(t) /\ (s \o t)[Len(s) + Len(t)] = t[Len(t)]
    BY <1>1, JoinFacts
  <1>3. s \o t # <<>>
    BY <1>1, <1>2, EmptyStuck
  <1> QED BY <1>1, <1>2, <1>3 DEF LastIs

LEMMA FromFirst == ASSUME NEW s \in Seq(Nat) PROVE From(s, 1) = s
  BY DEF From

\* A frame at the front of a run, and no header before its end, not even one that reaches
\* into the next frame: the footer ends in a byte that no header has.
LEMMA BeginsFacts ==
  ASSUME NEW s \in Seq(Nat), BeginsClean(s)
  PROVE  /\ FrameLen(s) \in Nat /\ FrameLen(s) >= 1 /\ FrameLen(s) <= Len(s) /\ FrameLen(s) <= BufSize
         /\ StartsWith(s, HEADER) /\ FrameEnds(s) /\ Len(s) > Len(HEADER)
         /\ From(s, FrameLen(s) + 1) \in Seq(Nat) /\ Len(From(s, FrameLen(s) + 1)) = Len(s) - FrameLen(s)
         /\ \A i \in 2..FrameLen(s) : ~StartsWith(From(s, i), HEADER)
  <1>1. Len(s) > Len(HEADER) /\ FrameLen(s) <= Len(s) /\ CleanFrame(SubSeq(s, 1, FrameLen(s))) /\ Len(s) \in Nat
    BY DEF BeginsClean
  <1>2. FrameLen(s) \in Nat /\ FrameLen(s) >= Len(HEADER) + 1 + Len(FOOTER)
    BY <1>1, FrameLenFacts
  <1> DEFINE n == FrameLen(s)
  <1>3. n \in Nat /\ n >= Len(HEADER) + 1 + Len(FOOTER) /\ n <= Len(s) /\ n + 1 \in 1..Len(s) + 1 /\ n >= 1
    BY <1>1, <1>2, MarkerLens
  <1>4. PICK f \in Seq(Nat) : f = SubSeq(s, 1, n) /\ Len(f) = n /\ \A k \in 1..n : f[k] = s[k]
    <2> HIDE DEF n
    <2>1. n \in 0..Len(s) /\ 0 \in Nat /\ n - 0 = n /\ 0 + 1 = 1 /\ \A k \in 1..n : 0 + k = k
      BY <1>1, <1>3
    <2>2. SubSeq(s, 0 + 1, n) \in Seq(Nat) /\ Len(SubSeq(s, 0 + 1, n)) = n - 0
          /\ \A k \in 1..n - 0 : SubSeq(s, 0 + 1, n)[k] = s[0 + k]
      BY <2>1, CutFacts
    <2> QED BY <2>1, <2>2
  <1>5. CleanFrame(f)
    BY <1>1, <1>4
  <1>6. /\ Len(f) > Len(HEADER) + 1 /\ StartsWith(f, HEADER) /\ Len(f) = FrameLen(f) /\ Len(f) <= BufSize
        /\ FrameEnds(f) /\ \A i \in 2..Len(f) : ~StartsWith(From(f, i), HEADER)
    BY <1>5 DEF CleanFrame
  <1>7. From(s, n + 1) \in Seq(Nat) /\ Len(From(s, n + 1)) = Len(s) - n
    <2> HIDE DEF n
    <2>1. From(s, n + 1) \in Seq(Nat) /\ Len(From(s, n + 1)) = Len(s) + 1 - (n + 1)
      BY <1>3, FromFacts
    <2> QED BY <1>1, <1>3, <2>1
  <1> HIDE DEF n
  <1>8. StartsWith(s, HEADER)
    <2>1. \A k \in 1..Len(HEADER) : k \in 1..n
      BY <1>3, MarkerLens
    <2>2. \A k \in 1..Len(HEADER) : f[k] = HEADER[k]
      BY <1>6 DEF StartsWith
    <2>3. Len(HEADER) <= Len(s)
      BY <1>1, MarkerLens
    <2> QED BY <1>4, <2>1, <2>2, <2>3 DEF StartsWith
  <1>9. \A k \in 1..Len(FOOTER) : n - Len(FOOTER) + k \in 1..n /\ f[n - Len(FOOTER) + k] = FOOTER[k]
    <2>1. \A k \in 1..Len(FOOTER) : n - Len(FOOTER) + k \in 1..n
      BY <1>3, MarkerLens
    <2>2. \A k \in 1..Len(FOOTER) : f[n - Len(FOOTER) + k] = FOOTER[k]
      BY <1>4, <1>6 DEF FrameEnds
    <2> QED BY <2>1, <2>2
  <1>10. FrameEnds(s)
    BY <1>4, <1>9 DEF FrameEnds, n
  <1>11. ASSUME NEW i \in 2..n, StartsWith(From(s, i), HEADER) PROVE FALSE
    <2>1. i \in 1..Len(s) + 1 /\ i \in Nat
      BY <1>1, <1>3
    <2>2. /\ Len(From(s, i)) = Len(s) + 1 - i
          /\ \A k \in 1..Len(s) + 1 - i : From(s, i)[k] = s[i - 1 + k]
      BY <2>1, FromFacts
    <2>3. /\ Len(HEADER) <= Len(s) + 1 - i
          /\ \A k \in 1..Len(HEADER) : From(s, i)[k] = HEADER[k]
      BY <1>11, <2>2 DEF StartsWith
    <2>4. \A k \in 1..Len(HEADER) : k \in 1..Len(s) + 1 - i
      BY <1>1, <2>1, <2>3, MarkerLens
    <2>5. \A k \in 1..Len(HEADER) : s[i - 1 + k] = HEADER[k]
      BY <2>2, <2>3, <2>4
    <2>6. CASE Len(HEADER) <= n + 1 - i
      <3>1. i \in 1..Len(f) + 1 /\ i \in 2..Len(f)
        BY <1>3, <1>4
      <3>2. Len(From(f, i)) = n + 1 - i /\ \A k \in 1..n + 1 - i : From(f, i)[k] = f[i - 1 + k]
        BY <1>4, <3>1, FromFacts
      <3>3. \A k \in 1..Len(HEADER) : k \in 1..n + 1 - i /\ i - 1 + k \in 1..n
        BY <1>3, <2>1, <2>6, MarkerLens
      <3>4. \A k \in 1..Len(HEADER) : From(f, i)[k] = HEADER[k]
        BY <1>4, <2>5, <3>2, <3>3
      <3>5. StartsWith(From(f, i), HEADER)
        BY <2>6, <3>2, <3>4 DEF StartsWith
      <3> QED BY <1>6, <3>1, <3>5
    <2>7. CASE ~(Len(HEADER) <= n + 1 - i)
      <3>1. n + 1 - i \in 1..Len(HEADER) /\ i - 1 + (n + 1 - i) = n
        BY <1>3, <2>1, <2>7, MarkerLens
      <3>2. s[n] = HEADER[n + 1 - i]
        BY <2>5, <3>1
      <3>3. Len(FOOTER) \in 1..Len(FOOTER) /\ n - Len(FOOTER) + Len(FOOTER) = n
        BY <1>3, MarkerLens
      <3>4. f[n] = FOOTER[Len(FOOTER)] /\ n \in 1..n
        BY <1>3, <1>9, <3>3
      <3>5. HEADER[n + 1 - i] # FOOTER[Len(FOOTER)]
        BY <3>1, Markers
      <3> QED BY <1>4, <3>2, <3>4, <3>5
    <2> QED BY <2>6, <2>7
  <1>12. n <= BufSize
    BY <1>4, <1>6
  <1> QED BY <1>1, <1>3, <1>7, <1>8, <1>10, <1>11, <1>12 DEF n

\* The reader takes a clean frame,
LEMMA TakesFrame ==
  ASSUME NEW s \in Seq(Nat), BeginsClean(s)
  PROVE  /\ StatesIn[s] = <<TargetOf(s)>> \o StatesIn[From(s, FrameLen(s) + 1)]
         /\ <<TargetOf(s)>> \in Seq(Nat)
  <1>1. /\ FrameLen(s) \in Nat /\ FrameLen(s) >= 1 /\ FrameLen(s) <= Len(s) /\ FrameLen(s) <= BufSize
        /\ StartsWith(s, HEADER) /\ FrameEnds(s) /\ Len(s) > Len(HEADER)
    BY BeginsFacts
  <1>2. Passes(s) = FrameLen(s) /\ Finds(s) = <<TargetOf(s)>> /\ Fitting(FrameLen(s)) = FrameLen(s)
    BY <1>1 DEF Passes, Finds, Fitting
  <1>3. Gone(s) = FrameLen(s) /\ Given(s) = <<TargetOf(s)>>
    BY <1>1, <1>2 DEF Gone, Given
  <1>4. ~(Len(s) < Len(HEADER)) /\ Len(s) # Len(HEADER) /\ ~(Len(s) < FrameLen(s))
    <2>1. Len(s) \in Nat
      OBVIOUS
    <2> QED BY <1>1, <2>1, MarkerLens
  <1>5. ~Unfinished(s)
    BY <1>2, <1>4 DEF Unfinished
  <1>6. Given(s) \in Seq(Nat)
    BY <1>5, Finished
  <1> QED BY <1>3, <1>5, <1>6, StatesDefined

\* and passes over what begins no header.
LEMMA SkipsByte ==
  ASSUME NEW s \in Seq(Nat), Len(s) >= Len(HEADER), ~StartsWith(s, HEADER)
  PROVE  StatesIn[s] = StatesIn[From(s, 2)]
  <1>1. Passes(s) = 1 /\ Finds(s) = <<>>
    BY DEF Passes, Finds
  <1>2. 1 <= BufSize /\ ~(Len(s) < Len(HEADER)) /\ 2 \in 1..Len(s) + 1
    <2>1. Len(s) \in Nat
      OBVIOUS
    <2> QED BY <2>1, MarkerLens
  <1>3. ~Unfinished(s) /\ Gone(s) = 1 /\ Given(s) = <<>>
    BY <1>1, <1>2 DEF Unfinished, Gone, Given, Fitting
  <1>4. StatesIn[s] = <<>> \o StatesIn[From(s, 2)]
    <2>1. StatesIn[s] = Given(s) \o StatesIn[From(s, Gone(s) + 1)]
      BY <1>3, StatesDefined
    <2>2. Gone(s) + 1 = 2
      BY <1>3
    <2> QED BY <1>3, <2>1, <2>2
  <1>5. From(s, 2) \in Seq(Nat)
    BY <1>2, FromFacts
  <1>6. PICK x \in Seq(Nat) : x = StatesIn[From(s, 2)]
    BY <1>5, StatesDefined
  <1> QED BY <1>4, <1>6, JoinEmpty

\* Up to the next header it passes over everything.
LEMMA SkipsTo ==
  ASSUME NEW s0 \in Seq(Nat), NEW i0 \in 1..Len(s0), StartsWith(From(s0, i0), HEADER),
         \A k \in 1..i0 - 1 : ~StartsWith(From(s0, k), HEADER)
  PROVE  StatesIn[s0] = StatesIn[From(s0, i0)]
  <1> DEFINE Skips(s) ==
               \A i \in 1..Len(s) :
                 /\ StartsWith(From(s, i), HEADER)
                 /\ \A k \in 1..i - 1 : ~StartsWith(From(s, k), HEADER)
                 => StatesIn[s] = StatesIn[From(s, i)]
             S == {s \in Seq(Nat) : Skips(s)}
  <1>1. ASSUME NEW s \in Seq(Nat), \A t \in Seq(Nat) : Len(t) < Len(s) => t \in S PROVE s \in S
    <2> SUFFICES ASSUME NEW i \in 1..Len(s), StartsWith(From(s, i), HEADER),
                        \A k \in 1..i - 1 : ~StartsWith(From(s, k), HEADER)
                 PROVE  StatesIn[s] = StatesIn[From(s, i)]
      OBVIOUS
    <2>0. Len(s) \in Nat /\ i \in Nat /\ i <= Len(s) /\ i >= 1
      OBVIOUS
    <2>1. CASE i = 1
      BY <2>1, FromFirst
    <2>2. CASE i # 1
      <3>1. 1 \in 1..i - 1 /\ i \in 1..Len(s) + 1 /\ 2 \in 1..Len(s) + 1 /\ i - 1 >= 1
        BY <2>0, <2>2
      <3>2. ~StartsWith(s, HEADER)
        BY <3>1, FromFirst
      <3>3. Len(s) >= Len(HEADER)
        <4>1. Len(From(s, i)) = Len(s) + 1 - i
          BY <3>1, FromFacts
        <4>2. Len(HEADER) <= Len(s) + 1 - i
          BY <4>1 DEF StartsWith
        <4> QED BY <2>0, <4>2, MarkerLens
      <3>4. StatesIn[s] = StatesIn[From(s, 2)]
        BY <3>2, <3>3, SkipsByte
      <3>5. PICK t \in Seq(Nat) : t = From(s, 2) /\ Len(t) = Len(s) + 1 - 2
        BY <3>1, FromFacts
      <3>6. Len(t) < Len(s) /\ i - 1 \in 1..Len(t)
        BY SMTT(30), <2>0, <3>1, <3>5
      <3>7. \A k \in 1..i - 1 : From(t, k) = From(s, k + 1)
        <4> SUFFICES ASSUME NEW k \in 1..i - 1 PROVE From(t, k) = From(s, k + 1)
          OBVIOUS
        <4>1. k \in 1..Len(s) + 2 - 2 /\ 2 + k - 1 = k + 1
          BY <2>0, <3>1
        <4> QED BY SMTT(30), <3>1, <3>5, <4>1, FromFrom
      <3>8. From(t, i - 1) = From(s, i)
        <4>1. i - 1 \in 1..i - 1 /\ (i - 1) + 1 = i
          BY <2>0, <3>1
        <4> QED BY <3>7, <4>1
      <3>9. \A k \in 1..(i - 1) - 1 : ~StartsWith(From(t, k), HEADER)
        <4> SUFFICES ASSUME NEW k \in 1..(i - 1) - 1 PROVE ~StartsWith(From(t, k), HEADER)
          OBVIOUS
        <4>1. k \in 1..i - 1 /\ k + 1 \in 1..i - 1
          BY <2>0, <3>1
        <4> QED BY <3>7, <4>1
      <3>10. Skips(t)
        <4> HIDE DEF Skips
        <4> QED BY <1>1, <3>6
      <3>11. StatesIn[t] = StatesIn[From(t, i - 1)]
        BY <3>6, <3>8, <3>9, <3>10
      <3> QED BY <3>4, <3>5, <3>8, <3>11
    <2> QED BY <2>1, <2>2
  <1>2. Skips(s0)
    <2>1. \A s \in Seq(Nat) : s \in S
      <3> HIDE DEF S
      <3> QED BY <1>1, InductLen
    <2> HIDE DEF Skips
    <2> QED BY <2>1
  <1> QED BY <1>2

\* Where a clean frame that ends the line may begin in a run of them: not inside the first.
LEMMA NotInside ==
  ASSUME NEW s \in Seq(Nat), s # <<>>, CleanRun[s], NEW j \in 1..Len(s), CleanFrame(From(s, j))
  PROVE  /\ BeginsClean(s)
         /\ FrameLen(s) = Len(s) => j = 1
         /\ FrameLen(s) # Len(s) =>
              /\ j > FrameLen(s) /\ From(s, FrameLen(s) + 1) # <<>> /\ CleanRun[From(s, FrameLen(s) + 1)]
              /\ StartsWith(From(s, FrameLen(s) + 1), HEADER)
              /\ j - FrameLen(s) \in 1..Len(From(s, FrameLen(s) + 1))
              /\ From(From(s, FrameLen(s) + 1), j - FrameLen(s)) = From(s, j)
  <1>1. BeginsClean(s) /\ CleanRun[From(s, FrameLen(s) + 1)]
    BY CleanDefined
  <1> DEFINE n == FrameLen(s)
             t == From(s, n + 1)
  <1>2. /\ n \in Nat /\ n >= 1 /\ n <= Len(s)
        /\ t \in Seq(Nat) /\ Len(t) = Len(s) - n
        /\ \A i \in 2..n : ~StartsWith(From(s, i), HEADER)
    BY <1>1, BeginsFacts
  <1>3. Len(s) \in Nat /\ j \in Nat /\ j >= 1 /\ j <= Len(s)
    OBVIOUS
  <1>4. StartsWith(From(s, j), HEADER)
    BY DEF CleanFrame
  <1>5. j \notin 2..n
    BY <1>2, <1>4
  <1> HIDE DEF n
  <1>6. n = Len(s) => j = 1
    BY <1>2, <1>3, <1>5
  <1>7. ASSUME n # Len(s)
        PROVE  /\ j > n /\ t # <<>> /\ CleanRun[t] /\ StartsWith(t, HEADER)
               /\ j - n \in 1..Len(t) /\ From(t, j - n) = From(s, j)
    <2>1. n < Len(s) /\ n + 1 \in 1..Len(s) + 1 /\ Len(t) > 0
      BY <1>2, <1>3, <1>7
    <2>2. t # <<>>
      BY <2>1, EmptyStuck
    <2>3. CleanRun[t]
      BY <1>1 DEF n
    <2>4. StartsWith(t, HEADER)
      <3> HIDE DEF t
      <3>1. BeginsClean(t)
        BY <1>2, <2>2, <2>3, CleanDefined
      <3> QED BY <1>2, <3>1, BeginsFacts
    <2>5. j # 1
      <3> SUFFICES ASSUME j = 1 PROVE FALSE
        OBVIOUS
      <3>1. CleanFrame(s)
        BY FromFirst
      <3>2. \A i \in 2..Len(s) : ~StartsWith(From(s, i), HEADER)
        BY <3>1 DEF CleanFrame
      <3>3. n + 1 \in 2..Len(s)
        BY <1>2, <1>3, <2>1
      <3> QED BY <2>4, <3>2, <3>3
    <2>6. j > n
      BY <1>2, <1>3, <1>5, <2>5
    <2>7. j - n \in 1..Len(t) /\ j - n \in 1..Len(s) + 2 - (n + 1) /\ (n + 1) + (j - n) - 1 = j
      BY <1>2, <1>3, <2>1, <2>6
    <2>8. From(t, j - n) = From(s, j)
      BY <2>1, <2>7, FromFrom
    <2> QED BY <2>2, <2>3, <2>4, <2>6, <2>7, <2>8
  <1> QED BY <1>1, <1>6, <1>7 DEF n

\* From a run of clean frames on the last state found is that of the last of them.
LEMMA LastFrame ==
  ASSUME NEW s0 \in Seq(Nat), s0 # <<>>, CleanRun[s0], NEW j0 \in 1..Len(s0), CleanFrame(From(s0, j0))
  PROVE  LastIs(StatesIn[s0], TargetOf(From(s0, j0)))
  <1> DEFINE Ends(s) ==
               s # <<>> /\ CleanRun[s] =>
                 \A j \in 1..Len(s) : CleanFrame(From(s, j)) => LastIs(StatesIn[s], TargetOf(From(s, j)))
             S == {s \in Seq(Nat) : Ends(s)}
  <1>1. ASSUME NEW s \in Seq(Nat), \A t \in Seq(Nat) : Len(t) < Len(s) => t \in S PROVE s \in S
    <2> SUFFICES ASSUME s # <<>>, CleanRun[s], NEW j \in 1..Len(s), CleanFrame(From(s, j))
                 PROVE  LastIs(StatesIn[s], TargetOf(From(s, j)))
      OBVIOUS
    <2>1. BeginsClean(s)
      BY NotInside
    <2>2. /\ FrameLen(s) \in Nat /\ FrameLen(s) >= 1 /\ FrameLen(s) <= Len(s)
          /\ From(s, FrameLen(s) + 1) \in Seq(Nat) /\ Len(From(s, FrameLen(s) + 1)) = Len(s) - FrameLen(s)
      BY <2>1, BeginsFacts
    <2>3. PICK t \in Seq(Nat) : t = From(s, FrameLen(s) + 1) /\ Len(t) = Len(s) - FrameLen(s)
      BY <2>2
    <2>4. StatesIn[s] = <<TargetOf(s)>> \o StatesIn[t] /\ <<TargetOf(s)>> \in Seq(Nat) /\ StatesIn[t] \in Seq(Nat)
      BY <2>1, <2>3, TakesFrame, StatesDefined
    <2>5. CASE FrameLen(s) = Len(s)
      <3>1. j = 1 /\ From(s, j) = s
        BY <2>5, NotInside, FromFirst
      <3>2. t = <<>>
        <4>1. Len(t) = 0
          BY <2>2, <2>3, <2>5
        <4> QED BY <4>1
      <3>3. StatesIn[s] = <<TargetOf(s)>>
        BY <2>4, <3>2, EmptyStuck, JoinEmpty
      <3>4. LastIs(<<TargetOf(s)>>, TargetOf(s))
        BY DEF LastIs
      <3> QED BY <3>1, <3>3, <3>4
    <2>6. CASE FrameLen(s) # Len(s)
      <3>1. /\ t # <<>> /\ CleanRun[t] /\ j - FrameLen(s) \in 1..Len(t)
            /\ From(t, j - FrameLen(s)) = From(s, j)
        BY <2>3, <2>6, NotInside
      <3>2. Ends(t)
        <4>1. Len(t) < Len(s)
          <5>1. Len(s) \in Nat
            OBVIOUS
          <5> QED BY <2>2, <2>3, <5>1
        <4> HIDE DEF Ends
        <4> QED BY <1>1, <4>1
      <3>3. LastIs(StatesIn[t], TargetOf(From(s, j)))
        BY <3>1, <3>2
      <3> QED BY <2>4, <3>3, LastJoin
    <2> QED BY <2>5, <2>6
  <1>2. Ends(s0)
    <2>1. \A s \in Seq(Nat) : s \in S
      <3> HIDE DEF S
      <3> QED BY <1>1, InductLen
    <2> HIDE DEF Ends
    <2> QED BY <2>1
  <1> QED BY <1>2

\* The same from inside a run: the reader passes over what is left of the frame it is in.
LEMMA FromInside ==
  ASSUME NEW s0 \in Seq(Nat), s0 # <<>>, CleanRun[s0], NEW j0 \in 1..Len(s0), CleanFrame(From(s0, j0)),
         NEW p0 \in 1..j0
  PROVE  LastIs(StatesIn[From(s0, p0)], TargetOf(From(s0, j0)))
  <1> DEFINE Ends(s) ==
               s # <<>> /\ CleanRun[s] =>
                 \A j \in 1..Len(s) : \A p \in 1..j :
                   CleanFrame(From(s, j)) => LastIs(StatesIn[From(s, p)], TargetOf(From(s, j)))
             S == {s \in Seq(Nat) : Ends(s)}
  <1>1. ASSUME NEW s \in Seq(Nat), \A t \in Seq(Nat) : Len(t) < Len(s) => t \in S PROVE s \in S
    <2> SUFFICES ASSUME s # <<>>, CleanRun[s], NEW j \in 1..Len(s), NEW p \in 1..j, CleanFrame(From(s, j))
                 PROVE  LastIs(StatesIn[From(s, p)], TargetOf(From(s, j)))
      OBVIOUS
    <2>0. Len(s) \in Nat /\ j \in Nat /\ p \in Nat /\ 1 <= p /\ p <= j /\ j <= Len(s)
      OBVIOUS
    <2>1. CASE p = 1
      BY <2>1, LastFrame, FromFirst
    <2>2. CASE p # 1
      <3> DEFINE n == FrameLen(s)
                 t == From(s, n + 1)
      <3>1. /\ BeginsClean(s) /\ n # Len(s) /\ j > n /\ t # <<>> /\ CleanRun[t] /\ StartsWith(t, HEADER)
            /\ j - n \in 1..Len(t) /\ From(t, j - n) = From(s, j)
        <4>1. n = Len(s) => j = 1
          BY NotInside
        <4>2. n # Len(s)
          BY <2>0, <2>2, <4>1
        <4> QED BY <4>2, NotInside
      <3>2. /\ n \in Nat /\ n >= 1 /\ n <= Len(s) /\ t \in Seq(Nat) /\ Len(t) = Len(s) - n
            /\ \A i \in 2..n : ~StartsWith(From(s, i), HEADER)
        <4>1. BeginsClean(s)
          BY NotInside
        <4> QED BY <4>1, BeginsFacts
      <3> HIDE DEF n
      <3>3. n + 1 \in 1..Len(s) + 1 /\ j > n
        <4>1. n \in Nat /\ n <= Len(s)
          BY <3>2
        <4>2. j > n
          BY <3>1
        <4> QED BY <2>0, <4>1, <4>2
      <3>6. CleanFrame(From(t, j - n))
        BY <3>1
      <3>4. CASE p <= n
        <4>1. p \in 1..Len(s) + 1 /\ n + 2 - p \in 1..Len(s) + 2 - p /\ p + (n + 2 - p) - 1 = n + 1
          BY <2>0, <3>1, <3>2, <3>4
        <4>2. PICK u \in Seq(Nat) : u = From(s, p) /\ Len(u) = Len(s) + 1 - p
          BY <4>1, FromFacts
        <4>3. From(u, n + 2 - p) = t
          BY <4>1, <4>2, FromFrom
        <4>4. n + 2 - p \in 1..Len(u)
          BY <2>0, <3>1, <3>2, <3>4, <4>2
        <4>5. ASSUME NEW k \in 1..(n + 2 - p) - 1 PROVE ~StartsWith(From(u, k), HEADER)
          <5>1. k \in 1..Len(s) + 2 - p /\ p + k - 1 \in 2..n
            BY <2>0, <2>2, <3>2, <3>4
          <5>2. From(u, k) = From(s, p + k - 1)
            BY <4>1, <4>2, <5>1, FromFrom
          <5> QED BY <3>2, <5>1, <5>2
        <4> HIDE DEF t
        <4>6. StatesIn[u] = StatesIn[t]
          BY <3>1, <4>3, <4>4, <4>5, SkipsTo
        <4>7. LastIs(StatesIn[t], TargetOf(From(t, j - n)))
          BY <3>1, <3>2, <3>6, LastFrame
        <4> QED BY <3>1, <4>2, <4>6, <4>7
      <3>5. CASE ~(p <= n)
        <4>1. /\ p - n \in 1..j - n /\ p - n \in 1..Len(s) + 2 - (n + 1) /\ (n + 1) + (p - n) - 1 = p
              /\ Len(t) < Len(s)
          <5>1. Len(t) = Len(s) - n /\ n \in Nat /\ n >= 1
            BY <3>2
          <5> HIDE DEF t
          <5> QED BY <2>0, <3>3, <3>5, <5>1
        <4>2. From(t, p - n) = From(s, p)
          BY <3>3, <4>1, FromFrom
        <4> HIDE DEF t
        <4>3. Ends(t)
          <5> HIDE DEF Ends
          <5> QED BY <1>1, <3>2, <4>1
        <4>4. LastIs(StatesIn[From(t, p - n)], TargetOf(From(t, j - n)))
          BY <3>1, <3>6, <4>1, <4>3
        <4> QED BY <3>1, <4>2, <4>4
      <3> QED BY <3>4, <3>5
    <2> QED BY <2>1, <2>2
  <1>2. Ends(s0)
    <2>1. \A s \in Seq(Nat) : s \in S
      <3> HIDE DEF S
      <3> QED BY <1>1, InductLen
    <2> HIDE DEF Ends
    <2> QED BY <2>1
  <1> QED BY <1>2

\* With more than a buffer to go the reader goes on, and by no more than a buffer.
LEMMA GoesOn ==
  ASSUME NEW s \in Seq(Nat), Len(s) > BufSize
  PROVE  ~Unfinished(s)
  <1>1. Len(s) \in Nat /\ ~(Len(s) < Len(HEADER)) /\ Len(s) # Len(HEADER) /\ Len(s) > Len(HEADER)
    BY MarkerLens
  <1>2. FrameLen(s) \in Nat
    BY <1>1, FrameLenFacts
  <1>3. ~(Len(s) < Fitting(FrameLen(s)))
    BY <1>1, <1>2, MarkerLens DEF Fitting
  <1> QED BY <1>1, <1>3 DEF Unfinished

\* Where in what is left an element is, when g are gone, and where from an earlier one on.
LEMMA Ahead ==
  ASSUME NEW l \in Nat, NEW g \in Nat, NEW j \in Nat, g >= 1, g < j, j <= l
  PROVE  j - g \in 1..l - g /\ j - g \in 1..l + 2 - (g + 1) /\ (g + 1) + (j - g) - 1 = j /\ l - g < l
  OBVIOUS

LEMMA Inside ==
  ASSUME NEW l \in Nat, NEW g \in Nat, NEW i \in Nat, NEW j \in Nat, i >= 1, i <= g, g + 1 <= j, j <= l
  PROVE  /\ j - i + 1 \in 1..l + 1 - i /\ j - i + 1 \in 1..l + 2 - i /\ i + (j - i + 1) - 1 = j
         /\ g + 2 - i \in 1..j - i + 1 /\ g + 2 - i \in 1..l + 2 - i /\ i + (g + 2 - i) - 1 = g + 1
         /\ l + 1 - i > 0
  OBVIOUS

\* Whatever came before the run: once more than a buffer of it has come, the last state
\* found is that of the last frame.
LEMMA Resync ==
  ASSUME NEW s0 \in Seq(Nat), NEW i0 \in 1..Len(s0), NEW j0 \in 1..Len(s0),
         i0 + BufSize <= j0, CleanRun[From(s0, i0)], CleanFrame(From(s0, j0))
  PROVE  LastIs(StatesIn[s0], TargetOf(From(s0, j0)))
  <1> DEFINE Ends(s) ==
               \A i, j \in 1..Len(s) :
                 i + BufSize <= j /\ CleanRun[From(s, i)] /\ CleanFrame(From(s, j))
                   => LastIs(StatesIn[s], TargetOf(From(s, j)))
             S == {s \in Seq(Nat) : Ends(s)}
  <1>1. ASSUME NEW s \in Seq(Nat), \A t \in Seq(Nat) : Len(t) < Len(s) => t \in S PROVE s \in S
    <2> SUFFICES ASSUME NEW i \in 1..Len(s), NEW j \in 1..Len(s),
                        i + BufSize <= j, CleanRun[From(s, i)], CleanFrame(From(s, j))
                 PROVE  LastIs(StatesIn[s], TargetOf(From(s, j)))
      OBVIOUS
    <2>0. Len(s) \in Nat /\ i \in Nat /\ j \in Nat /\ 1 <= i /\ j <= Len(s) /\ BufSize \in Nat /\ Len(s) > BufSize
      <3>1. PICK l \in Nat : l = Len(s)
        OBVIOUS
      <3>2. i \in Nat /\ j \in Nat /\ 1 <= i /\ j <= l
        BY <3>1
      <3>3. l > BufSize /\ BufSize \in Nat
        BY <3>2, MarkerLens
      <3> QED BY <3>1, <3>2, <3>3
    <2> DEFINE g == Gone(s)
    <2>1. ~Unfinished(s)
      BY <2>0, GoesOn
    <2>2. g \in Nat /\ g >= 1 /\ g <= Len(s) /\ g <= BufSize /\ g + 1 \in 1..Len(s) + 1 /\ Given(s) \in Seq(Nat)
      BY <2>1, Finished
    <2>3. StatesIn[s] = Given(s) \o StatesIn[From(s, g + 1)]
      BY <2>1, StatesDefined
    <2> HIDE DEF g
    <2>4. PICK t \in Seq(Nat) : t = From(s, g + 1) /\ Len(t) = Len(s) - g
      <3>1. From(s, g + 1) \in Seq(Nat) /\ Len(From(s, g + 1)) = Len(s) + 1 - (g + 1)
        <4>1. g + 1 \in 1..Len(s) + 1
          BY <2>2
        <4> QED BY <4>1, FromFacts
      <3>2. Len(s) + 1 - (g + 1) = Len(s) - g
        <4>1. g \in Nat
          BY <2>2
        <4> QED BY <2>0, <4>1
      <3> QED BY <3>1, <3>2
    <2>9. g \in Nat /\ g >= 1 /\ g <= BufSize /\ g <= Len(s) /\ Len(t) = Len(s) - g
      BY <2>2, <2>4
    <2>10. i + BufSize <= j /\ Len(s) \in Nat /\ i \in Nat /\ j \in Nat /\ 1 <= i /\ j <= Len(s) /\ BufSize \in Nat
      BY <2>0
    <2>5. j - g \in 1..Len(t) /\ j - g \in 1..Len(s) + 2 - (g + 1) /\ (g + 1) + (j - g) - 1 = j /\ Len(t) < Len(s)
      <3>1. PICK l \in Nat : l = Len(s)
        BY <2>10
      <3>2. g <= l /\ Len(t) = l - g /\ i + BufSize <= j /\ j <= l /\ i >= 1 /\ g >= 1 /\ g <= BufSize
        BY <2>9, <2>10, <3>1
      <3>3. i \in Nat /\ j \in Nat /\ g \in Nat /\ BufSize \in Nat
        BY <2>9, <2>10
      <3>4. j > g
        BY <3>2, <3>3
      <3>5. j - g \in 1..l - g /\ j - g \in 1..l + 2 - (g + 1) /\ (g + 1) + (j - g) - 1 = j /\ l - g < l
        BY <3>1, <3>2, <3>3, <3>4, Ahead
      <3> QED BY <3>1, <3>2, <3>5
    <2>6. From(t, j - g) = From(s, j)
      BY <2>2, <2>4, <2>5, FromFrom
    <2>7. LastIs(StatesIn[t], TargetOf(From(s, j)))
      <3>1. CASE g + 1 <= i
        <4>1. /\ i - g \in 1..Len(t) /\ i - g \in 1..Len(s) + 2 - (g + 1) /\ (g + 1) + (i - g) - 1 = i
              /\ (i - g) + BufSize <= j - g
          BY <2>9, <2>10, <3>1
        <4>2. From(t, i - g) = From(s, i)
          BY <2>2, <2>4, <4>1, FromFrom
        <4>3. Ends(t)
          <5> HIDE DEF Ends
          <5> QED BY <1>1, <2>5
        <4>4. CleanRun[From(t, i - g)] /\ CleanFrame(From(t, j - g))
          BY <2>6, <4>2
        <4>5. LastIs(StatesIn[t], TargetOf(From(t, j - g)))
          BY <2>5, <4>1, <4>3, <4>4
        <4> QED BY <2>6, <4>5
      <3>2. CASE ~(g + 1 <= i)
        <4>1. i \in 1..Len(s) + 1
          BY <2>0
        <4>2. PICK r \in Seq(Nat) : r = From(s, i) /\ Len(r) = Len(s) + 1 - i
          BY <4>1, FromFacts
        <4>3. /\ j - i + 1 \in 1..Len(r) /\ j - i + 1 \in 1..Len(s) + 2 - i /\ i + (j - i + 1) - 1 = j
              /\ g + 2 - i \in 1..j - i + 1 /\ g + 2 - i \in 1..Len(s) + 2 - i /\ i + (g + 2 - i) - 1 = g + 1
              /\ Len(r) > 0
          <5>1. PICK l \in Nat : l = Len(s)
            BY <2>10
          <5>2. j <= l /\ i <= j /\ i >= 1 /\ g + 1 <= j /\ i <= g /\ Len(r) = l + 1 - i
            BY <2>9, <2>10, <3>2, <4>2, <5>1
          <5>3. i \in Nat /\ j \in Nat /\ g \in Nat
            BY <2>9, <2>10
          <5>4. /\ j - i + 1 \in 1..l + 1 - i /\ j - i + 1 \in 1..l + 2 - i /\ i + (j - i + 1) - 1 = j
                /\ g + 2 - i \in 1..j - i + 1 /\ g + 2 - i \in 1..l + 2 - i /\ i + (g + 2 - i) - 1 = g + 1
                /\ l + 1 - i > 0
            <6>1. l \in Nat /\ j <= l /\ i >= 1 /\ g + 1 <= j /\ i <= g
              BY <5>1, <5>2
            <6> QED BY <5>3, <6>1, Inside
          <5> QED BY <5>1, <5>2, <5>4
        <4>4. From(r, j - i + 1) = From(s, j)
          BY <4>1, <4>2, <4>3, FromFrom
        <4>5. From(r, g + 2 - i) = t
          BY <2>4, <4>1, <4>2, <4>3, FromFrom
        <4>6. r # <<>> /\ CleanRun[r] /\ CleanFrame(From(r, j - i + 1))
          BY <4>2, <4>3, <4>4, EmptyStuck
        <4>7. LastIs(StatesIn[From(r, g + 2 - i)], TargetOf(From(r, j - i + 1)))
          BY <4>3, <4>6, FromInside
        <4> QED BY <4>4, <4>5, <4>7
      <3> QED BY <3>1, <3>2
    <2>8. StatesIn[t] \in Seq(Nat)
      BY StatesDefined
    <2> QED BY <2>2, <2>3, <2>4, <2>7, <2>8, LastJoin
  <1>2. Ends(s0)
    <2>1. \A s \in Seq(Nat) : s \in S
      <3> HIDE DEF S
      <3> QED BY <1>1, InductLen
    <2> HIDE DEF Ends
    <2> QED BY <2>1
  <1> QED BY <1>2

LEMMA RadarInvResynchronises == RadarInv => Resynchronises
  <1> SUFFICES ASSUME RadarInv PROVE Resynchronises
    OBVIOUS
  <1>1. PICK seen \in Seq(Nat) : seen = SubSeq(line, 1, read)
    <2>1. line \in Seq(Nat) /\ read \in 0..Len(line)
      BY DEF RadarInv
    <2>2. 0 + 1 = 1 /\ SubSeq(line, 0 + 1, read) \in Seq(Nat)
      BY <2>1, CutFacts
    <2> QED BY <2>2
  <1>2. states = StatesIn[seen] /\ (uart.valid <=> states # <<>>) /\ (uart.valid => uart.target = states[Len(states)])
    BY <1>1, RadarInvSplitting DEF SplittingUnseen
  <1>3. ASSUME NEW i \in 1..Len(seen), NEW j \in 1..Len(seen),
               i + BufSize <= j, CleanRun[From(seen, i)], CleanFrame(From(seen, j))
        PROVE  uart.valid /\ uart.target = TargetOf(From(seen, j))
    <2>1. LastIs(StatesIn[seen], TargetOf(From(seen, j)))
      BY <1>3, Resync
    <2> QED BY <1>2, <2>1 DEF LastIs
  <1> QED BY <1>1, <1>3 DEF Resynchronises

\* Noise, a length that is a lie, a frame cut short: once more than a buffer of clean frames
\* has come, what the unit knows is the state in the last of them.
THEOREM Resyncs == RadarSpec => []Resynchronises
  BY InductiveRadar, RadarInvResynchronises, PTL
=============================================================================
