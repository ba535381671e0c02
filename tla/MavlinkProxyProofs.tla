----------------------------- MODULE MavlinkProxyProofs -----------------------------
(***************************************************************************)
(* Proofs about MavlinkProxy, for every set of frames, noise and writes,   *)
(* every way the serial line is cut into chunks, every limit of the        *)
(* garbage collection and any length of the line.                          *)
(*                                                                         *)
(* The parser is a loop over bytes.  What it returns is proved by          *)
(* induction from the end of the buffer: if the bytes from position i on   *)
(* are frames with noise between them, of which the buffer holds a part,   *)
(* then the loop delivers the first of these frames, all that are complete *)
(* in the buffer, and stops where the others may still be found.           *)
(***************************************************************************)
EXTENDS MavlinkProxy, WellFoundedInduction, TLAPS

Byte == 0 .. 255
Bytes == Seq(Byte)
StartBytes == {253, 254}

-----------------------------------------------------------------------------
(* Induction over an index, with a set for the predicate: the numbers that   *)
(* are not in the set would have a least one.                                *)
LEMMA SmallestNumber ==
    ASSUME NEW T \in SUBSET Nat, T # {}
    PROVE  \E x \in T : \A y \in T : x <= y
<1> DEFINE R == OpToRel(<, Nat)
<1>1. IsWellFoundedOn(R, Nat)
  BY NatLessThanWellFounded, Zenon
<1>2. \A x, y \in Nat : ~(<<y, x>> \in R) => x <= y
  BY DEF OpToRel
<1>. HIDE DEF R
<1>3. \E x \in T : \A y \in T : ~(<<y, x>> \in R)
  BY <1>1, WFMin, Zenon
<1>. QED  BY <1>2, <1>3, Zenon

(* What holds of 0 and of i + 1 whenever it holds of i holds up to n. *)
LEMMA UpTo ==
    ASSUME NEW n \in Nat, NEW T, 0 \in T, \A i \in 0 .. n - 1 : i \in T => i + 1 \in T
    PROVE  0 .. n \subseteq T
<1> DEFINE missing == (0 .. n) \ T
<1>. SUFFICES ASSUME missing # {} PROVE FALSE
  BY Zenon
<1>1. missing \in SUBSET Nat
  OBVIOUS
<1>2. PICK x \in missing : \A y \in missing : x <= y
  BY <1>1, SmallestNumber, Zenon
<1>3. x \in 1 .. n /\ x - 1 \in 0 .. n - 1
  BY <1>2
<1>4. x - 1 \in T
  BY <1>2, <1>3
<1>. QED  BY <1>2, <1>3, <1>4

(* What holds of every i up to n if it holds of the larger ones holds of 0. *)
LEMMA DownFrom ==
    ASSUME NEW n \in Nat, NEW T,
           \A i \in 0 .. n : (\A j \in i + 1 .. n : j \in T) => i \in T
    PROVE  0 .. n \subseteq T
<1> DEFINE missing == {d \in 0 .. n : n - d \notin T}
<1>. SUFFICES ASSUME NEW z \in 0 .. n, z \notin T PROVE FALSE
  BY Zenon
<1>1. missing \in SUBSET Nat
  OBVIOUS
<1>2. n - z \in missing
  <2>1. n - z \in 0 .. n /\ n - (n - z) = z
    OBVIOUS
  <2>. QED  BY <2>1, Zenon
<1>3. PICK x \in missing : \A y \in missing : x <= y
  BY <1>1, <1>2, SmallestNumber, Zenon
<1>4. x \in 0 .. n /\ n - x \in 0 .. n /\ n - x \notin T
  BY <1>3
<1>5. ASSUME NEW j \in n - x + 1 .. n PROVE j \in T
  <2>1. n - j \in 0 .. n /\ n - (n - j) = j /\ ~(x <= n - j)
    BY <1>4
  <2>2. n - j \notin missing
    BY <1>3, <2>1, Zenon
  <2>. QED  BY <2>1, <2>2, Zenon
<1>. QED  BY <1>4, <1>5, Zenon

(* f has the states of a loop over 1 .. n that begins with a. *)
IsLoop(f, a, n, F) == f = [i \in 0 .. n |-> IF i = 0 THEN a ELSE F[i][f[i - 1]]]

(* A loop over 1 .. n whose body keeps the state in a set has a result. *)
LEMMA LoopExists ==
    ASSUME NEW S, NEW a \in S, NEW n \in Nat, NEW F \in [1 .. n -> [S -> S]]
    PROVE  \E f \in [0 .. n -> S] : IsLoop(f, a, n, F)
<1> DEFINE Good(f, m) == /\ f \in [0 .. n -> S] /\ f[0] = a
                         /\ \A i \in 1 .. m : f[i] = F[i][f[i - 1]]
           T == {m \in 0 .. n : \E f : Good(f, m)}
<1>1. 0 \in T
  <2> DEFINE f == [i \in 0 .. n |-> a]
  <2>1. f \in [0 .. n -> S] /\ f[0] = a
    OBVIOUS
  <2>2. \A i \in 1 .. 0 : FALSE
    OBVIOUS
  <2>3. 0 \in 0 .. n
    OBVIOUS
  <2> HIDE DEF f
  <2>4. Good(f, 0)
    BY <2>1, <2>2, Zenon
  <2>. QED  BY <2>3, <2>4, Zenon
<1>2. ASSUME NEW m \in 0 .. n - 1, m \in T PROVE m + 1 \in T
  <2>1. PICK f : Good(f, m)
    BY <1>2, Zenon
  <2> DEFINE g == [f EXCEPT ![m + 1] = F[m + 1][f[m]]]
  <2>2. m + 1 \in 1 .. n /\ m \in 0 .. n /\ m + 1 \in 0 .. n /\ 0 # m + 1 /\ (m + 1) - 1 = m /\ m # m + 1
    OBVIOUS
  <2>3. F[m + 1][f[m]] \in S
    BY <2>1, <2>2, Zenon
  <2>4. /\ g \in [0 .. n -> S] /\ g[m + 1] = F[m + 1][f[m]]
        /\ \A i \in 0 .. n : i # m + 1 => g[i] = f[i]
    BY <2>1, <2>2, <2>3, Zenon
  <2> HIDE DEF g
  <2>5. g[0] = a
    <3>1. 0 \in 0 .. n
      OBVIOUS
    <3>. QED  BY <2>1, <2>2, <2>4, <3>1, Zenon
  <2>6. ASSUME NEW i \in 1 .. m + 1 PROVE g[i] = F[i][g[i - 1]]
    <3>1. CASE i = m + 1
      <4>1. g[m] = f[m]
        BY <2>2, <2>4, Zenon
      <4>. QED  BY <2>2, <2>4, <3>1, <4>1, Zenon
    <3>2. CASE i # m + 1
      <4>1. i \in 1 .. m /\ i \in 0 .. n /\ i - 1 \in 0 .. n /\ i - 1 # m + 1
        BY <3>2
      <4>2. g[i] = f[i] /\ g[i - 1] = f[i - 1] /\ f[i] = F[i][f[i - 1]]
        BY <2>1, <2>4, <3>2, <4>1, Zenon
      <4>. QED  BY <4>2, Zenon
    <3>. QED  BY <3>1, <3>2, Zenon
  <2>7. Good(g, m + 1)
    BY <2>4, <2>5, <2>6, Zenon
  <2>. QED  BY <2>2, <2>7, Zenon
<1>3. n \in T
  <2>1. 0 .. n \subseteq T
    <3> HIDE DEF T
    <3>. QED  BY <1>1, <1>2, UpTo, Zenon
  <2>2. n \in 0 .. n
    OBVIOUS
  <2>. QED  BY <2>1, <2>2, Zenon
<1>4. PICK f : Good(f, n)
  BY <1>3, Zenon
<1>5. \A i \in 0 .. n : i = 0 \/ i \in 1 .. n
  OBVIOUS
<1>6. \A i \in 0 .. n : f[i] = IF i = 0 THEN a ELSE F[i][f[i - 1]]
  <2>1. \A i \in 1 .. n : i # 0
    OBVIOUS
  <2>. QED  BY <1>4, <1>5, <2>1, Zenon
<1>7. f = [i \in 0 .. n |-> f[i]]
  BY <1>4, Zenon
<1>8. f = [i \in 0 .. n |-> IF i = 0 THEN a ELSE F[i][f[i - 1]]]
  BY <1>6, <1>7, Zenon
<1>. QED  BY <1>4, <1>8, Zenon DEF IsLoop

-----------------------------------------------------------------------------
(* One turn of the inner loop of mavlink_parser_gen after i bytes, where g   *)
(* has the results of the later turns.                                       *)
Turn(b, g, i) ==
    IF Len(b) - i < 8 THEN [skip |-> i, frames |-> << >>]
    ELSE IF b[i + 1] \notin {253, 254} THEN g[i + 1]
    ELSE IF Len(b) - i < FrameLength(b, i) THEN [skip |-> i, frames |-> << >>]
    ELSE LET rest == g[i + FrameLength(b, i)]
         IN  [rest EXCEPT !.frames = <<SubSeq(b, i + 1, i + FrameLength(b, i))>> \o @]

IsScan(g, b) == g = [i \in 0 .. Len(b) |-> Turn(b, g, i)]

(* A frame has at least 8 bytes, as far as its header says. *)
LEMMA HeaderLength ==
    ASSUME NEW b \in Bytes, NEW i \in 0 .. Len(b), ~(Len(b) - i < 8)
    PROVE  FrameLength(b, i) \in Nat /\ FrameLength(b, i) >= 8
<1>1. Len(b) \in Nat /\ \A k \in 1 .. Len(b) : b[k] \in Byte
  BY DEF Bytes
<1>2. i + 1 \in 1 .. Len(b) /\ i + 2 \in 1 .. Len(b)
  BY <1>1
<1>3. b[i + 2] \in Byte
  BY <1>1, <1>2, Zenon
<1>4. b[i + 2] \in Nat
  <2>1. \A x \in Byte : x \in Nat
    BY DEF Byte
  <2>. QED  BY <1>3, <2>1, Zenon
<1>5. \/ FrameLength(b, i) = 8 + b[i + 2]
      \/ FrameLength(b, i) = b[i + 2] + 25
      \/ FrameLength(b, i) = b[i + 2] + 12
  BY Zenon DEF FrameLength
<1>. QED  BY <1>4, <1>5, SMTT(60)

(* The four ways a turn ends. *)
LEMMA TurnCases ==
    ASSUME NEW b \in Bytes, NEW i \in 0 .. Len(b), NEW g
    PROVE  LET done == [skip |-> i, frames |-> << >>]
               z == FrameLength(b, i)
           IN  \/ Len(b) - i < 8 /\ Turn(b, g, i) = done
               \/ /\ ~(Len(b) - i < 8) /\ b[i + 1] \notin StartBytes
                  /\ i + 1 \in i + 1 .. Len(b) /\ Turn(b, g, i) = g[i + 1]
               \/ /\ ~(Len(b) - i < 8) /\ b[i + 1] \in StartBytes
                  /\ Len(b) - i < z /\ Turn(b, g, i) = done
               \/ /\ ~(Len(b) - i < 8) /\ b[i + 1] \in StartBytes
                  /\ z \in Nat /\ z >= 8 /\ i + z \in i + 1 .. Len(b)
                  /\ Turn(b, g, i) = [g[i + z] EXCEPT !.frames = <<SubSeq(b, i + 1, i + z)>> \o @]
<1> DEFINE z == FrameLength(b, i)
<1>1. Len(b) \in Nat
  BY DEF Bytes
<1>2. CASE Len(b) - i < 8
  BY <1>2, Zenon DEF Turn
<1>3. CASE ~(Len(b) - i < 8) /\ b[i + 1] \notin {253, 254}
  <2>1. i + 1 \in i + 1 .. Len(b)
    BY <1>1, <1>3
  <2>. QED  BY <1>3, <2>1, Zenon DEF Turn, StartBytes
<1>4. CASE ~(Len(b) - i < 8) /\ b[i + 1] \in {253, 254} /\ Len(b) - i < z
  BY <1>4, ZenonT(60) DEF Turn, StartBytes
<1>5. CASE ~(Len(b) - i < 8) /\ b[i + 1] \in {253, 254} /\ ~(Len(b) - i < z)
  <2>1. z \in Nat /\ z >= 8
    BY <1>5, HeaderLength, Zenon
  <2>2. i + z \in i + 1 .. Len(b)
    <3> HIDE DEF z
    <3>. QED  BY <1>1, <1>5, <2>1
  <2>. QED  BY <1>5, <2>1, <2>2, Zenon DEF Turn, StartBytes
<1>. QED  BY <1>2, <1>3, <1>4, <1>5, Zenon

(* A turn uses later turns only. *)
LEMMA TurnAhead ==
    ASSUME NEW b \in Bytes, NEW i \in 0 .. Len(b), NEW g, NEW h,
           \A x \in i + 1 .. Len(b) : g[x] = h[x]
    PROVE  Turn(b, g, i) = Turn(b, h, i)
<1> DEFINE z == FrameLength(b, i)
<1>1. Len(b) - i < 8 \/ ~(Len(b) - i < 8)
  OBVIOUS
<1>2. CASE Len(b) - i < 8
  BY <1>2, Zenon DEF Turn
<1>3. CASE ~(Len(b) - i < 8)
  <2>0. Len(b) \in Nat
    BY DEF Bytes
  <2>1. z \in Nat /\ z >= 8
    BY <1>3, HeaderLength, Zenon
  <2>2. /\ i + 1 \in i + 1 .. Len(b)
        /\ ~(Len(b) - i < z) => i + z \in i + 1 .. Len(b)
    <3> HIDE DEF z
    <3>. QED  BY <1>3, <2>0, <2>1
  <2>3. g[i + 1] = h[i + 1] /\ (~(Len(b) - i < z) => g[i + z] = h[i + z])
    BY <2>2, Zenon
  <2>. QED  BY <1>3, <2>3, ZenonT(60) DEF Turn
<1>. QED  BY <1>2, <1>3, Zenon

(* The loop is well defined: its turns can be computed from the last one. *)
LEMMA ScanExists ==
    ASSUME NEW b \in Bytes
    PROVE  \E g : IsScan(g, b)
<1> DEFINE L == Len(b)
           From(g, i) == /\ g = [x \in 0 .. L |-> g[x]]
                         /\ \A x \in i .. L : g[x] = Turn(b, g, x)
           T == {i \in 0 .. L : \E g : From(g, i)}
<1>0. L \in Nat
  BY DEF Bytes
<1>1. ASSUME NEW i \in 0 .. L, \A j \in i + 1 .. L : j \in T PROVE i \in T
  <2>1. \E g : g = [x \in 0 .. L |-> g[x]] /\ \A x \in i + 1 .. L : g[x] = Turn(b, g, x)
    <3>1. CASE i = L
      <4> DEFINE g == [x \in 0 .. L |-> << >>]
      <4>1. g = [x \in 0 .. L |-> g[x]]
        BY Zenon
      <4>2. \A x \in i + 1 .. L : FALSE
        BY <1>0, <3>1
      <4>. QED  BY <4>1, <4>2, Zenon
    <3>2. CASE i # L
      <4>1. i + 1 \in i + 1 .. L
        BY <1>0, <3>2
      <4>2. i + 1 \in T
        BY <1>1, <4>1, Zenon
      <4>. QED  BY <4>2, Zenon
    <3>. QED  BY <3>1, <3>2, Zenon
  <2>2. PICK g : g = [x \in 0 .. L |-> g[x]] /\ \A x \in i + 1 .. L : g[x] = Turn(b, g, x)
    BY <2>1, Zenon
  <2> DEFINE h == [x \in 0 .. L |-> IF x = i THEN Turn(b, g, i) ELSE g[x]]
  <2>3. /\ h = [x \in 0 .. L |-> h[x]]
        /\ h[i] = Turn(b, g, i)
        /\ \A x \in 0 .. L : x # i => h[x] = g[x]
    BY Zenon
  <2> HIDE DEF h
  <2>4. ASSUME NEW x \in i .. L PROVE h[x] = Turn(b, h, x)
    <3>1. x \in 0 .. L /\ \A y \in x + 1 .. L : y \in 0 .. L /\ y # i
      BY <1>0
    <3>2. \A y \in x + 1 .. L : g[y] = h[y]
      BY <2>3, <3>1, Zenon
    <3>3. Turn(b, g, x) = Turn(b, h, x)
      BY <3>1, <3>2, TurnAhead, Zenon
    <3>4. x = i \/ (x \in i + 1 .. L /\ x # i)
      BY <1>0
    <3>. QED  BY <2>2, <2>3, <3>1, <3>3, <3>4, Zenon
  <2>5. From(h, i)
    BY <2>3, <2>4, Zenon
  <2>. QED  BY <2>5, Zenon
<1>2. 0 \in T
  <2> HIDE DEF T, L
  <2>1. 0 .. L \subseteq T
    BY <1>0, <1>1, DownFrom, Zenon
  <2>. QED  BY <1>0, <2>1
<1>3. PICK g : From(g, 0)
  BY <1>2, Zenon
<1>4. IsScan(g, b)
  BY <1>3, Zenon DEF IsScan
<1>. QED  BY <1>4, Zenon

(* What Scan returns is what its loop finds from the given position on. *)
LEMMA ScanLoop ==
    ASSUME NEW b \in Bytes
    PROVE  \E g : IsScan(g, b) /\ \A skip : Scan(b, skip) = g[skip]
<1> DEFINE g == CHOOSE h : IsScan(h, b)
<1>1. \A skip : Scan(b, skip) = g[skip]
  BY Zenon DEF Scan, IsScan, Turn
<1>2. IsScan(g, b)
  BY ScanExists, Zenon
<1>. QED  BY <1>1, <1>2, Zenon

-----------------------------------------------------------------------------
(* Sequences, item by item *)
LEMMA Item == ASSUME NEW S, NEW s \in Seq(S) PROVE Len(s) \in Nat /\ \A k \in 1 .. Len(s) : s[k] \in S
  OBVIOUS

(* One sequence after another *)
LEMMA Joined ==
    ASSUME NEW S, NEW s \in Seq(S), NEW t \in Seq(S)
    PROVE  /\ s \o t \in Seq(S) /\ Len(s \o t) = Len(s) + Len(t)
           /\ \A k \in 1 .. Len(s) : (s \o t)[k] = s[k]
           /\ \A k \in 1 .. Len(t) : (s \o t)[Len(s) + k] = t[k]
  OBVIOUS

(* One item before a sequence *)
LEMMA Prepended ==
    ASSUME NEW S, NEW x \in S, NEW s \in Seq(S)
    PROVE  /\ <<x>> \o s \in Seq(S) /\ Len(<<x>> \o s) = 1 + Len(s) /\ (<<x>> \o s)[1] = x
           /\ \A k \in 1 .. Len(s) : (<<x>> \o s)[1 + k] = s[k]
  OBVIOUS

(* A part of a sequence *)
LEMMA Part ==
    ASSUME NEW S, NEW s \in Seq(S), NEW m \in Nat, NEW n \in Nat, m <= n, n <= Len(s)
    PROVE  /\ SubSeq(s, m + 1, n) \in Seq(S) /\ Len(SubSeq(s, m + 1, n)) = n - m
           /\ \A k \in 1 .. n - m : SubSeq(s, m + 1, n)[k] = s[m + k]
  OBVIOUS

(* So many items after position i *)
LEMMA Slice ==
    ASSUME NEW S, NEW s \in Seq(S), NEW i \in Nat, NEW z \in Nat, i + z <= Len(s)
    PROVE  /\ SubSeq(s, i + 1, i + z) \in Seq(S) /\ Len(SubSeq(s, i + 1, i + z)) = z
           /\ \A k \in 1 .. z : SubSeq(s, i + 1, i + z)[k] = s[i + k]
  OBVIOUS

(* Sequences with the same items are the same. *)
LEMMA SameItems ==
    ASSUME NEW S, NEW s \in Seq(S), NEW t \in Seq(S), Len(s) = Len(t), \A k \in 1 .. Len(s) : s[k] = t[k]
    PROVE  s = t
  BY SMTT(60)

(* What a scan returns: a position and the frames found *)
Found == [skip : Nat, frames : Seq(Bytes)]

(* A scan stops at a position in the buffer, not before the one it began at. *)
LEMMA ScanTyped ==
    ASSUME NEW b \in Bytes, NEW g, IsScan(g, b)
    PROVE  \A i \in 0 .. Len(b) : g[i] \in Found /\ g[i].skip \in i .. Len(b)
<1> DEFINE L == Len(b)
           Good(i) == g[i] \in Found /\ g[i].skip \in i .. L
           T == {i \in 0 .. L : Good(i)}
<1>0. L \in Nat
  BY Item DEF Bytes
<1>1. ASSUME NEW i \in 0 .. L, \A j \in i + 1 .. L : j \in T PROVE Good(i)
  <2> DEFINE z == FrameLength(b, i)
             done == [skip |-> i, frames |-> << >>]
             s == SubSeq(b, i + 1, i + z)
  <2>0. g[i] = Turn(b, g, i)
    BY Zenon DEF IsScan
  <2>1. \A j \in i + 1 .. L : Good(j)
    BY <1>1, Zenon
  <2>2. done \in Found /\ done.skip \in i .. L
    BY <1>0 DEF Found
  <2> HIDE DEF z, done, Good
  <2>3. CASE g[i] = done
    BY <2>2, <2>3, Zenon DEF Good
  <2>4. CASE i + 1 \in i + 1 .. L /\ g[i] = g[i + 1]
    <3>1. \A x \in i + 1 .. L : x \in i .. L
      BY <1>0
    <3>2. Good(i + 1)
      BY <2>1, <2>4, Zenon
    <3>3. i + 1 .. L \subseteq i .. L
      BY <3>1, Zenon
    <3>4. g[i + 1] \in Found /\ g[i + 1].skip \in i .. L
      BY <3>2, <3>3, Zenon DEF Good
    <3>. QED  BY <2>4, <3>4, Zenon DEF Good
  <2>5. CASE /\ z \in Nat /\ i + z \in i + 1 .. L
             /\ g[i] = [g[i + z] EXCEPT !.frames = <<s>> \o @]
    <3> DEFINE r == g[i + z]
    <3>1. r \in Found /\ r.skip \in i + z .. L
      BY <2>1, <2>5, Zenon DEF Good
    <3>2. s \in Bytes
      <4>1. i \in Nat /\ i + z \in Nat /\ i <= i + z /\ i + z <= Len(b)
        BY <1>0, <2>5
      <4>. QED  BY <4>1, Part, Zenon DEF Bytes
    <3> HIDE DEF r, s
    <3>3. <<s>> \o r.frames \in Seq(Bytes)
      BY <3>1, <3>2 DEF Found
    <3>4. g[i] \in Found /\ g[i].skip = r.skip
      BY <2>5, <3>1, <3>3, ZenonT(60) DEF Found, r
    <3>5. r.skip \in i .. L
      BY <1>0, <2>5, <3>1
    <3>. QED  BY <3>4, <3>5, Zenon DEF Good
  <2>. QED  BY <2>0, <2>3, <2>4, <2>5, TurnCases, Zenon DEF z, done, s
<1>2. 0 .. L \subseteq T
  <2>1. \A i \in 0 .. L : (\A j \in i + 1 .. L : j \in T) => i \in T
    BY <1>1, Zenon
  <2> HIDE DEF T, L
  <2>. QED  BY <1>0, <2>1, DownFrom, Zenon
<1>. QED  BY <1>2, Zenon

-----------------------------------------------------------------------------
(* Frame m + 1 and the later ones of e are found in the bytes w after the    *)
(* positions q, in this order and not before position i; a start byte after  *)
(* i belongs to one of them.                                                 *)
Holds(w, q, e, i, m) ==
    /\ \A k \in m + 1 .. Len(e) :
          /\ q[k] \in Nat /\ i <= q[k] /\ q[k] + Len(e[k]) <= Len(w)
          /\ \A x \in 1 .. Len(e[k]) : w[q[k] + x] = e[k][x]
    /\ \A j, k \in m + 1 .. Len(e) : j < k => q[j] + Len(e[j]) <= q[k]
    /\ \A x \in i + 1 .. Len(w) :
          w[x] \in StartBytes => \E k \in m + 1 .. Len(e) : q[k] < x /\ x <= q[k] + Len(e[k])

(* The frames f of a scan that stopped at position i are frames m + 1 to n   *)
(* of e, the others follow, and none is left when nothing follows the        *)
(* buffer.                                                                   *)
Delivers(f, i, w, q, e, m, n, all) ==
    /\ Len(f) = n - m /\ \A k \in 1 .. n - m : f[k] = e[m + k]
    /\ Holds(w, q, e, i, n)
    /\ all => n = Len(e)

(* The frames of the autopilot *)
LEMMA FrameFacts ==
    ASSUME NEW f \in Frames
    PROVE  /\ f \in Bytes /\ Len(f) \in Nat /\ Len(f) >= 8 /\ f[1] \in StartBytes
           /\ FrameLength(f, 0) = Len(f) /\ Len(f) <= AGG_MAX_SIZE
<1>1. /\ f \in Bytes /\ Len(f) >= 8 /\ f[1] \in StartBytes
      /\ FrameLength(f, 0) = Len(f) /\ Len(f) <= AGG_MAX_SIZE
  BY MavlinkAssumption DEF Bytes, Byte, StartBytes
<1>. QED  BY <1>1, Item DEF Bytes

(* The header of a frame says the same wherever the frame is. *)
LEMMA SameHeader ==
    ASSUME NEW f, NEW b, NEW i, b[i + 1] = f[1], b[i + 2] = f[2], b[i + 3] = f[3]
    PROVE  FrameLength(b, i) = FrameLength(f, 0)
<1>1. 0 + 1 = 1 /\ 0 + 2 = 2 /\ 0 + 3 = 3
  OBVIOUS
<1>. QED  BY <1>1 DEF FrameLength

(* A start byte at position i is the start of the next frame. *)
LEMMA FrameHere ==
    ASSUME NEW w \in Bytes, NEW e \in Seq(Frames), NEW q, NEW i \in Nat, NEW m \in 0 .. Len(e),
           Holds(w, q, e, i, m), i + 1 <= Len(w), w[i + 1] \in StartBytes
    PROVE  m + 1 \in m + 1 .. Len(e) /\ q[m + 1] = i
<1> DEFINE K == m + 1 .. Len(e)
<1>0. Len(e) \in Nat /\ Len(w) \in Nat /\ i + 1 \in i + 1 .. Len(w) /\ \A k \in K : k \in 1 .. Len(e)
  BY Item DEF Bytes
<1>1. PICK k \in K : q[k] < i + 1 /\ i + 1 <= q[k] + Len(e[k])
  BY <1>0, Zenon DEF Holds
<1>2. \A j \in K : q[j] \in Nat /\ i <= q[j]
  BY Zenon DEF Holds
<1>3. \A j \in K : Len(e[j]) \in Nat /\ Len(e[j]) >= 8
  BY <1>0, Item, FrameFacts, Zenon
<1>4. q[k] = i
  <2>1. \A x \in Nat : x < i + 1 /\ i <= x => x = i
    OBVIOUS
  <2>. QED  BY <1>1, <1>2, <2>1, Zenon
<1>5. m + 1 \in K
  BY <1>0, <1>1
<1>6. k = m + 1
  <2>1. CASE m + 1 < k
    <3>1. q[m + 1] + Len(e[m + 1]) <= i
      BY <1>1, <1>4, <1>5, <2>1, Zenon DEF Holds
    <3>2. \A x, y \in Nat : i <= x /\ y >= 8 => ~(x + y <= i)
      OBVIOUS
    <3>. QED  BY <1>2, <1>3, <1>5, <3>1, <3>2, Zenon
  <2>2. k = m + 1 \/ m + 1 < k
    BY <1>0, <1>1
  <2>. QED  BY <2>1, <2>2, Zenon
<1>. QED  BY <1>4, <1>5, <1>6, Zenon

(* A byte that is no start byte can be skipped. *)
LEMMA SkipByte ==
    ASSUME NEW w \in Bytes, NEW e \in Seq(Frames), NEW q, NEW i \in Nat, NEW m \in 0 .. Len(e),
           Holds(w, q, e, i, m), i + 1 <= Len(w), w[i + 1] \notin StartBytes
    PROVE  Holds(w, q, e, i + 1, m)
<1> DEFINE K == m + 1 .. Len(e)
<1>0. Len(e) \in Nat /\ Len(w) \in Nat /\ \A k \in K : k \in 1 .. Len(e)
  BY Item DEF Bytes
<1>1. ASSUME NEW k \in K PROVE i + 1 <= q[k]
  <2>1. q[k] \in Nat /\ i <= q[k] /\ \A x \in 1 .. Len(e[k]) : w[q[k] + x] = e[k][x]
    BY Zenon DEF Holds
  <2>2. e[k][1] \in StartBytes /\ 1 \in 1 .. Len(e[k])
    <3>1. e[k][1] \in StartBytes /\ Len(e[k]) \in Nat /\ Len(e[k]) >= 8
      BY <1>0, Item, FrameFacts, Zenon
    <3>. QED  BY <3>1
  <2>3. q[k] # i
    BY <2>1, <2>2, Zenon
  <2>. QED  BY <2>1, <2>3
<1>2. \A x \in i + 1 + 1 .. Len(w) : x \in i + 1 .. Len(w)
  BY <1>0
<1>. QED  BY <1>1, <1>2, Zenon DEF Holds

(* The next frame can be skipped as a whole. *)
LEMMA SkipFrame ==
    ASSUME NEW w \in Bytes, NEW e \in Seq(Frames), NEW q, NEW i \in Nat, NEW m \in 0 .. Len(e),
           Holds(w, q, e, i, m), m + 1 \in m + 1 .. Len(e), q[m + 1] = i
    PROVE  Holds(w, q, e, i + Len(e[m + 1]), m + 1)
<1> DEFINE K == m + 1 .. Len(e)
           z == Len(e[m + 1])
<1>0. Len(e) \in Nat /\ Len(w) \in Nat /\ \A k \in K : k \in 1 .. Len(e)
  BY Item DEF Bytes
<1>1. z \in Nat /\ z >= 8
  BY <1>0, Item, FrameFacts, Zenon
<1>2. \A k \in m + 1 + 1 .. Len(e) : k \in K /\ m + 1 < k
  BY <1>0
<1> HIDE DEF z
<1>3. ASSUME NEW k \in m + 1 + 1 .. Len(e) PROVE i + z <= q[k]
  BY <1>2, Zenon DEF Holds, z
<1>4. ASSUME NEW x \in i + z + 1 .. Len(w), w[x] \in StartBytes
      PROVE  \E k \in m + 1 + 1 .. Len(e) : q[k] < x /\ x <= q[k] + Len(e[k])
  <2>1. x \in i + 1 .. Len(w) /\ ~(x <= i + z)
    BY <1>0, <1>1
  <2>2. PICK k \in K : q[k] < x /\ x <= q[k] + Len(e[k])
    BY <1>4, <2>1, Zenon DEF Holds
  <2>3. k # m + 1
    BY <2>1, <2>2, Zenon DEF z
  <2>4. k \in m + 1 + 1 .. Len(e)
    BY <1>0, <2>3
  <2>. QED  BY <2>2, <2>4, Zenon
<1>. QED  BY <1>2, <1>3, <1>4, Zenon DEF Holds, z

(* Where the buffer b ends before the next frame does, nothing is delivered; *)
(* this happens only when more bytes follow.                                 *)
LEMMA NothingYet ==
    ASSUME NEW w \in Bytes, NEW e \in Seq(Frames), NEW q, NEW i \in Nat, NEW m \in 0 .. Len(e),
           Holds(w, q, e, i, m), NEW l \in Nat,
           m + 1 \in m + 1 .. Len(e) => l < q[m + 1] + Len(e[m + 1])
    PROVE  \E n \in m .. Len(e) : Delivers(<< >>, i, w, q, e, m, n, l = Len(w))
<1>0. Len(e) \in Nat /\ Len(w) \in Nat
  BY Item DEF Bytes
<1>1. m \in m .. Len(e) /\ Len(<< >>) = m - m /\ \A k \in 1 .. m - m : FALSE
  BY <1>0
<1>2. m # Len(e) => m + 1 \in m + 1 .. Len(e)
  BY <1>0
<1>3. ASSUME l = Len(w), m + 1 \in m + 1 .. Len(e) PROVE FALSE
  <2>1. q[m + 1] + Len(e[m + 1]) <= l
    BY <1>3, Zenon DEF Holds
  <2>2. \A x : l < x /\ x <= l => x \notin Nat
    OBVIOUS
  <2>3. q[m + 1] + Len(e[m + 1]) \in Nat
    <3>1. m + 1 \in 1 .. Len(e)
      BY <1>0, <1>3
    <3>2. q[m + 1] \in Nat /\ Len(e[m + 1]) \in Nat
      BY <1>3, <3>1, Item, FrameFacts, Zenon DEF Holds
    <3>. QED  BY <3>2, SMTT(60)
  <2>. QED  BY <1>3, <2>1, <2>2, <2>3, Zenon
<1>. QED  BY <1>1, <1>2, <1>3, Zenon DEF Delivers

(* The buffer b is the first part of the bytes w. *)
Begins(b, w) == Len(b) <= Len(w) /\ \A x \in 1 .. Len(b) : b[x] = w[x]

(* The frame found where a frame of e is complete in the buffer is that      *)
(* frame.                                                                    *)
LEMMA FrameFound ==
    ASSUME NEW b \in Bytes, NEW w \in Bytes, Begins(b, w),
           NEW e \in Seq(Frames), NEW q, NEW i \in 0 .. Len(b), NEW m \in 0 .. Len(e),
           Holds(w, q, e, i, m), ~(Len(b) - i < 8), b[i + 1] \in StartBytes
    PROVE  /\ m + 1 \in m + 1 .. Len(e) /\ q[m + 1] = i
           /\ FrameLength(b, i) = Len(e[m + 1])
           /\ i + FrameLength(b, i) <= Len(b) => SubSeq(b, i + 1, i + FrameLength(b, i)) = e[m + 1]
<1> DEFINE f == e[m + 1]
           z == Len(f)
<1>0. /\ Len(e) \in Nat /\ Len(w) \in Nat /\ Len(b) \in Nat /\ i \in Nat
      /\ i + 1 <= Len(w) /\ \A x \in 1 .. 8 : i + x \in 1 .. Len(b)
  <2>1. Len(e) \in Nat /\ Len(w) \in Nat /\ Len(b) \in Nat
    BY Item, Zenon DEF Bytes
  <2>2. Len(b) <= Len(w)
    BY Zenon DEF Begins
  <2>. QED  BY <2>1, <2>2, SMTT(60)
<1>1. w[i + 1] \in StartBytes
  <2>1. 1 \in 1 .. 8
    OBVIOUS
  <2>. QED  BY <1>0, <2>1, Zenon DEF Begins
<1>2. m + 1 \in m + 1 .. Len(e) /\ q[m + 1] = i
  <2>1. i \in Nat /\ i + 1 <= Len(w)
    BY <1>0, Zenon
  <2>. QED  BY <1>1, <2>1, FrameHere, SMTT(60)
<1>3. f \in Bytes /\ z \in Nat /\ z >= 8 /\ FrameLength(f, 0) = z
  <2>1. m + 1 \in 1 .. Len(e)
    BY <1>0, <1>2
  <2>. QED  BY <2>1, Item, FrameFacts, Zenon
<1>4. \A x \in 1 .. z : w[i + x] = f[x]
  BY <1>2, Zenon DEF Holds
<1> HIDE DEF f, z
<1>5. \A x \in 1 .. z : i + x <= Len(b) => b[i + x] = f[x]
  <2>1. \A x \in 1 .. z : i + x <= Len(b) => i + x \in 1 .. Len(b)
    BY <1>0, <1>3
  <2>. QED  BY <1>4, <2>1, Zenon DEF Begins
<1>6. FrameLength(b, i) = z
  <2>1. \A x \in {1, 2, 3} : x \in 1 .. z /\ i + x <= Len(b)
    BY <1>0, <1>3, SMTT(60)
  <2>2. b[i + 1] = f[1] /\ b[i + 2] = f[2] /\ b[i + 3] = f[3]
    BY <1>5, <2>1, Zenon
  <2>. QED  BY <1>3, <2>2, SameHeader, Zenon
<1>7. ASSUME i + z <= Len(b) PROVE SubSeq(b, i + 1, i + z) = f
  <2> DEFINE s == SubSeq(b, i + 1, i + z)
  <2>1. i + z \in Nat /\ i <= i + z /\ (i + z) - i = z
    BY <1>0, <1>3
  <2>2. s \in Seq(Byte) /\ Len(s) = z /\ \A k \in 1 .. z : s[k] = b[i + k]
    <3>1. i \in Nat /\ b \in Seq(Byte) /\ z \in Nat
      BY <1>0, <1>3, Zenon DEF Bytes
    <3>. QED  BY <1>7, <3>1, Slice
  <2>3. \A k \in 1 .. z : i + k <= Len(b)
    BY <1>0, <1>3, <1>7
  <2> HIDE DEF s
  <2>4. \A k \in 1 .. Len(s) : s[k] = f[k]
    BY <1>5, <2>2, <2>3, Zenon
  <2>5. f \in Seq(Byte) /\ Len(s) = Len(f)
    BY <1>3, <2>2, Zenon DEF Bytes, z
  <2>6. s = f
    BY <2>2, <2>4, <2>5, SameItems, Zenon
  <2>. QED  BY <2>6, Zenon DEF s
<1>. QED  BY <1>2, <1>6, <1>7, Zenon DEF f, z

(* mavlink_parser_gen on a stream of frames: if the buffer b is the first    *)
(* part of the bytes w, and w holds frames of e after position i, the scan   *)
(* from i delivers the next of these frames, and the rest of them is still   *)
(* after the position where it stops.                                        *)
LEMMA ScanStream ==
    ASSUME NEW b \in Bytes, NEW w \in Bytes, Begins(b, w),
           NEW e \in Seq(Frames), NEW q, NEW g, IsScan(g, b)
    PROVE  \A i \in 0 .. Len(b) : \A m \in 0 .. Len(e) :
              Holds(w, q, e, i, m) =>
              \E n \in m .. Len(e) : Delivers(g[i].frames, g[i].skip, w, q, e, m, n, Len(b) = Len(w))
<1> DEFINE L == Len(b)
           Out(i, m) == \E n \in m .. Len(e) : Delivers(g[i].frames, g[i].skip, w, q, e, m, n, L = Len(w))
           Claim(i) == \A m \in 0 .. Len(e) : Holds(w, q, e, i, m) => Out(i, m)
           T == {i \in 0 .. L : Claim(i)}
<1>0. L \in Nat /\ Len(w) \in Nat /\ Len(e) \in Nat
  BY Item, Zenon DEF Bytes
<1>1. ASSUME NEW i \in 0 .. L, \A j \in i + 1 .. L : Claim(j), NEW m \in 0 .. Len(e), Holds(w, q, e, i, m)
      PROVE  Out(i, m)
  <2> DEFINE z == FrameLength(b, i)
             done == [skip |-> i, frames |-> << >>]
             s == SubSeq(b, i + 1, i + z)
             K == m + 1 .. Len(e)
  <2>0. g[i] = Turn(b, g, i) /\ i \in Nat
    <3>1. i \in Nat
      BY <1>0
    <3>. QED  BY <3>1, Zenon DEF IsScan
  <2>h. Holds(w, q, e, i, m)
    BY <1>1, Zenon
  <2>1. ASSUME g[i] = done, m + 1 \in K => L < q[m + 1] + Len(e[m + 1]) PROVE Out(i, m)
    <3>1. g[i].frames = << >> /\ g[i].skip = i
      BY <2>1
    <3>2. \E n \in m .. Len(e) : Delivers(<< >>, i, w, q, e, m, n, L = Len(w))
      BY <1>0, <2>h, <2>0, <2>1, NothingYet, Zenon
    <3>. QED  BY <3>1, <3>2, Zenon
  <2>f. ASSUME ~(Len(b) - i < 8), b[i + 1] \in StartBytes
        PROVE  /\ m + 1 \in m + 1 .. Len(e) /\ q[m + 1] = i
               /\ FrameLength(b, i) = Len(e[m + 1])
               /\ i + FrameLength(b, i) <= Len(b) => SubSeq(b, i + 1, i + FrameLength(b, i)) = e[m + 1]
    <3> HIDE DEF L, Out, Claim, T, z, done, s, K
    <3>1. i \in 0 .. Len(b)
      BY DEF L
    <3>. QED  BY <2>h, <2>f, <3>1, FrameFound, SMTT(60)
  <2> HIDE DEF z, done, Out
  <2>2. CASE L - i < 8 /\ g[i] = done
    <3>1. ASSUME m + 1 \in K PROVE L < q[m + 1] + Len(e[m + 1])
      <4>1. m + 1 \in 1 .. Len(e)
        BY <1>0, <3>1
      <4>2. q[m + 1] \in Nat /\ i <= q[m + 1] /\ Len(e[m + 1]) \in Nat /\ Len(e[m + 1]) >= 8
        BY <1>1, <3>1, <4>1, Item, FrameFacts, Zenon DEF Holds
      <4>. QED  BY <1>0, <2>0, <2>2, <4>2, SMTT(60)
    <3>. QED  BY <2>1, <2>2, <3>1, Zenon
  <2>3. CASE ~(L - i < 8) /\ b[i + 1] \notin StartBytes /\ i + 1 \in i + 1 .. L /\ g[i] = g[i + 1]
    <3>0. Len(b) <= Len(w)
      BY Zenon DEF Begins
    <3>1. i + 1 \in 1 .. L /\ i + 1 <= Len(w)
      BY <1>0, <2>0, <2>3, <3>0
    <3>2. Holds(w, q, e, i + 1, m)
      BY <2>h, <2>0, <2>3, <3>1, SkipByte, Zenon DEF Begins
    <3>3. Out(i + 1, m)
      BY <1>1, <2>3, <3>2, Zenon
    <3>. QED  BY <2>3, <3>3, Zenon DEF Out
  <2>4. CASE ~(L - i < 8) /\ b[i + 1] \in StartBytes /\ L - i < z /\ g[i] = done
    <3>0. ~(L - i < 8) /\ b[i + 1] \in StartBytes
      BY <2>4, Zenon
    <3>1. q[m + 1] = i /\ z = Len(e[m + 1]) /\ m + 1 \in m + 1 .. Len(e)
      BY <3>0, <2>f, Zenon DEF z
    <3>2. m + 1 \in 1 .. Len(e)
      BY <1>0, <3>1
    <3>3. Len(e[m + 1]) \in Nat
      BY <3>2, Item, FrameFacts, Zenon
    <3>4. z \in Nat
      BY <3>1, <3>3, Zenon
    <3>5. L < i + z
      BY <1>0, <2>0, <2>4, <3>4
    <3>. QED  BY <2>1, <2>4, <3>1, <3>5, Zenon
  <2>5. CASE /\ ~(L - i < 8) /\ b[i + 1] \in StartBytes
             /\ z \in Nat /\ z >= 8 /\ i + z \in i + 1 .. L
             /\ g[i] = [g[i + z] EXCEPT !.frames = <<s>> \o @]
    <3> DEFINE r == g[i + z]
    <3>0. i + z <= L /\ i + z \in 0 .. L
      BY <1>0, <2>0, <2>5, SMTT(60)
    <3>1. /\ q[m + 1] = i /\ z = Len(e[m + 1]) /\ m + 1 \in K
          /\ i + z <= L => s = e[m + 1]
      <4>1. ~(L - i < 8) /\ b[i + 1] \in StartBytes
        BY <2>5, Zenon
      <4>. QED  BY <4>1, <2>f, Zenon DEF z
    <3>2. s = e[m + 1]
      BY <3>0, <3>1, Zenon
    <3>3. Holds(w, q, e, i + z, m + 1)
      BY <1>1, <2>0, <3>1, SkipFrame, Zenon
    <3>4. m + 1 \in 0 .. Len(e)
      BY <1>0, <3>1
    <3>5. Out(i + z, m + 1)
      BY <1>1, <2>5, <3>3, <3>4, Zenon
    <3>6. PICK n \in m + 1 .. Len(e) : Delivers(r.frames, r.skip, w, q, e, m + 1, n, L = Len(w))
      BY <3>5, Zenon DEF Out
    <3>7. r \in Found
      BY <3>0, ScanTyped, Zenon
    <3>8. e[m + 1] \in Bytes
      <4>1. m + 1 \in 1 .. Len(e)
        BY <1>0, <3>1
      <4>. QED  BY <4>1, Item, FrameFacts, Zenon
    <3> HIDE DEF r, s
    <3>9. g[i].frames = <<s>> \o r.frames /\ g[i].skip = r.skip /\ r.frames \in Seq(Bytes)
      BY <2>5, <3>7, ZenonT(60) DEF Found, r
    <3>10. ASSUME NEW k \in 1 .. n - m PROVE g[i].frames[k] = e[m + k]
      <4> DEFINE t == <<s>> \o r.frames
      <4>1. s \in Bytes
        BY <3>2, <3>8, Zenon
      <4>2. t[1] = s /\ \A x \in 1 .. Len(r.frames) : t[1 + x] = r.frames[x]
        BY <3>9, <4>1, Prepended
      <4> HIDE DEF t
      <4>3. Len(r.frames) = n - (m + 1) /\ \A x \in 1 .. n - (m + 1) : r.frames[x] = e[m + 1 + x]
        BY <3>6, Zenon DEF Delivers
      <4>4. k = 1 \/ (k - 1 \in 1 .. n - (m + 1) /\ 1 + (k - 1) = k /\ m + 1 + (k - 1) = m + k)
        BY <1>0, <3>4
      <4>5. CASE k = 1
        BY <3>2, <3>9, <4>2, <4>5, Zenon DEF t
      <4>6. CASE k - 1 \in 1 .. n - (m + 1) /\ 1 + (k - 1) = k /\ m + 1 + (k - 1) = m + k
        BY <3>9, <4>2, <4>3, <4>6, Zenon DEF t
      <4>. QED  BY <4>4, <4>5, <4>6, Zenon
    <3>11. Len(g[i].frames) = n - m
      <4>1. Len(r.frames) = n - (m + 1)
        BY <3>6, Zenon DEF Delivers
      <4>2. Len(<<s>> \o r.frames) = 1 + Len(r.frames)
        <5>1. s \in Bytes
          BY <3>2, <3>8, Zenon
        <5>. QED  BY <3>9, <5>1, Prepended, ZenonT(60)
      <4>3. 1 + (n - (m + 1)) = n - m
        BY <1>0, <3>4
      <4>. QED  BY <3>9, <4>1, <4>2, <4>3, Zenon
    <3>12. n \in m .. Len(e)
      BY <1>0, <3>4
    <3>13. Delivers(g[i].frames, g[i].skip, w, q, e, m, n, L = Len(w))
      BY <3>6, <3>9, <3>10, <3>11, Zenon DEF Delivers
    <3>. QED  BY <3>12, <3>13, Zenon DEF Out
  <2>. QED  BY <2>0, <2>2, <2>3, <2>4, <2>5, TurnCases, Zenon DEF z, done
<1>2. 0 .. L \subseteq T
  <2>1. \A i \in 0 .. L : (\A j \in i + 1 .. L : j \in T) => i \in T
    <3> HIDE DEF Out
    <3>. QED  BY <1>1, Zenon
  <2> HIDE DEF T, L
  <2>. QED  BY <1>0, <2>1, DownFrom, Zenon
<1>. QED  BY <1>2, Zenon

(* s is what remains of t without the first n items. *)
Remains(s, t, n) == Len(s) = Len(t) - n /\ \A k \in 1 .. Len(s) : s[k] = t[n + k]

(* When used bytes are dropped and n frames were delivered, the others are   *)
(* found in what is left.                                                    *)
LEMMA Shift ==
    ASSUME NEW w \in Bytes, NEW v \in Bytes, NEW e \in Seq(Frames), NEW q, NEW s \in Nat,
           NEW n \in 0 .. Len(e), Holds(w, q, e, s, n), NEW d \in 0 .. s, Remains(v, w, d),
           NEW f \in Seq(Frames), Remains(f, e, n)
    PROVE  Holds(v, [k \in 1 .. Len(f) |-> q[n + k] - d], f, s - d, 0)
<1> DEFINE p == [k \in 1 .. Len(f) |-> q[n + k] - d]
           K == 0 + 1 .. Len(f)
<1>0. /\ Len(w) \in Nat /\ Len(v) \in Nat /\ Len(e) \in Nat /\ Len(f) \in Nat /\ d \in Nat /\ n \in Nat
      /\ d <= s /\ s - d \in Nat
  <2>1. Len(w) \in Nat /\ Len(v) \in Nat /\ Len(e) \in Nat /\ Len(f) \in Nat
    BY Item, Zenon DEF Bytes
  <2>. QED  BY <2>1
<1>a. Len(v) = Len(w) - d /\ \A x \in 1 .. Len(v) : v[x] = w[d + x]
  BY Zenon DEF Remains
<1>b. Len(f) = Len(e) - n /\ \A k \in 1 .. Len(f) : f[k] = e[n + k]
  BY Zenon DEF Remains
<1>1. \A k \in K : /\ k \in 1 .. Len(f) /\ n + k \in n + 1 .. Len(e) /\ k \in Nat
                   /\ n + k \in 1 .. Len(e)
  <2>1. Len(f) = Len(e) - n
    BY <1>b, Zenon
  <2>. QED  BY <1>0, <2>1
<1>2. ASSUME NEW k \in K
      PROVE  /\ p[k] = q[n + k] - d /\ f[k] = e[n + k] /\ q[n + k] \in Nat /\ s <= q[n + k]
             /\ q[n + k] + Len(f[k]) <= Len(w) /\ Len(f[k]) \in Nat
             /\ \A x \in 1 .. Len(f[k]) : w[q[n + k] + x] = f[k][x]
  <2>1. p[k] = q[n + k] - d /\ f[k] = e[n + k]
    BY <1>1, <1>b, Zenon
  <2>2. /\ q[n + k] \in Nat /\ s <= q[n + k] /\ q[n + k] + Len(e[n + k]) <= Len(w)
        /\ \A x \in 1 .. Len(e[n + k]) : w[q[n + k] + x] = e[n + k][x]
    BY <1>1, Zenon DEF Holds
  <2>3. Len(e[n + k]) \in Nat
    BY <1>1, Item, FrameFacts, Zenon
  <2>. QED  BY <2>1, <2>2, <2>3, Zenon
<1> HIDE DEF p
<1>3. ASSUME NEW k \in K
      PROVE  /\ p[k] \in Nat /\ s - d <= p[k] /\ p[k] + Len(f[k]) <= Len(v)
             /\ \A x \in 1 .. Len(f[k]) : v[p[k] + x] = f[k][x]
  <2> DEFINE a == q[n + k]
             z == Len(f[k])
  <2>1. a \in Nat /\ z \in Nat /\ s <= a /\ a + z <= Len(w) /\ p[k] = a - d
    BY <1>2, Zenon
  <2>2. \A x \in 1 .. z : w[a + x] = f[k][x]
    BY <1>2, Zenon
  <2> HIDE DEF a, z
  <2>3. /\ p[k] \in Nat /\ s - d <= p[k] /\ p[k] + z <= Len(v)
        /\ \A x \in 1 .. z : p[k] + x \in 1 .. Len(v) /\ d + (p[k] + x) = a + x
    <3>1. Len(v) = Len(w) - d
      BY <1>a, Zenon
    <3>. QED  BY <1>0, <2>1, <3>1
  <2>4. ASSUME NEW x \in 1 .. z PROVE v[p[k] + x] = f[k][x]
    <3>1. v[p[k] + x] = w[d + (p[k] + x)]
      BY <1>a, <2>3, Zenon
    <3>2. d + (p[k] + x) = a + x
      BY <2>3, Zenon
    <3>. QED  BY <2>2, <3>1, <3>2, Zenon
  <2>. QED  BY <2>3, <2>4, Zenon DEF z
<1>4. ASSUME NEW j \in K, NEW k \in K, j < k PROVE p[j] + Len(f[j]) <= p[k]
  <2>1. n + j < n + k
    BY <1>0, <1>1, <1>4
  <2>2. q[n + j] + Len(f[j]) <= q[n + k]
    BY <1>1, <1>2, <2>1, Zenon DEF Holds
  <2>3. /\ p[j] = q[n + j] - d /\ q[n + j] \in Nat /\ Len(f[j]) \in Nat
        /\ p[k] = q[n + k] - d /\ q[n + k] \in Nat
    BY <1>2, Zenon
  <2> DEFINE a == q[n + j]
             b == q[n + k]
             z == Len(f[j])
  <2>4. /\ a \in Nat /\ b \in Nat /\ z \in Nat /\ a + z <= b /\ p[j] = a - d /\ p[k] = b - d
    BY <2>2, <2>3, Zenon
  <2> HIDE DEF a, b, z
  <2>5. p[j] + z <= p[k]
    BY <1>0, <2>4
  <2>. QED  BY <2>5, Zenon DEF z
<1>5. ASSUME NEW x \in (s - d) + 1 .. Len(v), v[x] \in StartBytes
      PROVE  \E k \in K : p[k] < x /\ x <= p[k] + Len(f[k])
  <2>0. Len(v) = Len(w) - d /\ Len(f) = Len(e) - n
    BY <1>a, <1>b, Zenon
  <2>1. d + x \in s + 1 .. Len(w) /\ x \in 1 .. Len(v) /\ x \in Nat
    BY <1>0, <2>0
  <2>2. w[d + x] \in StartBytes
    BY <1>a, <1>5, <2>1, Zenon
  <2>3. PICK y \in n + 1 .. Len(e) : q[y] < d + x /\ d + x <= q[y] + Len(e[y])
    BY <2>1, <2>2, Zenon DEF Holds
  <2>4. y - n \in K /\ n + (y - n) = y
    BY <1>0, <2>0
  <2>5. \A a, z \in Nat : a < d + x /\ d + x <= a + z => a - d < x /\ x <= (a - d) + z
    BY <1>0, <2>1
  <2>6. p[y - n] < x /\ x <= p[y - n] + Len(f[y - n])
    BY <1>2, <2>3, <2>4, <2>5, Zenon
  <2>. QED  BY <2>4, <2>6, Zenon
<1>. QED  BY <1>3, <1>4, <1>5, Zenon DEF Holds, p

-----------------------------------------------------------------------------
(* A parser between two calls of send() *)
Parsers == {p \in [buffer : Bytes, skip : Nat] : p.skip <= Len(p.buffer)}

(* send() *)
LEMMA FeedTyped ==
    ASSUME NEW p \in Parsers, NEW d \in Bytes
    PROVE  /\ Feed(p, d).frames \in Seq(Bytes)
           /\ Feed(p, d).parser \in Parsers
<1> DEFINE b == p.buffer \o d
           r == Scan(b, p.skip)
           c == [buffer |-> b, skip |-> r.skip]
<1>1. p.buffer \in Bytes /\ p.skip \in Nat /\ p.skip <= Len(p.buffer)
  BY DEF Parsers
<1>2. b \in Bytes /\ Len(b) = Len(p.buffer) + Len(d) /\ Len(p.buffer) \in Nat /\ Len(d) \in Nat
  BY <1>1, Joined, Item, ZenonT(60) DEF Bytes
<1>3. p.skip \in 0 .. Len(b)
  BY <1>1, <1>2
<1>4. r \in Found /\ r.skip \in p.skip .. Len(b)
  BY <1>2, <1>3, ScanLoop, ScanTyped, ZenonT(60)
<1>5. Feed(p, d) = [frames |-> r.frames, parser |-> Collect(c)]
  BY Zenon DEF Feed
<1> HIDE DEF b, r
<1>6. r.frames \in Seq(Bytes) /\ r.skip \in Nat /\ r.skip <= Len(b) /\ Len(b) \in Nat
  BY <1>1, <1>2, <1>4 DEF Found
<1>7. Collect(c) \in Parsers
  <2>1. CASE r.skip > GC_LIMIT
    <3> DEFINE t == SubSeq(b, r.skip + 1, Len(b))
    <3>1. t \in Bytes /\ Len(t) \in Nat
      BY <1>2, <1>6, Part, Item, SMTT(60) DEF Bytes
    <3>2. Collect(c) = [buffer |-> t, skip |-> 0]
      BY <2>1 DEF Collect
    <3> HIDE DEF t
    <3>. QED  BY <3>1, <3>2 DEF Parsers
  <2>2. CASE ~(r.skip > GC_LIMIT)
    <3>1. Collect(c) = c
      BY <2>2 DEF Collect
    <3>. QED  BY <1>2, <1>6, <3>1 DEF Parsers
  <2>. QED  BY <2>1, <2>2, Zenon
<1>. QED  BY <1>5, <1>6, <1>7

(* Bytes s \o l of which t bytes of l are handed over, and k are dropped *)
LEMMA Handed ==
    ASSUME NEW s \in Bytes, NEW l \in Bytes, NEW t \in 0 .. Len(l), NEW k \in 0 .. Len(s) + t
    PROVE  LET w == s \o l
               b == s \o SubSeq(l, 1, t)
               rest == SubSeq(l, t + 1, Len(l))
               v == SubSeq(b, k + 1, Len(b)) \o rest
           IN  /\ w \in Bytes /\ Len(w) = Len(s) + Len(l) /\ b \in Bytes /\ rest \in Bytes
               /\ Len(b) = Len(s) + t /\ Begins(b, w)
               /\ v \in Bytes /\ Remains(v, w, k)
               /\ b \o rest \in Bytes /\ Remains(b \o rest, w, 0)
<1> DEFINE w == s \o l
           d == SubSeq(l, 1, t)
           b == s \o d
           rest == SubSeq(l, t + 1, Len(l))
           u == SubSeq(b, k + 1, Len(b))
           v == u \o rest
           S == Len(s)
           N == Len(l)
<1>0. s \in Seq(Byte) /\ l \in Seq(Byte)
  BY Zenon DEF Bytes
<1>1. S \in Nat /\ N \in Nat /\ t \in Nat /\ t <= N /\ 0 + t = t
  BY <1>0, Item
<1>2. /\ w \in Seq(Byte) /\ Len(w) = S + N
      /\ \A x \in 1 .. S : w[x] = s[x]
      /\ \A x \in 1 .. N : w[S + x] = l[x]
  BY <1>0, Joined
<1>3. d \in Seq(Byte) /\ Len(d) = t /\ \A x \in 1 .. t : d[x] = l[x]
  BY <1>0, <1>1
<1>4. rest \in Seq(Byte) /\ Len(rest) = N - t /\ \A x \in 1 .. N - t : rest[x] = l[t + x]
  <2>1. t \in Nat /\ N \in Nat /\ t <= N /\ N <= Len(l)
    BY <1>1
  <2>. QED  BY <1>0, <2>1, Part, Zenon
<1> HIDE DEF w, d, rest
<1>5. /\ b \in Seq(Byte) /\ Len(b) = S + t
      /\ \A x \in 1 .. S : b[x] = s[x]
      /\ \A x \in 1 .. t : b[S + x] = d[x]
  <2>1. /\ b \in Seq(Byte) /\ Len(b) = S + Len(d)
        /\ \A x \in 1 .. S : b[x] = s[x]
        /\ \A x \in 1 .. Len(d) : b[S + x] = d[x]
    <3>1. d \in Seq(Byte)
      BY <1>3, Zenon
    <3>. QED  BY <1>0, <3>1, Joined
  <2>. QED  BY <1>3, <2>1, Zenon
<1> HIDE DEF b
<1>6. ASSUME NEW x \in 1 .. S + t PROVE b[x] = w[x]
  <2>1. CASE x \in 1 .. S
    BY <1>2, <1>5, <2>1, Zenon
  <2>2. CASE x \notin 1 .. S
    <3>1. x - S \in 1 .. t /\ x - S \in 1 .. N /\ S + (x - S) = x
      BY <1>1, <2>2
    <3>2. b[S + (x - S)] = w[S + (x - S)]
      BY <1>2, <1>3, <1>5, <3>1, Zenon
    <3>. QED  BY <3>1, <3>2, Zenon
  <2>. QED  BY <2>1, <2>2, Zenon
<1>7. Begins(b, w)
  <2>1. Len(b) <= Len(w)
    BY <1>1, <1>2, <1>5
  <2>. QED  BY <1>5, <1>6, <2>1, Zenon DEF Begins
<1>8. ASSUME NEW x \in 1 .. N - t PROVE rest[x] = w[S + t + x]
  <2>1. t + x \in 1 .. N /\ S + (t + x) = S + t + x
    BY <1>1
  <2>2. w[S + (t + x)] = l[t + x]
    BY <1>2, <2>1, Zenon
  <2>. QED  BY <1>4, <2>1, <2>2, Zenon
<1>9. /\ b \o rest \in Seq(Byte) /\ Len(b \o rest) = Len(w)
      /\ \A x \in 1 .. Len(w) : (b \o rest)[x] = w[x]
  <2> DEFINE c == b \o rest
  <2>1. /\ c \in Seq(Byte) /\ Len(c) = Len(b) + Len(rest)
        /\ \A x \in 1 .. Len(b) : c[x] = b[x]
        /\ \A x \in 1 .. Len(rest) : c[Len(b) + x] = rest[x]
    <3>1. b \in Seq(Byte) /\ rest \in Seq(Byte)
      BY <1>4, <1>5, Zenon
    <3>. QED  BY <3>1, Joined
  <2> HIDE DEF c
  <2>2. Len(c) = Len(w)
    BY <1>1, <1>2, <1>4, <1>5, <2>1
  <2>3. ASSUME NEW x \in 1 .. Len(w) PROVE c[x] = w[x]
    <3>1. CASE x \in 1 .. S + t
      BY <1>5, <1>6, <2>1, <3>1, Zenon
    <3>2. CASE x \notin 1 .. S + t
      <4>1. x - (S + t) \in 1 .. N - t /\ S + t + (x - (S + t)) = x
        BY <1>1, <1>2, <3>2
      <4>2. c[S + t + (x - (S + t))] = w[S + t + (x - (S + t))]
        BY <1>4, <1>5, <1>8, <2>1, <4>1, ZenonT(60)
      <4>. QED  BY <4>1, <4>2, Zenon
    <3>. QED  BY <3>1, <3>2, Zenon
  <2>. QED  BY <2>1, <2>2, <2>3, Zenon DEF c
<1>10. v \in Seq(Byte) /\ Len(v) = Len(w) - k /\ \A x \in 1 .. Len(v) : v[x] = w[k + x]
  <2>0. k \in Nat /\ Len(b) \in Nat /\ k <= Len(b) /\ Len(b) <= Len(b)
    BY <1>1, <1>5
  <2>1. u \in Seq(Byte) /\ Len(u) = Len(b) - k /\ \A x \in 1 .. Len(b) - k : u[x] = b[k + x]
    BY <1>5, <2>0, Part, SMTT(60)
  <2> HIDE DEF u
  <2>2. /\ v \in Seq(Byte) /\ Len(v) = Len(u) + Len(rest)
        /\ \A x \in 1 .. Len(u) : v[x] = u[x]
        /\ \A x \in 1 .. Len(rest) : v[Len(u) + x] = rest[x]
    <3>1. u \in Seq(Byte) /\ rest \in Seq(Byte)
      BY <1>4, <2>1, Zenon
    <3>. QED  BY <3>1, Joined
  <2> HIDE DEF v
  <2>3. Len(v) = Len(w) - k
    BY <1>1, <1>2, <1>4, <1>5, <2>0, <2>1, <2>2
  <2>4. ASSUME NEW x \in 1 .. Len(v) PROVE v[x] = w[k + x]
    <3>1. CASE x \in 1 .. Len(u)
      <4>1. k + x \in 1 .. S + t
        BY <1>1, <1>5, <2>0, <2>1, <3>1, SMTT(60)
      <4>. QED  BY <1>6, <2>1, <2>2, <3>1, <4>1, Zenon
    <3>2. CASE x \notin 1 .. Len(u)
      <4>1. /\ x - Len(u) \in 1 .. N - t /\ Len(u) + (x - Len(u)) = x
            /\ S + t + (x - Len(u)) = k + x
        BY <1>1, <1>2, <1>4, <1>5, <2>0, <2>1, <2>2, <3>2, SMTT(60)
      <4>2. v[Len(u) + (x - Len(u))] = w[S + t + (x - Len(u))]
        BY <1>4, <1>8, <2>2, <4>1, Zenon
      <4>. QED  BY <4>1, <4>2, Zenon
    <3>. QED  BY <3>1, <3>2, Zenon
  <2>. QED  BY <2>2, <2>3, <2>4, Zenon
<1>11. Remains(v, w, k)
  BY <1>10, Zenon DEF Remains
<1>12. Remains(b \o rest, w, 0)
  <2>1. Len(w) - 0 = Len(w) /\ \A x \in 1 .. Len(w) : 0 + x = x
    BY <1>1, <1>2
  <2> DEFINE c == b \o rest
  <2>2. Len(c) = Len(w) /\ \A x \in 1 .. Len(w) : c[x] = w[x]
    BY <1>9, Zenon
  <2> HIDE DEF c
  <2>3. Len(c) = Len(w) - 0
    BY <2>1, <2>2, Zenon
  <2>4. ASSUME NEW x \in 1 .. Len(c) PROVE c[x] = w[0 + x]
    <3>1. x \in 1 .. Len(w)
      BY <2>2, Zenon
    <3>2. 0 + x = x
      BY <2>1, <3>1, Zenon
    <3>. QED  BY <2>2, <3>1, <3>2, Zenon
  <2>. QED  BY <2>3, <2>4, Zenon DEF Remains, c
<1>. QED  BY <1>2, <1>4, <1>5, <1>7, <1>9, <1>10, <1>11, <1>12, Zenon DEF Bytes, w, b, d, rest, v, u

(* The result r of send() after t of the bytes l were handed over: the frames *)
(* are the first n of e, and the others are found in the buffer and the bytes *)
(* that are left.                                                             *)
Fed(r, l, t, e) ==
    \E n \in 0 .. Len(e) :
       /\ r.frames = SubSeq(e, 1, n)
       /\ \E q : Holds(r.parser.buffer \o SubSeq(l, t + 1, Len(l)), q,
                       SubSeq(e, n + 1, Len(e)), r.parser.skip, 0)
       /\ t = Len(l) => n = Len(e)

(* send() on a stream: of the bytes l that follow the buffer, t are handed    *)
(* over.                                                                      *)
LEMMA FeedStream ==
    ASSUME NEW p \in Parsers, NEW l \in Bytes, NEW t \in 0 .. Len(l), NEW e \in Seq(Frames), NEW q,
           Holds(p.buffer \o l, q, e, p.skip, 0)
    PROVE  Fed(Feed(p, SubSeq(l, 1, t)), l, t, e)
<1> DEFINE s == p.buffer
           d == SubSeq(l, 1, t)
           w == s \o l
           b == s \o d
           rest == SubSeq(l, t + 1, Len(l))
           r == Scan(b, p.skip)
           c == [buffer |-> b, skip |-> r.skip]
           u == SubSeq(b, r.skip + 1, Len(b))
<1>1. s \in Bytes /\ p.skip \in Nat /\ p.skip <= Len(s) /\ Len(s) \in Nat /\ Len(l) \in Nat /\ t \in Nat
  <2>1. s \in Bytes /\ p.skip \in Nat /\ p.skip <= Len(s)
    BY DEF Parsers
  <2>2. Len(s) \in Nat /\ Len(l) \in Nat
    BY <2>1, Item, Zenon DEF Bytes
  <2>. QED  BY <2>1, <2>2
<1>2. /\ w \in Bytes /\ Len(w) = Len(s) + Len(l) /\ b \in Bytes /\ rest \in Bytes
      /\ Len(b) = Len(s) + t /\ Begins(b, w)
      /\ b \o rest \in Bytes /\ Remains(b \o rest, w, 0)
  <2>1. 0 \in 0 .. Len(s) + t
    BY <1>1
  <2>. QED  BY <1>1, <2>1, Handed, Zenon
<1>3. ASSUME NEW k \in 0 .. Len(s) + t
      PROVE  LET v == SubSeq(b, k + 1, Len(b)) \o rest
             IN  v \in Bytes /\ Remains(v, w, k)
  <2>1. s \in Bytes
    BY <1>1, Zenon
  <2>. QED  BY <2>1, Handed, Zenon
<1>4. Feed(p, d) = [frames |-> r.frames, parser |-> Collect(c)]
  BY Zenon DEF Feed
<1> HIDE DEF w, b, rest, d
<1>5. p.skip \in 0 .. Len(b)
  BY <1>1, <1>2
<1>6. PICK g : IsScan(g, b) /\ r = g[p.skip]
  BY <1>2, ScanLoop, Zenon
<1>7. r \in Found /\ r.skip \in p.skip .. Len(b)
  <2>1. b \in Bytes /\ IsScan(g, b)
    BY <1>2, <1>6, Zenon
  <2>2. \A i \in 0 .. Len(b) : g[i] \in Found /\ g[i].skip \in i .. Len(b)
    BY <2>1, ScanTyped, Zenon
  <2>. QED  BY <1>5, <1>6, <2>2, Zenon
<1>8. Holds(w, q, e, p.skip, 0) /\ Len(e) \in Nat /\ 0 \in 0 .. Len(e)
  <2>1. Len(e) \in Nat
    BY Item, Zenon
  <2>2. 0 \in 0 .. Len(e)
    BY <2>1
  <2>. QED  BY <2>1, <2>2, Zenon DEF w
<1>9. \A m \in 0 .. Len(e) : Holds(w, q, e, p.skip, m) =>
         \E n \in m .. Len(e) : Delivers(g[p.skip].frames, g[p.skip].skip, w, q, e, m, n, Len(b) = Len(w))
  BY <1>2, <1>5, <1>6, ScanStream, ZenonT(60)
<1>10. PICK n \in 0 .. Len(e) : Delivers(r.frames, r.skip, w, q, e, 0, n, Len(b) = Len(w))
  BY <1>6, <1>8, <1>9, Zenon
<1> HIDE DEF r
<1>11. r.skip \in Nat /\ r.skip \in 0 .. Len(s) + t /\ r.frames \in Seq(Bytes) /\ n \in Nat /\ n <= Len(e)
  BY <1>1, <1>2, <1>7, <1>8 DEF Found
<1> DEFINE f == SubSeq(e, n + 1, Len(e))
           h == SubSeq(e, 1, n)
<1>12. r.frames = h
  <2>1. h \in Seq(Frames) /\ Len(h) = n /\ \A k \in 1 .. n : h[k] = e[k]
    BY <1>8, <1>11
  <2> HIDE DEF h
  <2>2. h \in Seq(Bytes)
    <3>1. \A x \in Frames : x \in Bytes
      BY FrameFacts, Zenon
    <3> HIDE DEF h
    <3>. QED  BY <2>1, <3>1
  <2>3. Len(r.frames) = n - 0 /\ \A k \in 1 .. n - 0 : r.frames[k] = e[0 + k]
    BY <1>10, Zenon DEF Delivers
  <2>4. n - 0 = n /\ \A k \in 1 .. n : 0 + k = k
    BY <1>11
  <2>5. Len(r.frames) = n /\ \A k \in 1 .. n : r.frames[k] = e[k]
    BY <2>3, <2>4, Zenon
  <2>6. Len(r.frames) = Len(h) /\ \A k \in 1 .. Len(r.frames) : r.frames[k] = h[k]
    BY <2>1, <2>5, Zenon
  <2>. QED  BY <1>11, <2>2, <2>6, SameItems, Zenon
<1>13. t = Len(l) => n = Len(e)
  BY <1>2, <1>10, Zenon DEF Delivers
<1>14. f \in Seq(Frames) /\ Remains(f, e, n)
  <2>1. f \in Seq(Frames) /\ Len(f) = Len(e) - n /\ \A k \in 1 .. Len(e) - n : f[k] = e[n + k]
    BY <1>8, <1>11, Part
  <2>. QED  BY <2>1, Zenon DEF Remains
<1> HIDE DEF f, h
<1>15. Holds(w, q, e, r.skip, n)
  BY <1>10, Zenon DEF Delivers
<1>16. \E o : Holds(Collect(c).buffer \o rest, o, f, Collect(c).skip, 0)
  <2>1. CASE r.skip > GC_LIMIT
    <3> DEFINE v == u \o rest
    <3>1. Collect(c).buffer = u /\ Collect(c).skip = 0
      BY <2>1, ZenonT(60) DEF Collect
    <3>2. v \in Bytes /\ Remains(v, w, r.skip)
      BY <1>3, <1>11, Zenon
    <3> HIDE DEF v, u
    <3>3. r.skip \in 0 .. r.skip /\ r.skip - r.skip = 0
      BY <1>11
    <3>4. \E o : Holds(v, o, f, r.skip - r.skip, 0)
      <4>1. w \in Bytes /\ r.skip \in Nat
        BY <1>2, <1>11, Zenon
      <4>. QED  BY <1>14, <1>15, <3>2, <3>3, <4>1, Shift, Zenon
    <3>. QED  BY <3>1, <3>3, <3>4, Zenon DEF v
  <2>2. CASE ~(r.skip > GC_LIMIT)
    <3> DEFINE v == b \o rest
    <3>1. Collect(c).buffer = b /\ Collect(c).skip = r.skip
      BY <2>2 DEF Collect
    <3>2. v \in Bytes /\ Remains(v, w, 0)
      BY <1>2, Zenon
    <3> HIDE DEF v
    <3>3. 0 \in 0 .. r.skip /\ r.skip - 0 = r.skip
      BY <1>11
    <3>4. \E o : Holds(v, o, f, r.skip - 0, 0)
      <4>1. w \in Bytes /\ r.skip \in Nat
        BY <1>2, <1>11, Zenon
      <4>. QED  BY <1>14, <1>15, <3>2, <3>3, <4>1, Shift, Zenon
    <3>. QED  BY <3>1, <3>3, <3>4, Zenon DEF v
  <2>. QED  BY <2>1, <2>2, Zenon
<1>17. Feed(p, d).frames = r.frames /\ Feed(p, d).parser = Collect(c)
  <2> HIDE DEF c
  <2>. QED  BY <1>4
<1>. QED  BY <1>12, <1>13, <1>16, <1>17, Zenon DEF Fed, d, rest, f, h

-----------------------------------------------------------------------------
(* Concatenation is associative. *)
LEMMA JoinTwice ==
    ASSUME NEW s \in Bytes, NEW t \in Bytes, NEW u \in Bytes
    PROVE  s \o (t \o u) = (s \o t) \o u
  BY SMTT(60) DEF Bytes

(* One item more *)
LEMMA Appended ==
    ASSUME NEW S, NEW s \in Seq(S), NEW x \in S
    PROVE  /\ Append(s, x) \in Seq(S) /\ Len(Append(s, x)) = Len(s) + 1
           /\ Append(s, x)[Len(s) + 1] = x
           /\ \A k \in 1 .. Len(s) : Append(s, x)[k] = s[k]
  OBVIOUS

(* A stream goes on with noise. *)
LEMMA MoreNoise ==
    ASSUME NEW w \in Bytes, NEW e \in Seq(Frames), NEW q, NEW i \in Nat, Holds(w, q, e, i, 0),
           NEW g \in Noise
    PROVE  Holds(w \o g, q, e, i, 0)
<1> DEFINE v == w \o g
<1>1. g \in Bytes /\ \A k \in DOMAIN g : g[k] \notin StartBytes
  BY MavlinkAssumption DEF Bytes, Byte, StartBytes
<1>2. \A k \in 1 .. Len(g) : g[k] \notin StartBytes
  BY <1>1 DEF Bytes
<1>3. w \in Seq(Byte) /\ g \in Seq(Byte)
  BY <1>1, Zenon DEF Bytes
<1>4. /\ v \in Seq(Byte) /\ Len(v) = Len(w) + Len(g)
      /\ \A k \in 1 .. Len(w) : v[k] = w[k]
      /\ \A k \in 1 .. Len(g) : v[Len(w) + k] = g[k]
  BY <1>3, Joined, SMTT(60)
<1>5. Len(w) \in Nat /\ Len(g) \in Nat
  BY <1>3, Item, Zenon
<1> HIDE DEF v
<1> DEFINE K == 0 + 1 .. Len(e)
<1>6. ASSUME NEW k \in K
      PROVE  /\ q[k] \in Nat /\ i <= q[k] /\ q[k] + Len(e[k]) <= Len(v)
             /\ \A x \in 1 .. Len(e[k]) : v[q[k] + x] = e[k][x]
  <2> DEFINE a == q[k]
             z == Len(e[k])
  <2>1. a \in Nat /\ i <= a /\ a + z <= Len(w) /\ \A x \in 1 .. z : w[a + x] = e[k][x]
    BY Zenon DEF Holds
  <2>2. z \in Nat
    <3>1. k \in 1 .. Len(e)
      OBVIOUS
    <3>. QED  BY <3>1, Item, FrameFacts, Zenon
  <2> HIDE DEF a, z
  <2>3. a + z <= Len(v) /\ \A x \in 1 .. z : a + x \in 1 .. Len(w)
    <3>1. a \in Nat /\ a + z <= Len(w)
      BY <2>1, Zenon
    <3>2. Len(v) = Len(w) + Len(g)
      BY <1>4, Zenon
    <3>. QED  BY <1>5, <2>2, <3>1, <3>2
  <2>4. \A x \in 1 .. z : v[a + x] = e[k][x]
    BY <1>4, <2>1, <2>3, Zenon
  <2>. QED  BY <2>1, <2>3, <2>4, Zenon DEF a, z
<1>7. ASSUME NEW x \in i + 1 .. Len(v), v[x] \in StartBytes
      PROVE  \E k \in K : q[k] < x /\ x <= q[k] + Len(e[k])
  <2>1. CASE x \in i + 1 .. Len(w)
    <3>1. x \in 1 .. Len(w)
      BY <1>5, <2>1
    <3>2. w[x] \in StartBytes
      BY <1>4, <1>7, <3>1, Zenon
    <3>. QED  BY <2>1, <3>2, Zenon DEF Holds
  <2>2. CASE x \notin i + 1 .. Len(w)
    <3>0. Len(v) = Len(w) + Len(g)
      BY <1>4, Zenon
    <3>1. x - Len(w) \in 1 .. Len(g) /\ Len(w) + (x - Len(w)) = x
      BY <1>5, <2>2, <3>0
    <3>2. v[Len(w) + (x - Len(w))] \notin StartBytes
      BY <1>2, <1>4, <3>1, Zenon
    <3>. QED  BY <1>7, <3>1, <3>2, Zenon
  <2>. QED  BY <2>1, <2>2, Zenon
<1>8. \A j, k \in K : j < k => q[j] + Len(e[j]) <= q[k]
  BY Zenon DEF Holds
<1>. QED  BY <1>6, <1>7, <1>8, Zenon DEF Holds, v

(* A stream goes on with a frame. *)
LEMMA MoreFrames ==
    ASSUME NEW w \in Bytes, NEW e \in Seq(Frames), NEW q, NEW i \in Nat, i <= Len(w),
           Holds(w, q, e, i, 0), NEW f \in Frames
    PROVE  \E o : Holds(w \o f, o, Append(e, f), i, 0)
<1> DEFINE v == w \o f
           n == Len(e)
           c == Append(e, f)
           o == [k \in 1 .. n + 1 |-> IF k = n + 1 THEN Len(w) ELSE q[k]]
           K == 0 + 1 .. n
           C == 0 + 1 .. n + 1
<1>1. f \in Bytes /\ Len(f) \in Nat
  BY FrameFacts, Zenon
<1>2. w \in Seq(Byte) /\ f \in Seq(Byte)
  BY <1>1, Zenon DEF Bytes
<1>3. /\ v \in Seq(Byte) /\ Len(v) = Len(w) + Len(f)
      /\ \A k \in 1 .. Len(w) : v[k] = w[k]
      /\ \A k \in 1 .. Len(f) : v[Len(w) + k] = f[k]
  BY <1>2, Joined, SMTT(60)
<1>4. Len(w) \in Nat /\ n \in Nat
  BY <1>2, Item, Zenon
<1>5. c \in Seq(Frames) /\ Len(c) = n + 1 /\ c[n + 1] = f /\ \A k \in 1 .. n : c[k] = e[k]
  BY Appended
<1>6. o[n + 1] = Len(w) /\ \A k \in 1 .. n : o[k] = q[k]
  BY <1>4
<1> HIDE DEF v, c, o
<1>7. \A k \in C : k \in K \/ k = n + 1
  BY <1>4
<1>k. \A k \in K : k \in 1 .. n /\ k \in C /\ k # n + 1
  BY <1>4
<1>8. ASSUME NEW k \in K
      PROVE  /\ o[k] = q[k] /\ c[k] = e[k] /\ Len(e[k]) \in Nat
             /\ q[k] \in Nat /\ i <= q[k] /\ q[k] + Len(e[k]) <= Len(w)
             /\ \A x \in 1 .. Len(e[k]) : w[q[k] + x] = e[k][x]
  <2>1. o[k] = q[k] /\ c[k] = e[k]
    BY <1>5, <1>6, <1>k, Zenon
  <2>2. Len(e[k]) \in Nat
    BY <1>k, Item, FrameFacts, Zenon
  <2>. QED  BY <2>1, <2>2, Zenon DEF Holds
<1>9. ASSUME NEW k \in C
      PROVE  /\ o[k] \in Nat /\ i <= o[k] /\ o[k] + Len(c[k]) <= Len(v)
             /\ \A x \in 1 .. Len(c[k]) : v[o[k] + x] = c[k][x]
  <2>0. Len(v) = Len(w) + Len(f)
    BY <1>3, Zenon
  <2>1. CASE k = n + 1
    <3>1. o[k] = Len(w) /\ c[k] = f
      BY <1>5, <1>6, <2>1, Zenon
    <3>2. Len(w) + Len(f) <= Len(v)
      BY <1>1, <1>4, <2>0
    <3>. QED  BY <1>3, <1>4, <3>1, <3>2, Zenon
  <2>2. CASE k \in K
    <3> DEFINE a == q[k]
               z == Len(e[k])
    <3>1. /\ a \in Nat /\ z \in Nat /\ i <= a /\ a + z <= Len(w)
          /\ \A x \in 1 .. z : w[a + x] = e[k][x]
      BY <1>8, <2>2, Zenon
    <3> HIDE DEF a, z
    <3>2. a + z <= Len(v) /\ \A x \in 1 .. z : a + x \in 1 .. Len(w)
      <4>1. a \in Nat /\ z \in Nat /\ a + z <= Len(w)
        BY <3>1, Zenon
      <4>. QED  BY <1>1, <1>4, <2>0, <4>1
    <3>3. \A x \in 1 .. z : v[a + x] = e[k][x]
      BY <1>3, <3>1, <3>2, Zenon
    <3>4. o[k] = a /\ c[k] = e[k]
      BY <1>8, <2>2, Zenon DEF a
    <3>. QED  BY <3>1, <3>2, <3>3, <3>4, Zenon DEF z
  <2>. QED  BY <1>7, <2>1, <2>2, Zenon
<1>10. ASSUME NEW j \in C, NEW k \in C, j < k PROVE o[j] + Len(c[j]) <= o[k]
  <2>1. j \in K
    BY <1>4, <1>10
  <2>2. CASE k = n + 1
    <3>1. o[k] = Len(w)
      BY <1>6, <2>2, Zenon
    <3>. QED  BY <1>8, <2>1, <3>1, Zenon
  <2>3. CASE k \in K
    <3>1. q[j] + Len(e[j]) <= q[k]
      BY <1>10, <2>1, <2>3, Zenon DEF Holds
    <3>2. o[j] = q[j] /\ c[j] = e[j] /\ o[k] = q[k]
      BY <1>8, <2>1, <2>3, Zenon
    <3>. QED  BY <3>1, <3>2, Zenon
  <2>. QED  BY <1>7, <2>2, <2>3, Zenon
<1>11. ASSUME NEW x \in i + 1 .. Len(v), v[x] \in StartBytes
       PROVE  \E k \in C : o[k] < x /\ x <= o[k] + Len(c[k])
  <2>0. Len(v) = Len(w) + Len(f)
    BY <1>3, Zenon
  <2>1. CASE x \in i + 1 .. Len(w)
    <3>1. x \in 1 .. Len(w)
      BY <1>4, <2>1
    <3>2. w[x] \in StartBytes
      BY <1>3, <1>11, <3>1, Zenon
    <3>3. PICK k \in K : q[k] < x /\ x <= q[k] + Len(e[k])
      BY <2>1, <3>2, Zenon DEF Holds
    <3>4. o[k] = q[k] /\ c[k] = e[k] /\ k \in C
      BY <1>8, <1>k, Zenon
    <3>. QED  BY <3>3, <3>4, Zenon
  <2>2. CASE x \notin i + 1 .. Len(w)
    <3>1. Len(w) < x /\ x <= Len(w) + Len(f) /\ n + 1 \in C
      BY <1>1, <1>4, <2>0, <2>2
    <3>. QED  BY <1>5, <1>6, <3>1, Zenon
  <2>. QED  BY <2>1, <2>2, Zenon
<1>12. Len(c) = n + 1
  BY <1>5, Zenon
<1>13. Holds(v, o, c, i, 0)
  BY <1>9, <1>10, <1>11, <1>12, Zenon DEF Holds
<1>. QED  BY <1>13, Zenon DEF v, c

-----------------------------------------------------------------------------
(* The serial line is a stream: the bytes in the parser's buffer and on the  *)
(* line hold the frames that were not delivered yet.                         *)
LineInvariant ==
    /\ vehicle \in States
    /\ line \in Bytes /\ fsm \in Parsers /\ emitted \in Seq(Frames)
    /\ intact
    /\ line = << >> => emitted = << >>
    /\ \E q : Holds(fsm.buffer \o line, q, emitted, fsm.skip, 0)

(* A stream without bytes *)
LEMMA NoStream == \A q : Holds(<< >>, q, << >>, 0, 0)
<1>1. Len(<< >>) = 0 /\ \A k \in 0 + 1 .. 0 : FALSE
  OBVIOUS
<1>. QED  BY <1>1, Zenon DEF Holds

(* The fields of a parser *)
LEMMA ParserFacts ==
    ASSUME NEW p \in Parsers
    PROVE  p.buffer \in Bytes /\ p.skip \in Nat /\ p.skip <= Len(p.buffer)
  BY DEF Parsers

(* A new parser *)
LEMMA NewParserOK == NewParser \in Parsers /\ NewParser.buffer = << >> /\ NewParser.skip = 0
  BY DEF NewParser, Parsers, Bytes

(* Nothing is on the line at first. *)
LEMMA LineInit == Init => LineInvariant
<1>1. Init => /\ vehicle \in States /\ line = << >> /\ fsm = NewParser /\ emitted = << >> /\ intact = TRUE
  BY Zenon DEF Init
<1>2. << >> \in Bytes /\ << >> \in Seq(Frames) /\ << >> \o << >> = << >>
  BY DEF Bytes
<1>. QED  BY <1>1, <1>2, NewParserOK, NoStream, Zenon DEF LineInvariant

(* The autopilot sends a frame. *)
LEMMA LineEmit ==
    ASSUME LineInvariant, NEW f \in Frames, Emit(f)
    PROVE  LineInvariant'
<1>1. /\ line' = line \o f /\ emitted' = Append(emitted, f) /\ fsm' = fsm /\ intact' = intact /\ vehicle' = vehicle
  BY Zenon DEF Emit
<1>2. /\ vehicle \in States /\ line \in Bytes /\ fsm \in Parsers /\ emitted \in Seq(Frames) /\ intact
  BY Zenon DEF LineInvariant
<1>3. PICK q : Holds(fsm.buffer \o line, q, emitted, fsm.skip, 0)
  BY Zenon DEF LineInvariant
<1>4. f \in Bytes /\ Len(f) \in Nat /\ Len(f) >= 8
  BY FrameFacts, Zenon
<1> DEFINE b == fsm.buffer
           w == b \o line
           e == Append(emitted, f)
           l == line \o f
<1>5. b \in Bytes /\ fsm.skip \in Nat /\ fsm.skip <= Len(b)
  BY <1>2, ParserFacts, Zenon
<1>6. w \in Bytes /\ Len(w) = Len(b) + Len(line) /\ Len(line) \in Nat /\ Len(b) \in Nat
  <2>1. b \in Seq(Byte) /\ line \in Seq(Byte)
    BY <1>2, <1>5, Zenon DEF Bytes
  <2>2. w \in Seq(Byte) /\ Len(w) = Len(b) + Len(line) /\ Len(line) \in Nat /\ Len(b) \in Nat
    BY <2>1
  <2>. QED  BY <2>2, Zenon DEF Bytes
<1>7. fsm.skip <= Len(w)
  BY <1>5, <1>6
<1>8. \E o : Holds(w \o f, o, e, fsm.skip, 0)
  BY <1>2, <1>3, <1>5, <1>6, <1>7, MoreFrames, Zenon
<1>9. w \o f = b \o l
  BY <1>2, <1>4, <1>5, JoinTwice, ZenonT(60)
<1>10. l \in Bytes /\ l # << >>
  BY <1>2, <1>4 DEF Bytes
<1>11. e \in Seq(Frames)
  BY <1>2
<1>12. fsm'.buffer = b /\ fsm'.skip = fsm.skip
  BY <1>1, Zenon
<1>13. \E o : Holds(b \o l, o, e, fsm.skip, 0)
  BY <1>8, <1>9, Zenon
<1>14. line' = l /\ emitted' = e
  BY <1>1, Zenon
<1> HIDE DEF b, w, e, l
<1>15. vehicle' \in States /\ line' \in Bytes /\ fsm' \in Parsers /\ emitted' \in Seq(Frames) /\ intact' /\ line' # << >>
  BY <1>1, <1>2, <1>10, <1>11, <1>14, Zenon
<1>16. \E q_1 : Holds(fsm'.buffer \o line', q_1, emitted', fsm'.skip, 0)
  BY <1>12, <1>13, <1>14, Zenon
<1>. QED  BY <1>15, <1>16, Zenon DEF LineInvariant

(* Noise on the serial line *)
LEMMA LineNoise ==
    ASSUME LineInvariant, EmitNoise
    PROVE  LineInvariant'
<1>1. PICK g \in Noise : line' = line \o g
  BY Zenon DEF EmitNoise
<1>2. vehicle' = vehicle /\ emitted' = emitted /\ fsm' = fsm /\ intact' = intact
  BY Zenon DEF EmitNoise
<1>3. /\ vehicle \in States /\ line \in Bytes /\ fsm \in Parsers /\ emitted \in Seq(Frames) /\ intact
      /\ line = << >> => emitted = << >>
  BY Zenon DEF LineInvariant
<1>4. PICK q : Holds(fsm.buffer \o line, q, emitted, fsm.skip, 0)
  BY Zenon DEF LineInvariant
<1>5. g \in Bytes
  BY MavlinkAssumption, ZenonT(60) DEF Bytes, Byte
<1> DEFINE b == fsm.buffer
           w == b \o line
           l == line \o g
<1>6. b \in Bytes /\ fsm.skip \in Nat
  BY <1>3, ParserFacts, Zenon
<1>7. w \in Bytes /\ l \in Bytes /\ (l = << >> => line = << >>)
  <2>1. b \in Seq(Byte) /\ line \in Seq(Byte) /\ g \in Seq(Byte)
    BY <1>3, <1>5, <1>6, Zenon DEF Bytes
  <2>2. w \in Seq(Byte) /\ l \in Seq(Byte) /\ (l = << >> => line = << >>)
    BY <2>1
  <2>. QED  BY <2>2, Zenon DEF Bytes
<1>8. Holds(w \o g, q, emitted, fsm.skip, 0)
  BY <1>3, <1>4, <1>6, <1>7, MoreNoise, Zenon
<1>9. w \o g = b \o l
  BY <1>3, <1>5, <1>6, JoinTwice, ZenonT(60)
<1>10. Holds(b \o l, q, emitted, fsm.skip, 0)
  BY <1>8, <1>9, Zenon
<1> HIDE DEF w, l
<1>11. /\ vehicle' \in States /\ line' \in Bytes /\ fsm' \in Parsers /\ emitted' \in Seq(Frames) /\ intact'
       /\ (line' = << >> => emitted' = << >>)
  BY <1>1, <1>2, <1>3, <1>7, Zenon DEF l
<1>12. Holds(fsm'.buffer \o line', q, emitted', fsm'.skip, 0)
  BY <1>1, <1>2, <1>10, Zenon DEF l
<1>. QED  BY <1>11, <1>12, Zenon DEF LineInvariant

(* A chunk of the serial line is read. *)
LEMMA ChunkTaken ==
    ASSUME line \in Bytes, NEW c \in Chunks, Drain(c)
    PROVE  /\ Taken(c) \in 0 .. Len(line) /\ Len(line) \in Nat
           /\ line' = SubSeq(line, Taken(c) + 1, Len(line)) /\ line' \in Bytes
           /\ SubSeq(line, 1, Taken(c)) \in Bytes
           /\ (line' = << >> => Taken(c) = Len(line))
<1> DEFINE t == Taken(c)
           rest == SubSeq(line, t + 1, Len(line))
<1>1. c \in Nat /\ Len(line) \in Nat
  <2>1. c \in Nat
    BY MavlinkAssumption
  <2>. QED  BY <2>1, Item, Zenon DEF Bytes
<1>2. t \in 0 .. Len(line)
  BY <1>1 DEF Taken
<1>3. line' = rest
  BY Zenon DEF Drain
<1> HIDE DEF t
<1>4. t \in Nat /\ t <= Len(line) /\ line \in Seq(Byte) /\ Len(line) <= Len(line)
  BY <1>1, <1>2 DEF Bytes
<1>5. rest \in Seq(Byte) /\ Len(rest) = Len(line) - t
  BY <1>1, <1>4, Part
<1>6. SubSeq(line, 1, t) \in Seq(Byte)
  BY <1>1, <1>4
<1> HIDE DEF rest
<1>7. rest = << >> => t = Len(line)
  BY <1>1, <1>4, <1>5
<1>. QED  BY <1>1, <1>2, <1>3, <1>5, <1>6, <1>7, Zenon DEF t, rest, Bytes

(* What a chunk yields: the next frames, in the order in which they were sent *)
LEMMA ChunkFed ==
    ASSUME LineInvariant, NEW c \in Chunks, Drain(c)
    PROVE  LET r == Feed(fsm, SubSeq(line, 1, Taken(c)))
           IN  Fed(r, line, Taken(c), emitted) /\ r.parser \in Parsers
<1>1. line \in Bytes /\ fsm \in Parsers /\ emitted \in Seq(Frames)
  BY Zenon DEF LineInvariant
<1>2. PICK q : Holds(fsm.buffer \o line, q, emitted, fsm.skip, 0)
  BY Zenon DEF LineInvariant
<1>3. Taken(c) \in 0 .. Len(line) /\ SubSeq(line, 1, Taken(c)) \in Bytes
  BY <1>1, ChunkTaken, Zenon
<1>. QED  BY <1>1, <1>2, <1>3, FeedTyped, FeedStream, Zenon

(* Reading a chunk leaves a stream. *)
LEMMA LineRead ==
    ASSUME LineInvariant, ReadChunk
    PROVE  LineInvariant'
<1> DEFINE R(c) == Feed(fsm, SubSeq(line, 1, Taken(c)))
<1>1. PICK c \in Chunks :
          /\ Drain(c) /\ vehicle' = vehicle
          /\ fsm' = R(c).parser
          /\ emitted' = SubSeq(emitted, Len(R(c).frames) + 1, Len(emitted))
          /\ intact' = (intact /\ \E n \in 0 .. Len(emitted) : R(c).frames = SubSeq(emitted, 1, n))
  BY Zenon DEF ReadChunk
<1>2. /\ vehicle \in States /\ line \in Bytes /\ fsm \in Parsers /\ emitted \in Seq(Frames) /\ intact
  BY Zenon DEF LineInvariant
<1> DEFINE t == Taken(c)
           r == R(c)
<1>4. /\ t \in 0 .. Len(line)
      /\ line' = SubSeq(line, t + 1, Len(line)) /\ line' \in Bytes
      /\ (line' = << >> => t = Len(line))
  BY <1>1, <1>2, ChunkTaken, Zenon
<1>5. r.parser \in Parsers
  BY <1>1, ChunkFed, Zenon
<1>6. Fed(r, line, t, emitted)
  BY <1>1, ChunkFed, Zenon
<1>7. PICK n \in 0 .. Len(emitted) :
         /\ r.frames = SubSeq(emitted, 1, n)
         /\ \E o : Holds(r.parser.buffer \o SubSeq(line, t + 1, Len(line)), o,
                         SubSeq(emitted, n + 1, Len(emitted)), r.parser.skip, 0)
         /\ t = Len(line) => n = Len(emitted)
  BY <1>6, Zenon DEF Fed
<1> HIDE DEF r, R, t
<1>8. Len(emitted) \in Nat /\ n \in Nat /\ n <= Len(emitted)
  <2>1. Len(emitted) \in Nat
    BY <1>2, Item, Zenon
  <2>. QED  BY <2>1
<1>9. Len(r.frames) = n
  <2>1. Len(SubSeq(emitted, 1, n)) = n
    BY <1>2, <1>8
  <2>. QED  BY <1>7, <2>1, Zenon
<1> DEFINE f == SubSeq(emitted, n + 1, Len(emitted))
<1>10. emitted' = f /\ fsm' = r.parser
  BY <1>1, <1>9, Zenon DEF r
<1>11. f \in Seq(Frames) /\ (n = Len(emitted) => f = << >>)
  BY <1>2, <1>8
<1>12. intact'
  BY <1>1, <1>2, <1>7, Zenon DEF r
<1>13. line' = << >> => emitted' = << >>
  BY <1>4, <1>7, <1>10, <1>11, Zenon
<1>14. \E o : Holds(fsm'.buffer \o line', o, emitted', fsm'.skip, 0)
  BY <1>4, <1>7, <1>10, Zenon
<1> HIDE DEF f
<1>15. vehicle' \in States /\ line' \in Bytes /\ fsm' \in Parsers /\ emitted' \in Seq(Frames)
  BY <1>1, <1>2, <1>4, <1>5, <1>10, <1>11, Zenon
<1>. QED  BY <1>12, <1>13, <1>14, <1>15, Zenon DEF LineInvariant

(* The other actions leave the line alone. *)
LEMMA LineSame ==
    ASSUME LineInvariant, vehicle' \in States, UNCHANGED <<line, fsm, emitted, intact>>
    PROVE  LineInvariant'
<1>1. line' = line /\ fsm' = fsm /\ emitted' = emitted /\ intact' = intact
  BY Zenon
<1>0. /\ line \in Bytes /\ fsm \in Parsers /\ emitted \in Seq(Frames) /\ intact
      /\ (line = << >> => emitted = << >>)
  BY Zenon DEF LineInvariant
<1>2. /\ line' \in Bytes /\ fsm' \in Parsers /\ emitted' \in Seq(Frames) /\ intact'
      /\ (line' = << >> => emitted' = << >>)
  <2>1. intact'
    BY <1>0, <1>1
  <2>. QED  BY <1>0, <1>1, <2>1, Zenon
<1>3. \E q : Holds(fsm'.buffer \o line', q, emitted', fsm'.skip, 0)
  BY <1>1, Zenon DEF LineInvariant
<1>. QED  BY <1>2, <1>3, Zenon DEF LineInvariant

(* The line stays a stream of frames in every step. *)
LEMMA LineStep == LineInvariant /\ [Next]_vars => LineInvariant'
<1> SUFFICES ASSUME LineInvariant, [Next]_vars PROVE LineInvariant'
  BY Zenon
<1>0. vehicle \in States
  BY Zenon DEF LineInvariant
<1>1. CASE Beat
  <2>1. Heartbeat(vehicle) \in Frames
    BY <1>0, Zenon DEF Frames
  <2>. QED  BY <1>1, <2>1, LineEmit, Zenon DEF Beat
<1>2. CASE EmitOther
  <2>1. PICK f \in Others : Emit(f)
    BY <1>2, Zenon DEF EmitOther
  <2>2. f \in Frames
    BY Zenon DEF Frames
  <2>. QED  BY <2>1, <2>2, LineEmit, Zenon
<1>3. CASE EmitNoise
  BY <1>3, LineNoise, Zenon
<1>4. CASE Switch
  <2>1. vehicle' \in States /\ UNCHANGED <<line, fsm, emitted, intact>>
    BY <1>4, Zenon DEF Switch
  <2>. QED  BY <2>1, LineSame, Zenon
<1>5. CASE ReadChunk
  BY <1>5, LineRead, Zenon
<1>6. CASE Flush \/ Write \/ CommandEnds \/ UNCHANGED vars
  <2>1. vehicle' = vehicle /\ UNCHANGED <<line, fsm, emitted, intact>>
    BY <1>6, Zenon DEF Flush, Write, CommandEnds, vars
  <2>. QED  BY <1>0, <2>1, LineSame, Zenon
<1>. QED  BY <1>1, <1>2, <1>3, <1>4, <1>5, <1>6, Zenon DEF Next

(* FramesInOrder: whatever the chunks, the noise between frames and the       *)
(* garbage collection of mavlink_parser_gen, every frame of the autopilot is  *)
(* delivered once, unchanged and in order, as soon as its last byte was read. *)
THEOREM FramesAlwaysInOrder == Spec => []FramesInOrder
<1>1. LineInvariant => FramesInOrder
  BY Zenon DEF LineInvariant, FramesInOrder
<1>. QED  BY <1>1, LineInit, LineStep, PTL DEF Spec

-----------------------------------------------------------------------------
(* The aggregation queue and the frames in it: the joined bytes hold exactly *)
(* these frames, and a queue that overflows has its timer pending.           *)
Queues == [queue : [bytes : Bytes, size : Nat, timer : {"none", "pending"}], queued : Seq(Frames)]

Batch(x) ==
    /\ x.queue.size = Len(x.queue.bytes)
    /\ x.queue.timer = "pending" => x.queue.size > 0
    /\ \E q : Holds(x.queue.bytes, q, x.queued, 0, 0)

Batches == {x \in Queues : Batch(x)}

(* One frame is handed to messageReceived. *)
Aggregate(x, f) ==
    LET m == messageReceived(x.queue, f, AGG_MAX_SIZE)
    IN  [queue |-> m.queue, queued |-> IF m.sent = << >> THEN Append(x.queued, f) ELSE <<f>>]

IsAggregation(g, x, fs) ==
    g = [k \in 0 .. Len(fs) |-> IF k = 0 THEN x ELSE Aggregate(g[k - 1], fs[k])]

(* Bytes that are a stream of the frames e make a batch. *)
LEMMA BatchOf ==
    ASSUME NEW b \in Bytes, NEW z \in Nat, NEW t \in {"none", "pending"}, NEW e \in Seq(Frames),
           z = Len(b), t = "pending" => z > 0, NEW q, Holds(b, q, e, 0, 0)
    PROVE  [queue |-> [bytes |-> b, size |-> z, timer |-> t], queued |-> e] \in Batches
<1> DEFINE u == [bytes |-> b, size |-> z, timer |-> t]
           x == [queue |-> u, queued |-> e]
<1>1. u.bytes = b /\ u.size = z /\ u.timer = t /\ u \in [bytes : Bytes, size : Nat, timer : {"none", "pending"}]
  BY SMTT(60)
<1> HIDE DEF u
<1>2. x.queue = u /\ x.queued = e /\ x \in Queues
  BY <1>1 DEF Queues
<1> HIDE DEF x
<1>3. Batch(x)
  BY <1>1, <1>2, Zenon DEF Batch
<1>. QED  BY <1>2, <1>3, Zenon DEF Batches, x, u

(* The queue is a batch of whole frames after every call. *)
LEMMA BatchStep ==
    ASSUME NEW x \in Batches, NEW f \in Frames
    PROVE  Aggregate(x, f) \in Batches
<1> DEFINE b == x.queue.bytes
           z == x.queue.size
           t == x.queue.timer
           m == messageReceived(x.queue, f, AGG_MAX_SIZE)
<1>1. x \in Queues /\ z = Len(b) /\ (t = "pending" => z > 0)
  BY Zenon DEF Batches, Batch
<1>2. PICK q : Holds(b, q, x.queued, 0, 0)
  BY Zenon DEF Batches, Batch
<1>3. b \in Bytes /\ z \in Nat /\ t \in {"none", "pending"} /\ x.queued \in Seq(Frames)
  BY <1>1 DEF Queues
<1>4. f \in Bytes /\ Len(f) \in Nat /\ Len(f) >= 8 /\ Len(f) <= AGG_MAX_SIZE /\ AGG_MAX_SIZE \in Nat
  <2>1. AGG_MAX_SIZE \in Nat
    BY MavlinkAssumption
  <2>. QED  BY <2>1, FrameFacts, Zenon
<1>5. ~(Len(f) > AGG_MAX_SIZE)
  BY <1>4
<1>6. CASE z + Len(f) > AGG_MAX_SIZE
  <2> DEFINE u == [bytes |-> f, size |-> Len(f), timer |-> "pending"]
  <2>0. t # "called"
    BY <1>3
  <2>1. m = [queue |-> u, sent |-> <<b>>, outcome |-> "ok"]
    BY <1>5, <1>6, <2>0, Zenon DEF messageReceived, Result
  <2>2. m.queue = u /\ m.sent # << >>
    <3> HIDE DEF u, m
    <3>. QED  BY <2>1
  <2>3. Aggregate(x, f) = [queue |-> u, queued |-> <<f>>]
    BY <2>2, Zenon DEF Aggregate
  <2>4. << >> \in Bytes /\ << >> \in Seq(Frames) /\ 0 <= Len(<< >>) /\ << >> \o f = f /\ Append(<< >>, f) = <<f>>
    BY <1>4 DEF Bytes
  <2>5. 0 \in Nat
    OBVIOUS
  <2>6. \E o : Holds(<< >> \o f, o, Append(<< >>, f), 0, 0)
    BY <2>4, <2>5, NoStream, MoreFrames, Zenon
  <2>7. PICK o : Holds(f, o, <<f>>, 0, 0)
    BY <2>4, <2>6, Zenon
  <2>8. <<f>> \in Seq(Frames) /\ Len(f) > 0
    BY <1>4
  <2>. QED  BY <1>4, <2>3, <2>7, <2>8, BatchOf, Zenon
<1>7. CASE ~(z + Len(f) > AGG_MAX_SIZE)
  <2> DEFINE s == IF t = "none" THEN "pending" ELSE t
             u == [bytes |-> b \o f, size |-> z + Len(f), timer |-> s]
  <2>1. m = [queue |-> u, sent |-> << >>, outcome |-> "ok"]
    BY <1>5, <1>7, Zenon DEF messageReceived, Result
  <2>2. m.queue = u /\ m.sent = << >>
    <3> HIDE DEF u, m
    <3>. QED  BY <2>1
  <2>3. Aggregate(x, f) = [queue |-> u, queued |-> Append(x.queued, f)]
    BY <2>2, Zenon DEF Aggregate
  <2>4. b \o f \in Bytes /\ z + Len(f) \in Nat /\ z + Len(f) = Len(b \o f) /\ z + Len(f) > 0 /\ 0 <= Len(b)
    BY <1>1, <1>3, <1>4 DEF Bytes
  <2>5. s \in {"none", "pending"} /\ 0 \in Nat
    BY <1>3
  <2>6. Append(x.queued, f) \in Seq(Frames)
    BY <1>3
  <2>7. PICK o : Holds(b \o f, o, Append(x.queued, f), 0, 0)
    BY <1>2, <1>3, <2>4, <2>5, MoreFrames, Zenon
  <2> HIDE DEF s
  <2>. QED  BY <2>3, <2>4, <2>5, <2>6, <2>7, BatchOf, Zenon
<1>. QED  BY <1>6, <1>7, Zenon

(* dataReceived hands over all frames of a chunk. *)
LEMMA BatchLoop ==
    ASSUME NEW x \in Batches, NEW fs \in Seq(Frames)
    PROVE  (CHOOSE g : IsAggregation(g, x, fs))[Len(fs)] \in Batches
<1> DEFINE n == Len(fs)
           F == [k \in 1 .. n |-> [y \in Batches |-> Aggregate(y, fs[k])]]
           g == CHOOSE h : IsAggregation(h, x, fs)
<1>0. n \in Nat /\ \A k \in 1 .. n : fs[k] \in Frames
  BY Item, Zenon
<1>1. F \in [1 .. n -> [Batches -> Batches]]
  BY <1>0, BatchStep, Zenon
<1>2. PICK f \in [0 .. n -> Batches] : IsLoop(f, x, n, F)
  <2>1. n \in Nat
    BY <1>0, Zenon
  <2> HIDE DEF F, n
  <2>. QED  BY <1>1, <2>1, LoopExists, Zenon
<1>3. \A i \in 0 .. n : i # 0 => i \in 1 .. n /\ i - 1 \in 0 .. n
  BY <1>0
<1>4. \A i \in 0 .. n : i # 0 => F[i][f[i - 1]] = Aggregate(f[i - 1], fs[i])
  BY <1>2, <1>3, Zenon
<1>5. \A i \in 0 .. n : f[i] = IF i = 0 THEN x ELSE Aggregate(f[i - 1], fs[i])
  <2> HIDE DEF F
  <2>1. \A i \in 0 .. n : f[i] = IF i = 0 THEN x ELSE F[i][f[i - 1]]
    BY <1>2, Zenon DEF IsLoop
  <2>. QED  BY <1>4, <2>1, Zenon
<1>6. IsAggregation(f, x, fs)
  <2>1. f = [i \in 0 .. n |-> f[i]]
    BY <1>2, Zenon
  <2>. QED  BY <1>5, <2>1, Zenon DEF IsAggregation
<1>7. IsAggregation(g, x, fs)
  BY <1>6, Zenon
<1> DEFINE T == {i \in 0 .. n : g[i] \in Batches}
<1> HIDE DEF F, g
<1>8. \A i \in 0 .. n : g[i] = IF i = 0 THEN x ELSE Aggregate(g[i - 1], fs[i])
  BY <1>7, Zenon DEF IsAggregation
<1>9. 0 \in T
  <2>1. 0 \in 0 .. n
    BY <1>0
  <2>. QED  BY <1>8, <2>1, Zenon
<1>10. ASSUME NEW i \in 0 .. n - 1, i \in T PROVE i + 1 \in T
  <2>1. i + 1 \in 1 .. n /\ i + 1 \in 0 .. n /\ i + 1 # 0 /\ (i + 1) - 1 = i
    BY <1>0
  <2>2. g[i + 1] = Aggregate(g[i], fs[i + 1])
    BY <1>8, <2>1, Zenon
  <2>. QED  BY <1>0, <1>10, <2>1, <2>2, BatchStep, Zenon
<1>11. n \in T
  <2>1. n \in 0 .. n
    BY <1>0
  <2> HIDE DEF T
  <2>. QED  BY <1>0, <1>9, <1>10, <2>1, UpTo, Zenon
<1>. QED  BY <1>11, Zenon DEF g

(* Nothing is in the queue. *)
LEMMA EmptyBatch == [queue |-> EmptyQueue, queued |-> << >>] \in Batches
<1>1. /\ << >> \in Bytes /\ 0 \in Nat /\ 0 = Len(<< >>) /\ << >> \in Seq(Frames)
      /\ "none" \in {"none", "pending"} /\ ~("none" = "pending")
  BY DEF Bytes
<1>. QED  BY <1>1, NoStream, BatchOf, Zenon DEF EmptyQueue

(* What the far station splits is a batch of whole frames. *)
QueueInvariant == [queue |-> agg, queued |-> queued] \in Batches

(* The queue is empty at first. *)
LEMMA QueueInit == Init => QueueInvariant
<1>1. Init => agg = EmptyQueue /\ queued = << >>
  BY Zenon DEF Init
<1>. QED  BY <1>1, EmptyBatch, Zenon DEF QueueInvariant

(* Every step keeps what the far parser finds in the batch. *)
LEMMA QueueStep == LineInvariant /\ QueueInvariant /\ [Next]_vars => QueueInvariant'
<1> SUFFICES ASSUME LineInvariant, QueueInvariant, [Next]_vars PROVE QueueInvariant'
  BY Zenon
<1> DEFINE x == [queue |-> agg, queued |-> queued]
<1>0. x \in Batches
  BY Zenon DEF QueueInvariant
<1>1. CASE ReadChunk
  <2> DEFINE R(c) == Feed(fsm, SubSeq(line, 1, Taken(c)))
             out(c) == CHOOSE g : IsAggregation(g, x, R(c).frames)
  <2>1. PICK c \in Chunks : /\ Drain(c)
                            /\ agg' = out(c)[Len(R(c).frames)].queue
                            /\ queued' = out(c)[Len(R(c).frames)].queued
    BY <1>1, Zenon DEF ReadChunk, IsAggregation, Aggregate
  <2> DEFINE fs == R(c).frames
             y == out(c)[Len(fs)]
  <2>2. fs \in Seq(Frames)
    <3>1. Fed(R(c), line, Taken(c), emitted) /\ emitted \in Seq(Frames)
      BY <2>1, ChunkFed, Zenon DEF LineInvariant
    <3>2. PICK n \in 0 .. Len(emitted) : fs = SubSeq(emitted, 1, n)
      BY <3>1, Zenon DEF Fed
    <3>3. SubSeq(emitted, 1, n) \in Seq(Frames)
      BY <3>1
    <3>. QED  BY <3>2, <3>3, Zenon
  <2> HIDE DEF R, x
  <2>3. y \in Batches
    BY <1>0, <2>2, BatchLoop, Zenon
  <2>4. agg' = y.queue /\ queued' = y.queued
    BY <2>1, Zenon
  <2> HIDE DEF y
  <2>5. y = [queue |-> y.queue, queued |-> y.queued]
    BY <2>3 DEF Batches, Queues
  <2>6. y = [queue |-> agg', queued |-> queued']
    BY <2>4, <2>5, Zenon
  <2>. QED  BY <2>3, <2>6, Zenon DEF QueueInvariant
<1>2. CASE Flush
  <2>1. agg.timer = "pending" /\ agg' = flush_queue(agg).queue /\ queued' = << >>
    BY <1>2, Zenon DEF Flush
  <2>2. x.queue = agg
    OBVIOUS
  <2>3. agg.size > 0
    BY <1>0, <2>1, <2>2, Zenon DEF Batches, Batch
  <2>4. flush_queue(agg) = [queue |-> EmptyQueue, sent |-> <<agg.bytes>>, outcome |-> "ok"]
    BY <2>3, Zenon DEF flush_queue, Result
  <2>5. flush_queue(agg).queue = EmptyQueue
    BY <2>4
  <2>6. [queue |-> EmptyQueue, queued |-> << >>] \in Batches
    BY EmptyBatch, Zenon
  <2>. QED  BY <2>1, <2>5, <2>6, Zenon DEF QueueInvariant
<1>3. CASE Beat \/ EmitOther \/ EmitNoise \/ Switch \/ Write \/ CommandEnds \/ UNCHANGED vars
  <2>1. agg' = agg /\ queued' = queued
    BY <1>3, Zenon DEF Beat, EmitOther, Emit, EmitNoise, Switch, Write, CommandEnds, vars
  <2>. QED  BY <1>0, <2>1, Zenon DEF QueueInvariant
<1>. QED  BY <1>1, <1>2, <1>3, Zenon DEF Next

(* A parser that gets a batch at once returns its frames. *)
LEMMA BatchSplit ==
    ASSUME NEW b \in Bytes, NEW e \in Seq(Frames), NEW q, Holds(b, q, e, 0, 0)
    PROVE  Feed(NewParser, b).frames = e
<1>1. /\ Len(b) \in Nat /\ Len(b) \in 0 .. Len(b) /\ SubSeq(b, 1, Len(b)) = b /\ << >> \o b = b
      /\ Len(e) \in Nat /\ SubSeq(e, 1, Len(e)) = e
  BY DEF Bytes
<1>2. Holds(NewParser.buffer \o b, q, e, NewParser.skip, 0)
  BY <1>1, NewParserOK, Zenon
<1>3. Fed(Feed(NewParser, SubSeq(b, 1, Len(b))), b, Len(b), e)
  <2>1. NewParser \in Parsers /\ Len(b) \in 0 .. Len(b)
    BY <1>1, NewParserOK, Zenon
  <2>. QED  BY <1>2, <2>1, FeedStream, Zenon
<1>4. Fed(Feed(NewParser, b), b, Len(b), e)
  BY <1>1, <1>3, Zenon
<1>. QED  BY <1>1, <1>4, Zenon DEF Fed

(* SplitUndoesJoin: a parser of the far station gets back exactly the frames *)
(* that messageReceived joined, however the frames fill the batches.         *)
THEOREM SplitAlwaysUndoesJoin == Spec => []SplitUndoesJoin
<1>1. QueueInvariant => SplitUndoesJoin
  <2> SUFFICES ASSUME QueueInvariant PROVE SplitUndoesJoin
    BY Zenon
  <2> DEFINE x == [queue |-> agg, queued |-> queued]
  <2>1. x \in Batches /\ x.queue = agg /\ x.queued = queued
    BY DEF QueueInvariant
  <2> HIDE DEF x
  <2>2. x.queue.bytes \in Bytes /\ x.queued \in Seq(Frames)
    BY <2>1 DEF Batches, Queues
  <2>3. PICK q : Holds(agg.bytes, q, queued, 0, 0)
    BY <2>1, Zenon DEF Batches, Batch
  <2>. QED  BY <2>1, <2>2, <2>3, BatchSplit, Zenon DEF SplitUndoesJoin
<1>. QED  BY <1>1, LineInit, LineStep, QueueInit, QueueStep, PTL DEF Spec

-----------------------------------------------------------------------------
(* The ARM watcher during a call.  If the lock was closed before, with state *)
(* ar recorded, nothing happens; if it was open, at most one command is      *)
(* started, the one of the state that is recorded, and the lock is closed.   *)
Arms == [armed : States \cup {"unknown"}, locked : BOOLEAN, fsm : Parsers, started : Seq(States)]

Watched(lk, ar, a) ==
    /\ lk => a.locked /\ a.armed = ar /\ a.started = << >>
    /\ ~lk => a.started = << >> \/ (a.locked /\ a.started = <<a.armed>>)

Guarded(lk, ar) == {a \in Arms : Watched(lk, ar, a)}

(* messageReceived *)
LEMMA MessageGuarded ==
    ASSUME NEW lk \in BOOLEAN, NEW ar, NEW a \in Guarded(lk, ar), NEW frame
    PROVE  arm_messageReceived(a, frame) \in Guarded(lk, ar)
<1> DEFINE l2 == L2(frame)
           s == IF l2.payload[7] >= 128 THEN "armed" ELSE "disarmed"
           st == IF s \in Commands THEN Append(a.started, s) ELSE a.started
           b == [a EXCEPT !.armed = s, !.locked = s \in Commands, !.started = st]
<1>1. a \in Arms /\ Watched(lk, ar, a)
  BY Zenon DEF Guarded
<1>2. CASE l2.source # <<1, 1, 0>> \/ a.locked \/ s = a.armed
  <2>1. arm_messageReceived(a, frame) = a
    BY <1>2, Zenon DEF arm_messageReceived
  <2>. QED  BY <2>1, Zenon
<1>3. CASE ~(l2.source # <<1, 1, 0>> \/ a.locked \/ s = a.armed)
  <2>1. arm_messageReceived(a, frame) = b
    BY <1>3, Zenon DEF arm_messageReceived
  <2>2. s \in States
    BY Zenon DEF States
  <2>3. ~a.locked
    BY <1>3, Zenon
  <2>4. ~lk /\ a.started = << >>
    BY <1>1, <2>3, Zenon DEF Watched
  <2> HIDE DEF s
  <2>5. CASE s \in Commands
    <3>1. st = Append(<< >>, s) /\ Append(<< >>, s) = <<s>> /\ <<s>> \in Seq(States)
      <4>1. Append(<< >>, s) = <<s>> /\ <<s>> \in Seq(States)
        BY <2>2
      <4>. QED  BY <2>4, <2>5, <4>1, Zenon
    <3> DEFINE c == [a EXCEPT !.armed = s, !.locked = TRUE, !.started = <<s>>]
    <3>2. (s \in Commands) = TRUE
      BY <2>5, Zenon
    <3>3. b = c
      BY <3>1, <3>2, Zenon
    <3>4. c \in Arms /\ c.locked /\ c.started = <<s>> /\ c.armed = s
      BY <1>1, <2>2, <3>1, ZenonT(60) DEF Arms
    <3> HIDE DEF c, b
    <3>. QED  BY <2>1, <2>4, <3>3, <3>4, Zenon DEF Guarded, Watched
  <2>6. CASE s \notin Commands
    <3> DEFINE k == s \in Commands
    <3>1. st = << >> /\ << >> \in Seq(States)
      BY <2>4, <2>6
    <3>2. k \in BOOLEAN
      OBVIOUS
    <3>3. b = [a EXCEPT !.armed = s, !.locked = k, !.started = st]
      BY Zenon
    <3> HIDE DEF k, st, b
    <3>4. b \in Arms /\ b.started = << >>
      BY <1>1, <2>2, <3>1, <3>2, <3>3, ZenonT(60) DEF Arms
    <3>. QED  BY <2>1, <2>4, <3>4, Zenon DEF Guarded, Watched
  <2>. QED  BY <2>5, <2>6, Zenon
<1>. QED  BY <1>2, <1>3, Zenon

(* All frames of one call of dataReceived *)
IsWatching(g, a, fs) ==
    g = [n \in 0 .. Len(fs) |-> IF n = 0 THEN a ELSE arm_turn(g[n - 1], fs, n)]

(* However many frames there are, the lock holds. *)
LEMMA WatchingGuarded ==
    ASSUME NEW lk \in BOOLEAN, NEW ar, NEW a \in Guarded(lk, ar), NEW fs \in Seq(Bytes)
    PROVE  (CHOOSE g : IsWatching(g, a, fs))[Len(fs)] \in Guarded(lk, ar)
<1> DEFINE n == Len(fs)
           S == Guarded(lk, ar)
           F == [k \in 1 .. n |-> [y \in S |-> arm_turn(y, fs, k)]]
           g == CHOOSE h : IsWatching(h, a, fs)
<1>0. n \in Nat
  BY Item, Zenon
<1>s. \A y \in S : \A k : arm_turn(y, fs, k) \in S
  BY MessageGuarded, Zenon DEF arm_turn
<1> HIDE DEF S
<1>a. a \in S
  BY Zenon DEF S
<1>1. F \in [1 .. n -> [S -> S]]
  BY <1>s, Zenon
<1>2. PICK f \in [0 .. n -> S] : IsLoop(f, a, n, F)
  <2> HIDE DEF F, n
  <2>. QED  BY <1>a, <1>0, <1>1, LoopExists, Zenon
<1>3. \A i \in 0 .. n : i # 0 => i \in 1 .. n /\ i - 1 \in 0 .. n
  BY <1>0
<1>4. \A i \in 0 .. n : i # 0 => F[i][f[i - 1]] = arm_turn(f[i - 1], fs, i)
  BY <1>2, <1>3, Zenon
<1>5. \A i \in 0 .. n : f[i] = IF i = 0 THEN a ELSE arm_turn(f[i - 1], fs, i)
  <2> HIDE DEF F
  <2>1. \A i \in 0 .. n : f[i] = IF i = 0 THEN a ELSE F[i][f[i - 1]]
    BY <1>2, Zenon DEF IsLoop
  <2>. QED  BY <1>4, <2>1, Zenon
<1>6. IsWatching(f, a, fs)
  <2>1. f = [i \in 0 .. n |-> f[i]]
    BY <1>2, Zenon
  <2>. QED  BY <1>5, <2>1, Zenon DEF IsWatching
<1>7. IsWatching(g, a, fs)
  BY <1>6, Zenon
<1> DEFINE T == {i \in 0 .. n : g[i] \in S}
<1> HIDE DEF F, g
<1>8. \A i \in 0 .. n : g[i] = IF i = 0 THEN a ELSE arm_turn(g[i - 1], fs, i)
  BY <1>7, Zenon DEF IsWatching
<1>9. 0 \in T
  <2>1. 0 \in 0 .. n
    BY <1>0
  <2>. QED  BY <1>a, <1>8, <2>1, Zenon
<1>10. ASSUME NEW i \in 0 .. n - 1, i \in T PROVE i + 1 \in T
  <2>1. i + 1 \in 0 .. n /\ i + 1 # 0 /\ (i + 1) - 1 = i
    BY <1>0
  <2>2. g[i + 1] = arm_turn(g[i], fs, i + 1)
    BY <1>8, <2>1, Zenon
  <2>. QED  BY <1>s, <1>10, <2>1, <2>2, Zenon
<1>11. n \in T
  <2>1. n \in 0 .. n
    BY <1>0
  <2> HIDE DEF T
  <2>. QED  BY <1>0, <1>9, <1>10, <2>1, UpTo, Zenon
<1>. QED  BY <1>11, Zenon DEF g, S

(* dataReceived of the watcher *)
LEMMA DataGuarded ==
    ASSUME NEW lk \in BOOLEAN, NEW ar, NEW a \in Guarded(lk, ar), NEW d \in Bytes
    PROVE  arm_dataReceived(a, d) \in Guarded(lk, ar)
<1> DEFINE r == Feed(a.fsm, d)
           b == [a EXCEPT !.fsm = r.parser]
<1>1. a \in Arms /\ Watched(lk, ar, a)
  BY Zenon DEF Guarded
<1>2. a.fsm \in Parsers
  BY <1>1 DEF Arms
<1>3. r.frames \in Seq(Bytes) /\ r.parser \in Parsers
  BY <1>2, FeedTyped, Zenon
<1>4. arm_dataReceived(a, d) = (CHOOSE g : IsWatching(g, b, r.frames))[Len(r.frames)]
  BY Zenon DEF arm_dataReceived, IsWatching
<1> HIDE DEF r
<1>5. b \in Arms /\ b.locked = a.locked /\ b.armed = a.armed /\ b.started = a.started
  BY <1>1, <1>3 DEF Arms
<1> HIDE DEF b
<1>6. b \in Guarded(lk, ar)
  BY <1>1, <1>5 DEF Guarded, Watched
<1>. QED  BY <1>3, <1>4, <1>6, WatchingGuarded, Zenon

(* The hook of the serial side: all frames of a chunk *)
IsHooking(g, a, fs) ==
    g = [n \in 0 .. Len(fs) |-> IF n = 0 THEN a ELSE arm_dataReceived(g[n - 1], fs[n])]

(* The same over the frames of a chunk. *)
LEMMA HookGuarded ==
    ASSUME NEW lk \in BOOLEAN, NEW ar, NEW a \in Guarded(lk, ar), NEW fs \in Seq(Bytes)
    PROVE  arm_hook(a, fs) \in Guarded(lk, ar)
<1> DEFINE n == Len(fs)
           S == Guarded(lk, ar)
           F == [k \in 1 .. n |-> [y \in S |-> arm_dataReceived(y, fs[k])]]
           g == CHOOSE h : IsHooking(h, a, fs)
<1>0. n \in Nat /\ \A i \in 1 .. n : fs[i] \in Bytes
  BY Item, Zenon
<1>s. \A y \in S : \A d \in Bytes : arm_dataReceived(y, d) \in S
  BY DataGuarded, Zenon
<1> HIDE DEF S
<1>a. a \in S
  BY Zenon DEF S
<1>1. F \in [1 .. n -> [S -> S]]
  BY <1>0, <1>s, Zenon
<1>2. PICK f \in [0 .. n -> S] : IsLoop(f, a, n, F)
  <2> HIDE DEF F, n
  <2>. QED  BY <1>a, <1>0, <1>1, LoopExists, Zenon
<1>3. \A i \in 0 .. n : i # 0 => i \in 1 .. n /\ i - 1 \in 0 .. n
  <2>1. n \in Nat
    BY <1>0, ZenonT(60)
  <2> HIDE DEF n
  <2>. QED  BY <2>1
<1>4. \A i \in 0 .. n : i # 0 => F[i][f[i - 1]] = arm_dataReceived(f[i - 1], fs[i])
  BY <1>2, <1>3, Zenon
<1>5. \A i \in 0 .. n : f[i] = IF i = 0 THEN a ELSE arm_dataReceived(f[i - 1], fs[i])
  <2> HIDE DEF F
  <2>1. \A i \in 0 .. n : f[i] = IF i = 0 THEN a ELSE F[i][f[i - 1]]
    BY <1>2, Zenon DEF IsLoop
  <2>. QED  BY <1>4, <2>1, Zenon
<1>6. IsHooking(f, a, fs)
  <2>1. f = [i \in 0 .. n |-> f[i]]
    BY <1>2, Zenon
  <2>. QED  BY <1>5, <2>1, Zenon DEF IsHooking
<1>7. IsHooking(g, a, fs)
  BY <1>6, Zenon
<1>h. arm_hook(a, fs) = g[n]
  BY Zenon DEF arm_hook, IsHooking
<1> DEFINE T == {i \in 0 .. n : g[i] \in S}
<1> HIDE DEF F, g
<1>8. \A i \in 0 .. n : g[i] = IF i = 0 THEN a ELSE arm_dataReceived(g[i - 1], fs[i])
  BY <1>7, Zenon DEF IsHooking
<1>9. 0 \in T /\ n \in 0 .. n
  <2>1. n \in Nat
    BY <1>0, Zenon
  <2>2. 0 \in 0 .. n /\ n \in 0 .. n
    <3> HIDE DEF n
    <3>. QED  BY <2>1
  <2>. QED  BY <1>a, <1>8, <2>2, Zenon
<1>10. ASSUME NEW i \in 0 .. n - 1, i \in T PROVE i + 1 \in T
  <2>0. n \in Nat
    BY <1>0, Zenon
  <2>1. i + 1 \in 0 .. n /\ i + 1 # 0 /\ (i + 1) - 1 = i /\ i + 1 \in 1 .. n
    <3> HIDE DEF n
    <3>. QED  BY <2>0
  <2>2. g[i + 1] = arm_dataReceived(g[i], fs[i + 1])
    BY <1>8, <2>1, Zenon
  <2>3. fs[i + 1] \in Bytes
    BY <1>0, <2>1, Zenon
  <2>4. g[i] \in S
    BY <1>10, Zenon
  <2>. QED  BY <1>s, <2>1, <2>2, <2>3, <2>4, Zenon
<1>11. n \in T
  <2> HIDE DEF T
  <2>. QED  BY <1>0, <1>9, <1>10, UpTo, Zenon
<1>. QED  BY <1>11, <1>h, Zenon DEF S

(* At most one command runs, the one of the recorded state, under the lock. *)
ArmInvariant ==
    /\ arm \in Arms /\ arm.started = << >>
    /\ running \in Seq(States) /\ OneCommandAtATime

(* A fresh watcher runs nothing. *)
LEMMA ArmInit == Init => ArmInvariant
<1> SUFFICES ASSUME Init PROVE ArmInvariant
  BY Zenon
<1>1. arm = NewArm /\ running = << >>
  BY Zenon DEF Init
<1>2. NewParser \in Parsers
  BY NewParserOK, Zenon
<1>3. NewArm \in Arms /\ NewArm.started = << >>
  BY <1>2 DEF NewArm, Arms
<1>4. running \in Seq(States) /\ Len(running) <= 1
  BY <1>1
<1>. QED  BY <1>1, <1>3, <1>4, Zenon DEF ArmInvariant, OneCommandAtATime

(* The watcher is guarded by its own lock when a call begins. *)
LEMMA ArmGuarded ==
    ASSUME ArmInvariant
    PROVE  arm.locked \in BOOLEAN /\ arm \in Guarded(arm.locked, arm.armed)
<1>1. arm \in Arms /\ arm.started = << >>
  BY Zenon DEF ArmInvariant
<1>2. arm.locked \in BOOLEAN
  BY <1>1 DEF Arms
<1>3. Watched(arm.locked, arm.armed, arm)
  BY <1>1, Zenon DEF Watched
<1>. QED  BY <1>1, <1>2, <1>3, Zenon DEF Guarded

(* What a guarded call started begins to run. *)
LEMMA ArmWatch ==
    ASSUME ArmInvariant, NEW a \in Guarded(arm.locked, arm.armed), Watch(a)
    PROVE  ArmInvariant'
<1>1. /\ running \in Seq(States) /\ Len(running) <= 1
      /\ running # << >> => running[1] = arm.armed /\ arm.locked
  BY Zenon DEF ArmInvariant, OneCommandAtATime
<1>2. a \in Arms /\ Watched(arm.locked, arm.armed, a)
  BY Zenon DEF Guarded
<1>3. arm' = [a EXCEPT !.started = << >>] /\ running' = running \o a.started
  BY Zenon DEF Watch
<1>4. arm' \in Arms /\ arm'.started = << >> /\ arm'.armed = a.armed /\ arm'.locked = a.locked
  <2>1. << >> \in Seq(States)
    OBVIOUS
  <2>. QED  BY <1>2, <1>3, <2>1, ZenonT(60) DEF Arms
<1>5. CASE a.started = << >> /\ running # << >>
  <2>1. running' = running
    BY <1>1, <1>3, <1>5
  <2>2. arm.locked
    BY <1>1, <1>5, Zenon
  <2>3. a.locked /\ a.armed = arm.armed
    BY <1>2, <2>2, Zenon DEF Watched
  <2>4. arm'.locked
    BY <1>4, <2>3
  <2>5. running'[1] = arm'.armed
    BY <1>1, <1>4, <1>5, <2>1, <2>3, Zenon
  <2>. QED  BY <1>1, <1>4, <2>1, <2>4, <2>5, Zenon DEF ArmInvariant, OneCommandAtATime
<1>6. CASE a.started = << >> /\ running = << >>
  <2>1. running' = << >> /\ running' \in Seq(States) /\ Len(running') <= 1
    BY <1>3, <1>6
  <2>. QED  BY <1>4, <2>1, Zenon DEF ArmInvariant, OneCommandAtATime
<1>7. CASE a.started # << >>
  <2>1. ~arm.locked /\ a.locked /\ a.started = <<a.armed>>
    BY <1>2, <1>7, Zenon DEF Watched
  <2>2. running = << >>
    BY <1>1, <2>1, Zenon
  <2>3. a.started \in Seq(States)
    BY <1>2 DEF Arms
  <2>4. /\ running' \in Seq(States) /\ Len(running') <= 1 /\ running'[1] = a.armed
    BY <1>3, <2>1, <2>2, <2>3, SMTT(60)
  <2>5. arm'.locked
    BY <1>4, <2>1
  <2>6. running'[1] = arm'.armed
    BY <1>4, <2>4, Zenon
  <2>. QED  BY <1>4, <2>4, <2>5, <2>6, Zenon DEF ArmInvariant, OneCommandAtATime
<1>. QED  BY <1>5, <1>6, <1>7, Zenon

(* The end of a command opens the lock. *)
LEMMA ArmEnds ==
    ASSUME ArmInvariant, CommandEnds
    PROVE  ArmInvariant'
<1>1. arm \in Arms /\ arm.started = << >> /\ running \in Seq(States) /\ Len(running) <= 1
  BY Zenon DEF ArmInvariant, OneCommandAtATime
<1>2. running # << >> /\ running' = Tail(running) /\ arm' = [arm EXCEPT !.locked = FALSE]
  BY Zenon DEF CommandEnds
<1>3. arm' \in Arms /\ arm'.started = << >>
  BY <1>1, <1>2, ZenonT(60) DEF Arms
<1>4. running' = << >> /\ running' \in Seq(States) /\ Len(running') <= 1
  BY <1>1, <1>2
<1>. QED  BY <1>3, <1>4, Zenon DEF ArmInvariant, OneCommandAtATime

(* Every step keeps the watcher in order. *)
LEMMA ArmStep == LineInvariant /\ ArmInvariant /\ [Next]_vars => ArmInvariant'
<1> SUFFICES ASSUME LineInvariant, ArmInvariant, [Next]_vars PROVE ArmInvariant'
  BY Zenon
<1>0. arm.locked \in BOOLEAN /\ arm \in Guarded(arm.locked, arm.armed)
  BY ArmGuarded, Zenon
<1>1. CASE ReadChunk
  <2>1. PICK c \in Chunks :
          Drain(c) /\ Watch(arm_hook(arm, Feed(fsm, SubSeq(line, 1, Taken(c))).frames))
    BY <1>1, Zenon DEF ReadChunk
  <2>2. Feed(fsm, SubSeq(line, 1, Taken(c))).frames \in Seq(Bytes)
    <3>1. SubSeq(line, 1, Taken(c)) \in Bytes /\ fsm \in Parsers
      BY <2>1, ChunkTaken, Zenon DEF LineInvariant
    <3>. QED  BY <3>1, FeedTyped, Zenon
  <2>. QED  BY <1>0, <2>1, <2>2, HookGuarded, ArmWatch, Zenon
<1>2. CASE Write
  <2>1. PICK d \in Writes : Watch(arm_dataReceived(arm, d))
    BY <1>2, Zenon DEF Write
  <2>2. d \in Bytes
    BY MavlinkAssumption, ZenonT(60) DEF Bytes, Byte
  <2>. QED  BY <1>0, <2>1, <2>2, DataGuarded, ArmWatch, Zenon
<1>3. CASE CommandEnds
  BY <1>3, ArmEnds, Zenon
<1>4. CASE Beat \/ EmitOther \/ EmitNoise \/ Switch \/ Flush \/ UNCHANGED vars
  <2>1. arm' = arm /\ running' = running
    BY <1>4, Zenon DEF Beat, EmitOther, EmitNoise, Emit, Switch, Flush, vars
  <2>. QED  BY <2>1, Zenon DEF ArmInvariant, OneCommandAtATime
<1>. QED  BY <1>1, <1>2, <1>3, <1>4, Zenon DEF Next

(* OneCommandAtATime: however many heartbeats arrive in a chunk, from the     *)
(* autopilot or through write, MavlinkARMProtocol runs at most one command,   *)
(* the one of the state it recorded, and keeps its lock closed meanwhile.     *)
THEOREM OneCommandAlways == Spec => []OneCommandAtATime
<1>1. ArmInvariant => OneCommandAtATime
  BY Zenon DEF ArmInvariant
<1>. QED  BY <1>1, LineInit, LineStep, ArmInit, ArmStep, PTL DEF Spec

=============================================================================
