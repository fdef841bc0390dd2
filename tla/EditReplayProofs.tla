--------------------------- MODULE EditReplayProofs ---------------------------
(***************************************************************************)
(* Proofs about EditReplay, for texts of any length over any set of words  *)
(* and any number of filters: what is recorded of two texts is replayed to *)
(* the second one, a filter keeps the lines it takes away, and the edits a *)
(* stage ends with name every line that is gone.                           *)
(*                                                                         *)
(* The module first says what flattening, recording, and the strict and    *)
(* the lenient replay compute, by induction over the lines (UpTo), and     *)
(* then that every action leaves a result edits recorded of the text the   *)
(* policy has read, or edits without line breaks, which have no line in it *)
(* (ReplayInv).  The last part is about StateFrames,                       *)
(* whose shards are pieces of a payload that are put together again as the *)
(* lines of a text are (FlattenJoins).                                     *)
(***************************************************************************)
EXTENDS EditReplay, StateFrames, TLAPS, FiniteSetTheorems, SequenceTheorems, WellFoundedInduction

Text == Seq(Line)

(* The lines that have a break, and the texts that end every line. *)
Whole     == {line \in Line : Ends(line)}
WholeText == Seq(Whole)

(* A set of numbers that is not empty has a least element. *)
LEMMA LeastOf ==
  ASSUME NEW S \in SUBSET Nat, S # {}
  PROVE  \E m \in S : \A k \in S : m <= k
<1> DEFINE R == {p \in Nat \X Nat : p[1] < p[2]}
<1>1. IsWellFoundedOn(R, Nat)
  BY NatLessThanWellFounded DEF OpToRel
<1>2. \A k, m \in Nat : <<k, m>> \notin R => m <= k
  OBVIOUS
<1> HIDE DEF R
<1>3. \E m \in S : \A k \in S : <<k, m>> \notin R
  BY <1>1, WFMin
<1> QED
  BY <1>2, <1>3

(* What holds of 0 and of every number next to one it holds of holds up to n. *)
LEMMA UpTo ==
  ASSUME NEW n \in Nat, NEW S \in SUBSET Nat, 0 \in S,
         \A k \in 1 .. n : k - 1 \in S => k \in S
  PROVE  \A k \in 0 .. n : k \in S
<1> DEFINE Bad == {k \in 0 .. n : k \notin S}
<1>1. ASSUME Bad # {} PROVE FALSE
  <2>0. Bad \in SUBSET Nat
    OBVIOUS
  <2>1. PICK m \in Bad : \A k \in Bad : m <= k
    <3> HIDE DEF Bad
    <3> QED
      BY <1>1, <2>0, LeastOf
  <2>2. m \in 1 .. n /\ m \notin S /\ m - 1 \in 0 .. n
    BY <2>1
  <2>3. m - 1 \notin Bad
    BY <2>1, <2>2
  <2> QED
    BY <2>2, <2>3
<1> QED
  BY <1>1

(* A set of numbers up to n has a greatest element. *)
LEMMA GreatestOf ==
  ASSUME NEW n \in Nat, NEW S \in SUBSET (0 .. n), S # {}
  PROVE  Max(S) \in S /\ \A k \in S : k <= Max(S)
<1> DEFINE U == {u \in Nat : \A k \in S : k <= u}
<1>1. U # {}
  <2>1. n \in U
    OBVIOUS
  <2> QED
    BY <2>1
<1>2. PICK m \in U : \A u \in U : m <= u
  BY <1>1, LeastOf
<1>3. m \in S
  <2> SUFFICES ASSUME m \notin S PROVE FALSE
    OBVIOUS
  <2>1. PICK k \in S : TRUE
    OBVIOUS
  <2>2. m \in Nat /\ k \in Nat /\ k <= m /\ k # m
    BY <1>2, <2>1
  <2>3. m - 1 \in Nat /\ \A j \in S : j <= m - 1
    BY <1>2, <2>2
  <2>4. m - 1 \in U
    BY <2>3
  <2> QED
    BY <1>2, <2>2, <2>4
<1>4. m \in S /\ \A y \in S : m >= y
  BY <1>2, <1>3
<1>5. Max(S) \in S /\ \A y \in S : Max(S) >= y
  BY <1>4 DEF Max
<1> QED
  BY <1>5

LEMMA Concatenated ==
  ASSUME NEW S, NEW s \in Seq(S), NEW t \in Seq(S), NEW u, u = s \o t
  PROVE  /\ u \in Seq(S) /\ Len(s) \in Nat /\ Len(t) \in Nat /\ Len(u) = Len(s) + Len(t)
         /\ DOMAIN u = 1 .. (Len(s) + Len(t))
         /\ \A i \in 1 .. Len(s) : u[i] = s[i]
         /\ \A i \in 1 .. Len(t) : u[Len(s) + i] = t[i]
<1>1. /\ u \in Seq(S) /\ Len(u) = Len(s) + Len(t)
      /\ \A i \in 1 .. Len(u) : u[i] = IF i <= Len(s) THEN s[i] ELSE t[i - Len(s)]
  BY ConcatProperties
<1>2. Len(s) \in Nat /\ Len(t) \in Nat /\ DOMAIN u = 1 .. Len(u)
  BY <1>1
<1>3. ASSUME NEW i \in 1 .. Len(t) PROVE u[Len(s) + i] = t[i]
  <2>1. Len(s) + i \in 1 .. Len(u) /\ ~(Len(s) + i <= Len(s)) /\ Len(s) + i - Len(s) = i
    BY <1>1, <1>2
  <2> QED
    BY <1>1, <2>1
<1>4. ASSUME NEW i \in 1 .. Len(s) PROVE u[i] = s[i]
  <2>1. i \in 1 .. Len(u) /\ i <= Len(s)
    BY <1>1, <1>2
  <2> QED
    BY <1>1, <2>1
<1> QED
  BY <1>1, <1>2, <1>3, <1>4

-----------------------------------------------------------------------------
(* Flattening                                                              *)

(* The beginnings of what is put together. *)
Pieces(seqs, F) ==
  /\ F[0] = << >>
  /\ \A i \in 1 .. Len(seqs) : F[i] = F[i - 1] \o seqs[i]

LEMMA FlattenBuilds ==
  ASSUME NEW S, NEW seqs \in Seq(Seq(S))
  PROVE  \E F \in [0 .. Len(seqs) -> Seq(S)] :
           Pieces(seqs, F) /\ FlattenSeq(seqs) = F[Len(seqs)]
<1> DEFINE n == Len(seqs)
           Good == {k \in Nat : \E F \in [0 .. k -> Seq(S)] :
                      F[0] = << >> /\ \A i \in 1 .. k : i <= n => F[i] = F[i - 1] \o seqs[i]}
<1>0. n \in Nat /\ \A i \in 1 .. n : seqs[i] \in Seq(S)
  OBVIOUS
<1>1. 0 \in Good
  <2> DEFINE F == [i \in 0 .. 0 |-> << >>]
  <2>1. F \in [0 .. 0 -> Seq(S)] /\ F[0] = << >>
    BY EmptySeq
  <2> HIDE DEF F
  <2>2. \E H \in [0 .. 0 -> Seq(S)] : H[0] = << >> /\ \A i \in 1 .. 0 : i <= n => H[i] = H[i - 1] \o seqs[i]
    BY <2>1
  <2> QED
    BY <2>2
<1>2. ASSUME NEW k \in 1 .. n, k - 1 \in Good PROVE k \in Good
  <2>1. PICK F \in [0 .. (k - 1) -> Seq(S)] :
          F[0] = << >> /\ \A i \in 1 .. (k - 1) : i <= n => F[i] = F[i - 1] \o seqs[i]
    BY <1>2
  <2> DEFINE G == [i \in 0 .. k |-> IF i = k THEN F[k - 1] \o seqs[k] ELSE F[i]]
  <2>2. F[k - 1] \in Seq(S) /\ seqs[k] \in Seq(S)
    BY <1>0
  <2>3. F[k - 1] \o seqs[k] \in Seq(S)
    BY <2>2
  <2>4. G \in [0 .. k -> Seq(S)]
    BY <2>3
  <2>5. G[0] = << >>
    BY <2>1
  <2>6. ASSUME NEW i \in 1 .. k PROVE G[i] = G[i - 1] \o seqs[i]
    <3>1. CASE i = k
      <4>1. k \in 0 .. k /\ k - 1 \in 0 .. k /\ k - 1 # k
        BY <1>0
      <4>2. G[k] = F[k - 1] \o seqs[k] /\ G[k - 1] = F[k - 1]
        BY <4>1
      <4> QED
        BY <3>1, <4>2
    <3>2. CASE i # k
      <4>1. i \in 1 .. (k - 1) /\ i - 1 \in 0 .. (k - 1) /\ i <= n /\ i \in 0 .. k /\ i - 1 \in 0 .. k /\ i - 1 # k
        BY <3>2, <1>0
      <4>2. G[i] = F[i] /\ G[i - 1] = F[i - 1]
        BY <3>2, <4>1
      <4> HIDE DEF G
      <4> QED
        BY <2>1, <4>1, <4>2
    <3> QED
      BY <3>1, <3>2
  <2> HIDE DEF G
  <2>7. \E H \in [0 .. k -> Seq(S)] : H[0] = << >> /\ \A i \in 1 .. k : i <= n => H[i] = H[i - 1] \o seqs[i]
    BY <2>4, <2>5, <2>6
  <2>8. k \in Nat
    BY <1>0
  <2> QED
    BY <2>7, <2>8
<1>3. n \in Good
  <2>1. Good \in SUBSET Nat
    OBVIOUS
  <2> HIDE DEF Good, n
  <2>2. \A k \in 1 .. n : k - 1 \in Good => k \in Good
    BY <1>2
  <2>3. \A k \in 0 .. n : k \in Good
    BY <1>0, <1>1, <2>1, <2>2, UpTo
  <2> QED
    BY <1>0, <2>3
<1>4. PICK F \in [0 .. n -> Seq(S)] : F[0] = << >> /\ \A i \in 1 .. n : F[i] = F[i - 1] \o seqs[i]
  <2>1. PICK F \in [0 .. n -> Seq(S)] :
          F[0] = << >> /\ \A i \in 1 .. n : i <= n => F[i] = F[i - 1] \o seqs[i]
    BY <1>3
  <2> HIDE DEF n
  <2>2. \A i \in 1 .. n : i <= n
    BY <1>0
  <2> QED
    BY <2>1, <2>2
<1>5. Pieces(seqs, F)
  BY <1>4 DEF Pieces
<1>b. n # 0 => 1 \in 1 .. n /\ F[1] = seqs[1]
  <2> SUFFICES ASSUME n # 0 PROVE 1 \in 1 .. n /\ F[1] = seqs[1]
    OBVIOUS
  <2>1. 1 \in 1 .. n
    BY <1>0
  <2>2. F[1] = F[1 - 1] \o seqs[1] /\ seqs[1] \in Seq(S)
    BY <1>0, <1>4, <2>1
  <2>a. F[1 - 1] = << >>
    BY <1>4
  <2>3. F[1] = << >> \o seqs[1]
    BY <2>a, <2>2
  <2>4. << >> \o seqs[1] = seqs[1]
    BY <2>2, ConcatEmptySeq
  <2> QED
    BY <2>1, <2>3, <2>4
<1> HIDE DEF n
<1>6. FlattenSeq(seqs) = F[n]
  <2>1. CASE n = 0
    <3>1. seqs = << >>
      BY <2>1 DEF n
    <3> QED
      BY <1>4, <2>1, <3>1 DEF FlattenSeq, n
  <2>2. CASE n # 0
    <3> DEFINE f == CHOOSE f : f = [i \in 1 .. n |-> IF i = 1 THEN seqs[i] ELSE f[i - 1] \o seqs[i]]
               g == [i \in 1 .. n |-> F[i]]
    <3>1. FlattenSeq(seqs) = f[n]
      BY <2>2 DEF FlattenSeq, n
    <3>2. ASSUME NEW i \in 1 .. n PROVE g[i] = IF i = 1 THEN seqs[i] ELSE g[i - 1] \o seqs[i]
      <4>1. CASE i = 1
        BY <1>b, <2>2, <4>1
      <4>2. CASE i # 1
        <5>1. i - 1 \in 1 .. n
          BY <1>0, <4>2
        <5> QED
          BY <1>4, <4>2, <5>1
      <4> QED
        BY <4>1, <4>2
    <3>3. g = [i \in 1 .. n |-> g[i]]
      OBVIOUS
    <3>4. g[n] = F[n]
      BY <1>0, <2>2
    <3> HIDE DEF g
    <3>5. g = [i \in 1 .. n |-> IF i = 1 THEN seqs[i] ELSE g[i - 1] \o seqs[i]]
      BY <3>2, <3>3
    <3>6. f = [i \in 1 .. n |-> IF i = 1 THEN seqs[i] ELSE f[i - 1] \o seqs[i]]
      BY <3>5
    <3> HIDE DEF f
    <3> DEFINE Same == {k \in Nat : k = 0 \/ (k <= n => f[k] = F[k])}
    <3>7. ASSUME NEW k \in 1 .. n, k - 1 \in Same PROVE k \in Same
      <4>1. CASE k = 1
        <5>1. f[1] = seqs[1]
          BY <3>6, <4>1
        <5> QED
          BY <1>b, <2>2, <4>1, <5>1
      <4>2. CASE k # 1
        <5>1. k - 1 \in 1 .. n /\ f[k - 1] = F[k - 1]
          BY <1>0, <3>7, <4>2
        <5>2. f[k] = f[k - 1] \o seqs[k]
          BY <3>6, <4>2
        <5>3. F[k] = F[k - 1] \o seqs[k]
          BY <1>4
        <5>a. k \in Nat
          BY <1>0
        <5>4. f[k] = F[k]
          BY <5>1, <5>2, <5>3
        <5> QED
          BY <5>a, <5>4
      <4> QED
        BY <4>1, <4>2
    <3>8. n \in Same
      <4>1. 0 \in Same /\ Same \in SUBSET Nat
        OBVIOUS
      <4> HIDE DEF Same, n
      <4>2. \A k \in 1 .. n : k - 1 \in Same => k \in Same
        BY <3>7
      <4>3. \A k \in 0 .. n : k \in Same
        BY <1>0, <4>1, <4>2, UpTo
      <4> QED
        BY <1>0, <4>3
    <3> QED
      BY <1>0, <2>2, <3>1, <3>8
  <2> QED
    BY <2>1, <2>2
<1> QED
  BY <1>5, <1>6 DEF n

(* What is cut into stretches is put together by flattening. *)
LEMMA FlattenJoins ==
  ASSUME NEW S, NEW text \in Seq(S), NEW seqs \in Seq(Seq(S)),
         NEW cut \in [0 .. Len(seqs) -> 0 .. Len(text)], cut[0] = 0,
         \A i \in 1 .. Len(seqs) :
           cut[i - 1] <= cut[i] /\ seqs[i] = SubSeq(text, cut[i - 1] + 1, cut[i])
  PROVE  FlattenSeq(seqs) = SubSeq(text, 1, cut[Len(seqs)])
<1> DEFINE n == Len(seqs)
<1>0. n \in Nat /\ Len(text) \in Nat
  OBVIOUS
<1>1. PICK F \in [0 .. n -> Seq(S)] : Pieces(seqs, F) /\ FlattenSeq(seqs) = F[n]
  BY FlattenBuilds
<1> DEFINE Same == {k \in Nat : k <= n => F[k] = SubSeq(text, 1, cut[k])}
<1>2. 0 \in Same
  <2>1. SubSeq(text, 1, 0) = << >>
    BY SubSeqEmpty
  <2> QED
    BY <1>1, <2>1 DEF Pieces
<1>3. ASSUME NEW k \in 1 .. n, k - 1 \in Same PROVE k \in Same
  <2>1. k - 1 \in 0 .. n /\ k \in 0 .. n
    BY <1>0
  <2>2. cut[k - 1] \in 0 .. Len(text) /\ cut[k] \in 0 .. Len(text) /\ cut[k - 1] <= cut[k]
    BY <2>1
  <2>a. 1 \in 1 .. Len(text) + 1 /\ cut[k - 1] \in 1 - 1 .. Len(text) /\ cut[k] \in cut[k - 1] .. Len(text)
    BY <1>0, <2>2
  <2>3. SubSeq(text, 1, cut[k - 1]) \o SubSeq(text, cut[k - 1] + 1, cut[k]) = SubSeq(text, 1, cut[k])
    BY <2>a, ConcatAdjacentSubSeq
  <2>4. F[k - 1] = SubSeq(text, 1, cut[k - 1])
    BY <1>0, <1>3
  <2>5. F[k] = F[k - 1] \o seqs[k] /\ seqs[k] = SubSeq(text, cut[k - 1] + 1, cut[k])
    BY <1>1 DEF Pieces
  <2>6. F[k] = SubSeq(text, 1, cut[k])
    BY <2>3, <2>4, <2>5
  <2>7. k \in Nat
    BY <1>0
  <2> QED
    BY <2>6, <2>7
<1>4. n \in Same
  <2>1. Same \in SUBSET Nat
    OBVIOUS
  <2> HIDE DEF Same, n
  <2>2. \A k \in 1 .. n : k - 1 \in Same => k \in Same
    BY <1>3
  <2>3. \A k \in 0 .. n : k \in Same
    BY <1>0, <1>2, <2>1, <2>2, UpTo
  <2> QED
    BY <1>0, <2>3
<1> QED
  BY <1>0, <1>1, <1>4

Begins(s, t) == Len(s) <= Len(t) /\ \A x \in 1 .. Len(s) : t[x] = s[x]

LEMMA BeginsLonger ==
  ASSUME NEW S, NEW s \in Seq(S), NEW t \in Seq(S), NEW more \in Seq(S), Begins(s, t)
  PROVE  Begins(s, t \o more)
<1>1. Len(s) \in Nat
  OBVIOUS
<1> DEFINE u == t \o more
<1>2. u = t \o more
  OBVIOUS
<1> HIDE DEF u
<1>3. /\ Len(t) \in Nat /\ Len(more) \in Nat /\ Len(u) = Len(t) + Len(more)
      /\ \A i \in 1 .. Len(t) : u[i] = t[i]
  BY <1>2, Concatenated
<1>4. \A i \in 1 .. Len(s) : i \in 1 .. Len(t) /\ t[i] = s[i]
  BY <1>1, <1>3 DEF Begins
<1>5. Len(s) <= Len(u) /\ \A i \in 1 .. Len(s) : u[i] = s[i]
  <2>1. Len(s) <= Len(t)
    BY DEF Begins
  <2> QED
    BY <1>1, <1>3, <1>4, <2>1
<1> QED
  BY <1>2, <1>5 DEF Begins

(* What has been put together stays at the beginning. *)
LEMMA FlattenGrows ==
  ASSUME NEW S, NEW seqs \in Seq(Seq(S)), NEW F \in [0 .. Len(seqs) -> Seq(S)],
         Pieces(seqs, F), NEW i \in 0 .. Len(seqs), NEW j \in i .. Len(seqs)
  PROVE  Begins(F[i], F[j])
<1> DEFINE n == Len(seqs)
           Good == {d \in Nat : i + d <= n => Begins(F[i], F[i + d])}
<1>0. n \in Nat /\ \A k \in 0 .. n : F[k] \in Seq(S) /\ Len(F[k]) \in Nat
  <2>1. n \in Nat
    OBVIOUS
  <2>2. \A k \in 0 .. n : F[k] \in Seq(S)
    OBVIOUS
  <2> QED
    BY <2>1, <2>2
<1>1. 0 \in Good
  <2>1. i + 0 = i /\ Begins(F[i], F[i])
    BY <1>0 DEF Begins
  <2> QED
    BY <2>1
<1>2. ASSUME NEW d \in 1 .. n, d - 1 \in Good PROVE d \in Good
  <2> SUFFICES ASSUME i + d <= n PROVE Begins(F[i], F[i + d])
    BY <1>0
  <2>1. PICK c \in 1 .. n : c = i + d /\ c - 1 = i + (d - 1) /\ c - 1 \in 0 .. n /\ i + (d - 1) <= n
    BY <1>0
  <2>2. Begins(F[i], F[c - 1])
    BY <1>2, <2>1
  <2>3. F[c] = F[c - 1] \o seqs[c]
    BY DEF Pieces
  <2>4. F[c - 1] \in Seq(S) /\ seqs[c] \in Seq(S) /\ F[i] \in Seq(S)
    <3>1. c \in 1 .. Len(seqs) /\ c - 1 \in 0 .. n /\ i \in 0 .. n
      BY <2>1
    <3>2. seqs[c] \in Seq(S)
      BY <3>1
    <3> HIDE DEF Good
    <3> QED
      BY <1>0, <3>1, <3>2
  <2>5. Begins(F[i], F[c - 1] \o seqs[c])
    BY <2>2, <2>4, BeginsLonger
  <2> QED
    BY <2>1, <2>3, <2>5
<1>3. \A d \in 0 .. n : d \in Good
  <2>1. Good \in SUBSET Nat
    OBVIOUS
  <2> HIDE DEF Good, n
  <2>2. \A d \in 1 .. n : d - 1 \in Good => d \in Good
    BY <1>2
  <2> QED
    BY <1>0, <1>1, <2>1, <2>2, UpTo
<1>4. j - i \in 0 .. n /\ i + (j - i) = j /\ j <= n
  BY <1>0
<1>5. Begins(F[i], F[j])
  <2>1. j - i \in Good
    BY <1>3, <1>4
  <2> QED
    BY <1>4, <2>1
<1> QED
  BY <1>5

-----------------------------------------------------------------------------
(* Lines that survive                                                      *)

LEMMA SurvivesItself == ASSUME NEW s \in Text, NEW lines PROVE Survive(s, lines, s)
<1> DEFINE place == [l \in lines \cap DOMAIN s |-> l]
<1>1. /\ place \in [lines \cap DOMAIN s -> DOMAIN s]
      /\ \A l \in lines \cap DOMAIN s : s[place[l]] = s[l]
      /\ \A k, l \in lines \cap DOMAIN s : k < l => place[k] < place[l]
  OBVIOUS
<1> HIDE DEF place
<1> QED
  BY <1>1 DEF Survive

LEMMA SurvivesNothing == ASSUME NEW s, NEW t PROVE Survive(s, {}, t)
<1> DEFINE place == [l \in {} |-> l]
<1>1. place \in [{} -> DOMAIN t]
  OBVIOUS
<1>2. {} \cap DOMAIN s = {}
  OBVIOUS
<1> HIDE DEF place
<1> QED
  BY <1>1, <1>2 DEF Survive

(* The lines up to j survive in t: those up to k do when they are copied to it. *)
LEMMA SurvivesCopying ==
  ASSUME NEW s \in Text, NEW t \in Text, NEW cut, NEW j \in 0 .. Len(s), NEW k \in j .. Len(s),
         Survive(s, (1 .. j) \ cut, t)
  PROVE  Survive(s, (1 .. k) \ cut, t \o SubSeq(s, j + 1, k))
<1> DEFINE u == t \o SubSeq(s, j + 1, k)
           old == ((1 .. j) \ cut) \cap DOMAIN s
           new == ((1 .. k) \ cut) \cap DOMAIN s
<1>1. PICK place \in [old -> DOMAIN t] :
        /\ \A l \in old : t[place[l]] = s[l]
        /\ \A i, l \in old : i < l => place[i] < place[l]
  BY DEF Survive
<1> DEFINE moved == [l \in new |-> IF l <= j THEN place[l] ELSE Len(t) + l - j]
<1>2. /\ Len(s) \in Nat /\ Len(t) \in Nat /\ DOMAIN s = 1 .. Len(s) /\ DOMAIN t = 1 .. Len(t)
      /\ \A l \in 1 .. Len(s) : s[l] \in Line
  BY DEF Text
<1>3. /\ SubSeq(s, j + 1, k) \in Text /\ Len(SubSeq(s, j + 1, k)) = k - j
      /\ \A i \in 1 .. (k - j) : SubSeq(s, j + 1, k)[i] = s[j + i]
  <2>1. \A i \in (j + 1) .. k : s[i] \in Line
    BY <1>2
  <2>2. /\ SubSeq(s, j + 1, k) \in Seq(Line)
        /\ Len(SubSeq(s, j + 1, k)) = IF j + 1 <= k THEN k - (j + 1) + 1 ELSE 0
        /\ \A i \in 1 .. (k - (j + 1) + 1) : SubSeq(s, j + 1, k)[i] = s[(j + 1) + i - 1]
    BY <2>1, SubSeqProperties
  <2> QED
    BY <2>2 DEF Text
<1>4. /\ u \in Text /\ DOMAIN u = 1 .. (Len(t) + k - j)
      /\ \A i \in 1 .. Len(t) : u[i] = t[i]
      /\ \A i \in 1 .. (k - j) : u[Len(t) + i] = s[j + i]
  <2> DEFINE v == SubSeq(s, j + 1, k)
  <2>1. v \in Seq(Line) /\ t \in Seq(Line) /\ Len(v) = k - j /\ u = t \o v
    BY <1>3 DEF Text
  <2>2. \A i \in 1 .. (k - j) : v[i] = s[j + i]
    BY <1>3
  <2> HIDE DEF v, u
  <2>3. /\ u \in Seq(Line) /\ Len(t) \in Nat /\ Len(v) \in Nat /\ Len(u) = Len(t) + Len(v)
        /\ DOMAIN u = 1 .. (Len(t) + Len(v))
        /\ \A i \in 1 .. Len(t) : u[i] = t[i]
        /\ \A i \in 1 .. Len(v) : u[Len(t) + i] = v[i]
    BY <2>1, Concatenated
  <2>4. Len(t) + Len(v) = Len(t) + k - j
    BY <1>2, <2>1
  <2> QED
    BY <2>1, <2>2, <2>3, <2>4 DEF Text
<1>5. \A l \in new : IF l <= j THEN l \in old ELSE l - j \in 1 .. (k - j)
  BY <1>2
<1>6. \A l \in old : place[l] \in 1 .. Len(t)
  BY <1>1, <1>2
<1> HIDE DEF u
<1>7. moved \in [new -> DOMAIN u]
  BY <1>2, <1>4, <1>5, <1>6
<1>8. ASSUME NEW l \in new PROVE u[moved[l]] = s[l]
  <2>1. CASE l <= j
    <3>1. moved[l] = place[l] /\ place[l] \in 1 .. Len(t) /\ t[place[l]] = s[l]
      BY <1>1, <1>5, <1>6, <2>1
    <3> QED
      BY <1>4, <3>1
  <2>2. CASE ~(l <= j)
    <3>1. moved[l] = Len(t) + (l - j) /\ l - j \in 1 .. (k - j) /\ j + (l - j) = l
      BY <1>2, <1>5, <2>2
    <3> QED
      BY <1>4, <3>1
  <2> QED
    BY <2>1, <2>2
<1>9. ASSUME NEW i \in new, NEW l \in new, i < l PROVE moved[i] < moved[l]
  <2>1. CASE l <= j
    BY <1>1, <1>2, <1>5, <1>9, <2>1
  <2>2. CASE ~(l <= j) /\ i <= j
    <3>1. moved[i] \in 1 .. Len(t) /\ moved[l] = Len(t) + l - j
      BY <1>5, <1>6, <2>2
    <3> QED
      BY <1>2, <2>2, <3>1
  <2>3. CASE ~(l <= j) /\ ~(i <= j)
    BY <1>2, <1>9, <2>3
  <2> QED
    BY <2>1, <2>2, <2>3
<1> HIDE DEF moved
<1> QED
  BY <1>7, <1>8, <1>9 DEF Survive, u

-----------------------------------------------------------------------------
(* What is recorded                                                        *)

(* A line before the last s lines. *)
Leading(text, s, l) == IF l <= Len(text) - s THEN text[l] ELSE NoLine

Recording(edits, b, a, p, s) ==
  /\ p \in Nat /\ s \in Nat /\ p + s <= Len(b) /\ p + s <= Len(a)
  /\ \A l \in 1 .. p : b[l] = a[l]
  /\ \A i \in 0 .. (s - 1) : b[Len(b) - i] = a[Len(a) - i]
  /\ DOMAIN edits = {l \in (p + 1) .. (Longer(b, a) - s) : Leading(b, s, l) # Leading(a, s, l)}
  /\ \A l \in DOMAIN edits : edits[l] = [before |-> Leading(b, s, l), after |-> Leading(a, s, l)]

LEMMA TextFacts ==
  ASSUME NEW s \in Text
  PROVE  /\ Len(s) \in Nat /\ DOMAIN s = 1 .. Len(s)
         /\ \A l \in 1 .. Len(s) : s[l] \in Line /\ s[l] # NoLine
BY DEF Text, Line

LEMMA WholeFacts ==
  ASSUME NEW s \in WholeText
  PROVE  /\ s \in Text /\ Len(s) \in Nat /\ DOMAIN s = 1 .. Len(s)
         /\ \A l \in 1 .. Len(s) : s[l] \in Whole /\ Ends(s[l])
<1>1. /\ Len(s) \in Nat /\ DOMAIN s = 1 .. Len(s)
      /\ \A l \in 1 .. Len(s) : s[l] \in Whole /\ Ends(s[l])
  BY DEF WholeText, Whole
<1>2. s \in [1 .. Len(s) -> Line]
  <2>1. s = [l \in 1 .. Len(s) |-> s[l]]
    BY <1>1 DEF WholeText
  <2>2. \A l \in 1 .. Len(s) : s[l] \in Line
    BY <1>1 DEF Whole
  <2> QED
    BY <2>1, <2>2
<1> QED
  BY <1>1, <1>2 DEF Text

(* Lines pushed behind a text are lines of a text; behind a text that ends *)
(* all of its lines they stay what they are.                               *)
LEMMA JoinedIsText ==
  ASSUME NEW t \in Text, NEW u \in Text
  PROVE  Joined(t, u) \in Text
<1>1. CASE t = << >> \/ u = << >> \/ Ends(Last(t))
  BY <1>1 DEF Joined, Text
<1>2. CASE t # << >> /\ u # << >> /\ ~Ends(Last(t))
  <2>1. Joined(t, u) = Front(t) \o << Last(t) \o Head(u) >> \o Tail(u)
    BY <1>2 DEF Joined
  <2>2. Last(t) \in Line /\ Head(u) \in Line /\ Tail(u) \in Seq(Line) /\ Front(t) \in Seq(Line)
    <3>1. Len(t) \in 1 .. Len(t) /\ Last(t) = t[Len(t)]
      BY <1>2 DEF Last, Text
    <3>2. Front(t) = SubSeq(t, 1, Len(t) - 1)
      BY DEF Front
    <3> QED
      BY <1>2, <3>1, <3>2 DEF Text
  <2>3. Last(t) \o Head(u) \in Line
    <3>1. \A x, y \in Seq(Words \cup {End}) :
            x # << >> => x \o y \in Seq(Words \cup {End}) /\ x \o y # << >>
      OBVIOUS
    <3> QED
      BY <2>2, <3>1 DEF Line, NoLine
  <2>4. << Last(t) \o Head(u) >> \in Seq(Line)
    BY <2>3
  <2> QED
    BY <2>1, <2>2, <2>4 DEF Text
<1> QED
  BY <1>1, <1>2

LEMMA JoinedBehindWhole ==
  ASSUME NEW t \in WholeText, NEW u
  PROVE  Joined(t, u) = t \o u
<1>1. t = << >> \/ Ends(Last(t))
  BY WholeFacts DEF Last, WholeText
<1> QED
  BY <1>1 DEF Joined

(* Texts of whole lines are closed under it. *)
LEMMA JoinedKeeps ==
  ASSUME NEW C \in {Line, Whole}, NEW t \in Seq(C), NEW u \in Seq(C)
  PROVE  Joined(t, u) \in Seq(C)
<1>1. CASE C = Line
  BY <1>1, JoinedIsText DEF Text
<1>2. CASE C = Whole
  <2>1. t \in WholeText /\ t \o u \in Seq(C)
    BY <1>2 DEF WholeText
  <2> QED
    BY <2>1, JoinedBehindWhole
<1> QED
  BY <1>1, <1>2

LEMMA Lengths ==
  ASSUME NEW b \in Text, NEW a \in Text
  PROVE  /\ Shorter(b, a) \in Nat /\ Shorter(b, a) <= Len(b) /\ Shorter(b, a) <= Len(a)
         /\ Longer(b, a) \in Nat /\ Longer(b, a) >= Len(b) /\ Longer(b, a) >= Len(a)
         /\ Longer(b, a) \in {Len(a), Len(b)}
<1>1. Len(b) \in Nat /\ Len(a) \in Nat
  BY TextFacts
<1> QED
  BY <1>1 DEF Shorter, Longer

LEMMA Prefix ==
  ASSUME NEW b \in Text, NEW a \in Text
  PROVE  /\ CommonPrefix(b, a) \in 0 .. Shorter(b, a)
         /\ \A l \in 1 .. CommonPrefix(b, a) : b[l] = a[l]
<1> DEFINE S == {k \in 0 .. Shorter(b, a) : \A l \in 1 .. k : b[l] = a[l]}
<1>1. Shorter(b, a) \in Nat
  BY Lengths
<1>2. 0 \in S /\ S \in SUBSET (0 .. Shorter(b, a))
  BY <1>1
<1>3. CommonPrefix(b, a) = Max(S)
  BY DEF CommonPrefix
<1>4. Max(S) \in S
  <2> HIDE DEF S
  <2>1. S # {}
    BY <1>2
  <2> QED
    BY <1>1, <1>2, <2>1, GreatestOf
<1> QED
  BY <1>3, <1>4

LEMMA Suffix ==
  ASSUME NEW b \in Text, NEW a \in Text
  PROVE  /\ CommonSuffix(b, a) \in 0 .. (Shorter(b, a) - CommonPrefix(b, a))
         /\ \A i \in 0 .. (CommonSuffix(b, a) - 1) : b[Len(b) - i] = a[Len(a) - i]
<1> DEFINE free == Shorter(b, a) - CommonPrefix(b, a)
           S == {k \in 0 .. free : \A i \in 0 .. (k - 1) : b[Len(b) - i] = a[Len(a) - i]}
<1>1. free \in Nat
  BY Lengths, Prefix
<1>2. 0 \in S /\ S \in SUBSET (0 .. free)
  BY <1>1
<1>3. CommonSuffix(b, a) = Max(S)
  BY DEF CommonSuffix
<1>4. Max(S) \in S
  <2> HIDE DEF S, free
  <2>1. S # {}
    BY <1>2
  <2> QED
    BY <1>1, <1>2, <2>1, GreatestOf
<1> QED
  BY <1>3, <1>4

(* The lines between the common prefix and the common suffix. *)
LEMMA Middle ==
  ASSUME NEW t \in Text, NEW p \in Nat, NEW s \in Nat, p + s <= Len(t)
  PROVE  /\ Len(SubSeq(t, p + 1, Len(t) - s)) = Len(t) - s - p
         /\ \A j \in Nat \ {0} : LineOf(SubSeq(t, p + 1, Len(t) - s), j) = Leading(t, s, p + j)
<1> DEFINE m == SubSeq(t, p + 1, Len(t) - s)
<1>1. Len(t) \in Nat /\ \A l \in 1 .. Len(t) : t[l] \in Line
  BY TextFacts
<1>2. \A l \in (p + 1) .. (Len(t) - s) : t[l] \in Line
  BY <1>1
<1>a. m = SubSeq(t, p + 1, Len(t) - s)
  OBVIOUS
<1>3. /\ m \in Seq(Line)
      /\ Len(m) = IF p + 1 <= Len(t) - s THEN Len(t) - s - (p + 1) + 1 ELSE 0
      /\ \A i \in 1 .. (Len(t) - s - (p + 1) + 1) : m[i] = t[p + 1 + i - 1]
  BY <1>1, <1>2, SubSeqProperties
<1> HIDE DEF m
<1>4. Len(m) = Len(t) - s - p
  BY <1>1, <1>3
<1>5. DOMAIN m = 1 .. (Len(t) - s - p)
  BY <1>3, <1>4
<1>6. ASSUME NEW j \in Nat \ {0} PROVE LineOf(m, j) = Leading(t, s, p + j)
  <2>1. CASE j <= Len(t) - s - p
    <3>1. j \in 1 .. (Len(t) - s - (p + 1) + 1) /\ j \in DOMAIN m /\ p + 1 + j - 1 = p + j /\ p + j <= Len(t) - s
      BY <1>1, <1>5, <2>1
    <3>2. m[j] = t[p + j]
      BY <1>3, <3>1
    <3> QED
      BY <3>1, <3>2 DEF LineOf, Leading
  <2>2. CASE ~(j <= Len(t) - s - p)
    <3>1. j \notin DOMAIN m /\ ~(p + j <= Len(t) - s)
      BY <1>1, <1>5, <2>2
    <3> QED
      BY <3>1 DEF LineOf, Leading
  <2> QED
    BY <1>1, <2>1, <2>2
<1> QED
  BY <1>4, <1>6 DEF m

LEMMA SynthesizeRecords ==
  ASSUME NEW b \in Text, NEW a \in Text
  PROVE  Recording(Synthesize(b, a), b, a, CommonPrefix(b, a), CommonSuffix(b, a))
<1> DEFINE p == CommonPrefix(b, a)
           s == CommonSuffix(b, a)
           old == SubSeq(b, p + 1, Len(b) - s)
           new == SubSeq(a, p + 1, Len(a) - s)
           At == {j \in 1 .. Longer(old, new) : LineOf(old, j) # LineOf(new, j)}
           edits == Synthesize(b, a)
<1>1. /\ p \in Nat /\ s \in Nat /\ p + s <= Len(b) /\ p + s <= Len(a)
      /\ \A l \in 1 .. p : b[l] = a[l]
      /\ \A i \in 0 .. (s - 1) : b[Len(b) - i] = a[Len(a) - i]
  <2>1. p \in 0 .. Shorter(b, a) /\ \A l \in 1 .. p : b[l] = a[l]
    BY Prefix
  <2>2. /\ s \in 0 .. (Shorter(b, a) - p)
        /\ \A i \in 0 .. (s - 1) : b[Len(b) - i] = a[Len(a) - i]
    BY Suffix
  <2>3. /\ Shorter(b, a) \in Nat /\ Shorter(b, a) <= Len(b) /\ Shorter(b, a) <= Len(a)
        /\ Len(b) \in Nat /\ Len(a) \in Nat
    BY Lengths, TextFacts
  <2> HIDE DEF p, s
  <2> QED
    BY <2>1, <2>2, <2>3
<1>2. edits = [l \in {p + i : i \in At} |->
                 [before |-> LineOf(old, l - p), after |-> LineOf(new, l - p)]]
  BY DEF Synthesize
<1> HIDE DEF p, s
<1>3. /\ Len(old) = Len(b) - s - p /\ \A j \in Nat \ {0} : LineOf(old, j) = Leading(b, s, p + j)
      /\ Len(new) = Len(a) - s - p /\ \A j \in Nat \ {0} : LineOf(new, j) = Leading(a, s, p + j)
  <2>2. Len(old) = Len(b) - s - p /\ \A j \in Nat \ {0} : LineOf(old, j) = Leading(b, s, p + j)
    BY <1>1, Middle
  <2>3. Len(new) = Len(a) - s - p /\ \A j \in Nat \ {0} : LineOf(new, j) = Leading(a, s, p + j)
    BY <1>1, Middle
  <2> QED
    BY <2>2, <2>3
<1>4. Longer(old, new) = Longer(b, a) - s - p
  <2>1. Len(b) \in Nat /\ Len(a) \in Nat
    BY TextFacts
  <2> HIDE DEF old, new
  <2> QED
    BY <1>1, <1>3, <2>1 DEF Longer
<1>5. Longer(b, a) \in Nat
  BY Lengths
<1> HIDE DEF old, new, edits
<1>6. {p + i : i \in At} = {l \in (p + 1) .. (Longer(b, a) - s) : Leading(b, s, l) # Leading(a, s, l)}
  <2>1. ASSUME NEW i \in At
        PROVE  p + i \in (p + 1) .. (Longer(b, a) - s) /\ Leading(b, s, p + i) # Leading(a, s, p + i)
    <3>1. /\ i \in 1 .. Longer(old, new) /\ LineOf(old, i) # LineOf(new, i)
          /\ i \in Nat \ {0}
      BY <1>1, <1>4, <1>5
    <3>2. Leading(b, s, p + i) # Leading(a, s, p + i)
      BY <1>3, <3>1
    <3>3. p + i \in (p + 1) .. (Longer(b, a) - s)
      BY <1>1, <1>4, <1>5, <3>1
    <3> QED
      BY <3>2, <3>3
  <2>2. ASSUME NEW l \in (p + 1) .. (Longer(b, a) - s), Leading(b, s, l) # Leading(a, s, l)
        PROVE  l \in {p + i : i \in At}
    <3>1. l - p \in 1 .. Longer(old, new) /\ p + (l - p) = l /\ l - p \in Nat \ {0}
      BY <1>1, <1>4, <1>5
    <3>2. l - p \in At
      BY <1>3, <2>2, <3>1
    <3> QED
      BY <3>1, <3>2
  <2> QED
    BY <2>1, <2>2
<1>7. ASSUME NEW l \in DOMAIN edits
      PROVE  edits[l] = [before |-> Leading(b, s, l), after |-> Leading(a, s, l)]
  <2>1. l - p \in Nat \ {0} /\ p + (l - p) = l
    BY <1>1, <1>2, <1>5, <1>6
  <2>2. LineOf(old, l - p) = Leading(b, s, l) /\ LineOf(new, l - p) = Leading(a, s, l)
    BY <1>3, <2>1
  <2> QED
    BY <1>2, <2>2
<1>8. DOMAIN edits = {l \in (p + 1) .. (Longer(b, a) - s) : Leading(b, s, l) # Leading(a, s, l)}
  BY <1>2, <1>6
<1>9. Recording(edits, b, a, p, s)
  BY <1>1, <1>7, <1>8 DEF Recording
<1> QED
  BY <1>9 DEF edits, p, s

(* A recording accounts for the difference. *)
LEMMA RecordingExplains ==
  ASSUME NEW b \in Text, NEW a \in Text, NEW edits, NEW p, NEW s, Recording(edits, b, a, p, s)
  PROVE  Survive(b, DOMAIN b \ DOMAIN edits, a)
<1> DEFINE kept == (DOMAIN b \ DOMAIN edits) \cap DOMAIN b
           place == [l \in kept |-> IF l <= Len(b) - s THEN l ELSE l + Len(a) - Len(b)]
<1>1. /\ Len(b) \in Nat /\ DOMAIN b = 1 .. Len(b) /\ \A l \in 1 .. Len(b) : b[l] # NoLine
      /\ Len(a) \in Nat /\ DOMAIN a = 1 .. Len(a)
      /\ Longer(b, a) \in Nat /\ Longer(b, a) >= Len(b)
  BY TextFacts, Lengths
<1>2. /\ p \in Nat /\ s \in Nat /\ p + s <= Len(b) /\ p + s <= Len(a)
      /\ \A l \in 1 .. p : b[l] = a[l]
      /\ \A i \in 0 .. (s - 1) : b[Len(b) - i] = a[Len(a) - i]
  BY DEF Recording
<1>3. ASSUME NEW l \in kept, l <= Len(b) - s
      PROVE  l \in 1 .. (Len(a) - s) /\ a[l] = b[l]
  <2>1. CASE l <= p
    BY <1>1, <1>2, <2>1
  <2>2. CASE ~(l <= p)
    <3>1. l \in (p + 1) .. (Longer(b, a) - s) /\ l \notin DOMAIN edits
      BY <1>1, <1>2, <1>3, <2>2
    <3>2. Leading(b, s, l) = Leading(a, s, l)
      BY <3>1 DEF Recording
    <3>3. Leading(b, s, l) = b[l] /\ b[l] # NoLine
      BY <1>1, <1>3 DEF Leading
    <3>4. l <= Len(a) - s /\ a[l] = b[l]
      BY <3>2, <3>3 DEF Leading
    <3> QED
      BY <1>1, <3>4
  <2> QED
    BY <1>1, <1>2, <2>1, <2>2
<1>4. ASSUME NEW l \in kept, ~(l <= Len(b) - s)
      PROVE  l + Len(a) - Len(b) \in (Len(a) - s + 1) .. Len(a) /\ a[l + Len(a) - Len(b)] = b[l]
  <2>1. Len(b) - l \in 0 .. (s - 1) /\ Len(b) - (Len(b) - l) = l
        /\ Len(a) - (Len(b) - l) = l + Len(a) - Len(b)
    BY <1>1, <1>2, <1>4
  <2>2. b[Len(b) - (Len(b) - l)] = a[Len(a) - (Len(b) - l)]
    BY <1>2, <2>1
  <2>3. a[l + Len(a) - Len(b)] = b[l]
    BY <2>1, <2>2
  <2> HIDE DEF kept, place
  <2>4. l + Len(a) - Len(b) \in (Len(a) - s + 1) .. Len(a)
    <3>1. s \in Nat
      BY <1>2
    <3>2. l \in Nat /\ l <= Len(b)
      BY <1>1 DEF kept
    <3>3. l > Len(b) - s
      BY <1>1, <1>4, <3>1, <3>2
    <3> QED
      BY <1>1, <3>1, <3>2, <3>3
  <2> QED
    BY <2>3, <2>4
<1>5. place \in [kept -> DOMAIN a]
  BY <1>1, <1>2, <1>3, <1>4
<1>6. \A l \in kept : a[place[l]] = b[l]
  BY <1>3, <1>4
<1>7. \A k, l \in kept : k < l => place[k] < place[l]
  <2> SUFFICES ASSUME NEW k \in kept, NEW l \in kept, k < l PROVE place[k] < place[l]
    OBVIOUS
  <2>1. CASE l <= Len(b) - s
    BY <1>1, <1>2, <2>1
  <2>2. CASE ~(l <= Len(b) - s) /\ k <= Len(b) - s
    <3>1. place[k] = k /\ k <= Len(a) - s /\ k \in Int
      BY <1>1, <1>3, <2>2
    <3>2. place[l] >= Len(a) - s + 1 /\ place[l] \in Int
      BY <1>1, <1>2, <1>4, <2>2
    <3> QED
      BY <1>1, <1>2, <3>1, <3>2
  <2>3. CASE ~(l <= Len(b) - s) /\ ~(k <= Len(b) - s)
    BY <1>1, <1>2, <2>3
  <2> QED
    BY <2>1, <2>2, <2>3
<1> HIDE DEF place
<1> QED
  BY <1>5, <1>6, <1>7 DEF Survive

(* A list of edits. *)
Edits(e) ==
  /\ \E k \in Nat : DOMAIN e \subseteq 1 .. k
  /\ \A l \in DOMAIN e :
       /\ e[l].before \in Line \cup {NoLine} /\ e[l].after \in Line \cup {NoLine}
       /\ e[l].before # e[l].after

(* What is known of the recorded edits of b, or of some of them: they find *)
(* their lines, and replacements come before insertions or deletions.      *)
EditsOf(b, e) ==
  /\ \E k \in Nat : DOMAIN e \subseteq 1 .. k
  /\ \A l \in DOMAIN e :
       /\ e[l].before \in Line \cup {NoLine} /\ e[l].after \in Line \cup {NoLine}
       /\ e[l].before # e[l].after
       /\ e[l].before # NoLine => l \in DOMAIN b /\ b[l] = e[l].before
  /\ \A k, l \in DOMAIN e : k < l =>
       (Inserts(e[k]) => Inserts(e[l])) /\ (Deletes(e[k]) => Deletes(e[l]))

(* What is known of declared edits without line breaks. *)
BareEdits(e) ==
  /\ Edits(e)
  /\ \A l \in DOMAIN e : ~Ends(e[l].before) /\ ~Ends(e[l].after)

LEMMA EditsAreEdits ==
  ASSUME NEW b, NEW e, EditsOf(b, e) \/ BareEdits(e)
  PROVE  Edits(e)
BY DEF EditsOf, BareEdits, Edits

LEMMA NoEditsAreEdits == ASSUME NEW b PROVE EditsOf(b, NoEdits) /\ DOMAIN NoEdits = {}
<1>1. DOMAIN NoEdits = {}
  BY DEF NoEdits
<1> QED
  BY <1>1 DEF EditsOf

LEMMA SomeEdits ==
  ASSUME NEW b, NEW e, EditsOf(b, e), NEW lines
  PROVE  /\ EditsOf(b, Without(e, lines)) /\ DOMAIN Without(e, lines) = DOMAIN e \ lines
         /\ EditsOf(b, Only(e, lines)) /\ DOMAIN Only(e, lines) = DOMAIN e \cap lines
<1>1. /\ DOMAIN Without(e, lines) = DOMAIN e \ lines
      /\ \A l \in DOMAIN Without(e, lines) : Without(e, lines)[l] = e[l]
  BY DEF Without
<1>2. /\ DOMAIN Only(e, lines) = DOMAIN e \cap lines
      /\ \A l \in DOMAIN Only(e, lines) : Only(e, lines)[l] = e[l]
  BY DEF Only
<1>3. ASSUME NEW f, DOMAIN f \subseteq DOMAIN e, \A l \in DOMAIN f : f[l] = e[l] PROVE EditsOf(b, f)
  BY <1>3 DEF EditsOf
<1> QED
  BY <1>1, <1>2, <1>3

LEMMA SomeBareEdits ==
  ASSUME NEW e, BareEdits(e), NEW lines
  PROVE  BareEdits(Without(e, lines)) /\ BareEdits(Only(e, lines))
<1>1. /\ DOMAIN Without(e, lines) = DOMAIN e \ lines
      /\ \A l \in DOMAIN Without(e, lines) : Without(e, lines)[l] = e[l]
  BY DEF Without
<1>2. /\ DOMAIN Only(e, lines) = DOMAIN e \cap lines
      /\ \A l \in DOMAIN Only(e, lines) : Only(e, lines)[l] = e[l]
  BY DEF Only
<1>3. ASSUME NEW f, DOMAIN f \subseteq DOMAIN e, \A l \in DOMAIN f : f[l] = e[l] PROVE BareEdits(f)
  BY <1>3 DEF BareEdits, Edits
<1> QED
  BY <1>1, <1>2, <1>3

LEMMA RecordingIsEdits ==
  ASSUME NEW b \in Text, NEW a \in Text, NEW e, NEW p, NEW s, Recording(e, b, a, p, s)
  PROVE  EditsOf(b, e)
<1>1. /\ Len(b) \in Nat /\ DOMAIN b = 1 .. Len(b)
      /\ \A l \in 1 .. Len(b) : b[l] \in Line /\ b[l] # NoLine
      /\ Len(a) \in Nat /\ \A l \in 1 .. Len(a) : a[l] \in Line /\ a[l] # NoLine
      /\ Longer(b, a) \in Nat
  BY TextFacts, Lengths
<1>2. p \in Nat /\ s \in Nat
  BY DEF Recording
<1>3. DOMAIN e \subseteq 1 .. Longer(b, a)
  BY <1>1, <1>2 DEF Recording
<1>4. ASSUME NEW l \in DOMAIN e
      PROVE  /\ e[l].before = Leading(b, s, l) /\ e[l].after = Leading(a, s, l)
             /\ e[l].before # e[l].after /\ l \in Nat \ {0}
             /\ IF l <= Len(b) - s THEN e[l].before = b[l] /\ l \in 1 .. Len(b)
                                   ELSE e[l].before = NoLine
             /\ IF l <= Len(a) - s THEN e[l].after = a[l] /\ l \in 1 .. Len(a)
                                   ELSE e[l].after = NoLine
  <2>1. e[l].before = Leading(b, s, l) /\ e[l].after = Leading(a, s, l) /\ e[l].before # e[l].after
    BY DEF Recording
  <2>2. l \in Nat \ {0}
    BY <1>1, <1>3
  <2> QED
    BY <1>1, <1>2, <2>1, <2>2 DEF Leading
<1>5. ASSUME NEW l \in DOMAIN e
      PROVE  /\ e[l].before \in Line \cup {NoLine} /\ e[l].after \in Line \cup {NoLine}
             /\ e[l].before # NoLine => l \in DOMAIN b /\ b[l] = e[l].before
             /\ Inserts(e[l]) <=> ~(l <= Len(b) - s)
             /\ Deletes(e[l]) <=> ~(l <= Len(a) - s)
  BY <1>1, <1>4 DEF Inserts, Deletes
<1>6. ASSUME NEW k \in DOMAIN e, NEW l \in DOMAIN e, k < l
      PROVE  (Inserts(e[k]) => Inserts(e[l])) /\ (Deletes(e[k]) => Deletes(e[l]))
  <2>1. k \in Nat /\ l \in Nat
    BY <1>4
  <2> QED
    BY <1>1, <1>2, <1>5, <1>6, <2>1
<1> QED
  BY <1>1, <1>3, <1>4, <1>5, <1>6 DEF EditsOf

-----------------------------------------------------------------------------
(* The strict replay                                                       *)

One(text, l) == IF l <= Len(text) THEN << text[l] >> ELSE << >>

(* The piece that an edit leaves at a line. *)
PieceAt(b, e, l) ==
  IF l \notin DOMAIN e THEN One(b, l)
  ELSE IF Inserts(e[l]) THEN Joined(<< e[l].after >>, One(b, l))
  ELSE IF Deletes(e[l]) THEN << >>
  ELSE << e[l].after >>

LEMMA ReplayedPieces ==
  ASSUME NEW b \in Text, NEW e, Edits(e),
         NEW seqs, seqs = [l \in 1 .. Len(b) + 1 |-> PieceAt(b, e, l)]
  PROVE  seqs \in Seq(Text) /\ Len(seqs) = Len(b) + 1 /\ Replayed(b, e) = FlattenSeq(seqs)
<1>1. Len(b) \in Nat /\ DOMAIN b = 1 .. Len(b) /\ \A l \in 1 .. Len(b) : b[l] \in Line
  BY TextFacts
<1>2. ASSUME NEW l \in 1 .. Len(b) + 1 PROVE PieceAt(b, e, l) \in Text
  <2>1. One(b, l) \in Seq(Line)
    BY <1>1 DEF One
  <2>2. ASSUME l \in DOMAIN e, ~Deletes(e[l]) PROVE e[l].after \in Line
    <3>1. e[l].before # e[l].after /\ e[l].after \in Line \cup {NoLine}
      BY <2>2 DEF Edits
    <3> QED
      BY <2>2, <3>1 DEF Deletes
  <2>3. ASSUME NEW x \in Line PROVE << x >> \in Seq(Line) /\ Joined(<< x >>, One(b, l)) \in Seq(Line)
    <3>1. << x >> \in Seq(Line)
      OBVIOUS
    <3> QED
      BY <2>1, <3>1, JoinedIsText DEF Text
  <2>4. Inserts(e[l]) => ~Deletes(e[l])
    BY DEF Inserts, Deletes
  <2> QED
    BY <2>1, <2>2, <2>3, <2>4 DEF PieceAt, Text
<1>3. seqs \in Seq(Text) /\ Len(seqs) = Len(b) + 1
  <2>1. seqs \in [1 .. Len(b) + 1 -> Text]
    BY <1>2
  <2>2. Len(b) + 1 \in Nat
    BY <1>1
  <2> QED
    BY <2>1, <2>2
<1>4. Replayed(b, e) = FlattenSeq(seqs)
  <2>1. \A l \in 1 .. Len(b) + 1 : One(b, l) = IF l \in DOMAIN b THEN << b[l] >> ELSE << >>
    BY <1>1 DEF One
  <2> QED
    BY <2>1 DEF Replayed, PieceAt
<1> QED
  BY <1>3, <1>4

(* A strict replay is a text, and keeps all lines that no edit names. *)
LEMMA ReplayedExplains ==
  ASSUME NEW b \in Text, NEW e, Edits(e)
  PROVE  Replayed(b, e) \in Text /\ Survive(b, DOMAIN b \ DOMAIN e, Replayed(b, e))
<1> DEFINE seqs == [l \in 1 .. Len(b) + 1 |-> PieceAt(b, e, l)]
           n == Len(b) + 1
           t == Replayed(b, e)
           kept == (DOMAIN b \ DOMAIN e) \cap DOMAIN b
<1>1. Len(b) \in Nat /\ DOMAIN b = 1 .. Len(b) /\ \A l \in 1 .. Len(b) : b[l] \in Line
  BY TextFacts
<1>2. seqs \in Seq(Seq(Line)) /\ Len(seqs) = n /\ t = FlattenSeq(seqs)
  BY ReplayedPieces DEF Text
<1>3. \A l \in kept : l \in 1 .. Len(b) /\ l \in 1 .. n /\ l - 1 \in 0 .. n /\ seqs[l] = << b[l] >>
  BY <1>1 DEF PieceAt, One
<1> HIDE DEF seqs, t
<1>4. PICK F \in [0 .. n -> Seq(Line)] : Pieces(seqs, F) /\ t = F[n]
  <2>1. \E F \in [0 .. Len(seqs) -> Seq(Line)] :
          Pieces(seqs, F) /\ FlattenSeq(seqs) = F[Len(seqs)]
    BY <1>2, FlattenBuilds
  <2> QED
    BY <1>2, <2>1
<1>5. t \in Text /\ DOMAIN t = 1 .. Len(t) /\ Len(t) \in Nat
  BY <1>1, <1>4 DEF Text
<1>6. \A i \in 0 .. n : Len(F[i]) \in Nat
  BY <1>4
<1>7. ASSUME NEW i \in 0 .. n, NEW j \in i .. n PROVE Begins(F[i], F[j])
  BY <1>2, <1>4, FlattenGrows
<1>8. ASSUME NEW l \in kept
      PROVE  Len(F[l]) = Len(F[l - 1]) + 1 /\ F[l][Len(F[l])] = b[l]
  <2>1. F[l] = F[l - 1] \o << b[l] >>
    BY <1>2, <1>3, <1>4 DEF Pieces
  <2>2. F[l - 1] \in Seq(Line) /\ << b[l] >> \in Seq(Line)
    BY <1>1, <1>3, <1>4
  <2> QED
    BY <2>1, <2>2
<1> DEFINE place == [l \in kept |-> Len(F[l])]
<1>9. ASSUME NEW l \in kept PROVE Len(F[l]) \in 1 .. Len(t) /\ t[Len(F[l])] = b[l]
  <2>1. l \in 0 .. n /\ n \in l .. n
    BY <1>1, <1>3
  <2>2. Begins(F[l], t)
    BY <1>4, <1>7, <2>1
  <2>3. Len(F[l]) \in Nat /\ Len(F[l - 1]) \in Nat
    BY <1>3, <1>6, <2>1
  <2>4. Len(F[l]) \in 1 .. Len(F[l]) /\ Len(F[l]) <= Len(t)
    BY <1>8, <2>2, <2>3 DEF Begins
  <2>5. t[Len(F[l])] = F[l][Len(F[l])]
    BY <2>2, <2>4 DEF Begins
  <2> QED
    BY <1>5, <1>8, <2>3, <2>4, <2>5
<1>10. ASSUME NEW k \in kept, NEW l \in kept, k < l PROVE Len(F[k]) < Len(F[l])
  <2>1. k \in 0 .. n /\ l - 1 \in k .. n /\ l \in 0 .. n
    BY <1>1, <1>3, <1>10
  <2>2. Len(F[k]) <= Len(F[l - 1])
    BY <1>7, <2>1 DEF Begins
  <2>3. Len(F[k]) \in Nat /\ Len(F[l - 1]) \in Nat
    BY <1>3, <1>6, <2>1
  <2> QED
    BY <1>8, <2>2, <2>3
<1>11. /\ place \in [kept -> DOMAIN t]
       /\ \A l \in kept : t[place[l]] = b[l]
       /\ \A k, l \in kept : k < l => place[k] < place[l]
  BY <1>5, <1>9, <1>10
<1> HIDE DEF place
<1> QED
  BY <1>5, <1>11 DEF Survive, t

LEMMA OneLine ==
  ASSUME NEW t \in Text, NEW l \in 1 .. Len(t)
  PROVE  SubSeq(t, l, l) = << t[l] >>
<1>1. Len(t) \in Nat /\ t[l] \in Line /\ t \in Seq(Line)
  BY TextFacts DEF Text
<1>2. l \in 1 .. Len(t) /\ l \in l .. Len(t) /\ l + 1 \in Int /\ l < l + 1
  BY <1>1
<1>3. SubSeq(t, l, l) = << t[l] >> \o SubSeq(t, l + 1, l)
  BY <1>1, <1>2, SubSeqRecursiveFirst
<1>4. SubSeq(t, l + 1, l) = << >>
  BY <1>2, SubSeqEmpty
<1>5. << t[l] >> \in Seq(Line)
  BY <1>1
<1>6. << t[l] >> \o << >> = << t[l] >>
  BY <1>5, ConcatEmptySeq
<1> QED
  BY <1>3, <1>4, <1>6

LEMMA TwoLines ==
  ASSUME NEW t \in Text, NEW l \in 1 .. Len(t), l + 1 \in 1 .. Len(t)
  PROVE  SubSeq(t, l, l + 1) = << t[l] >> \o << t[l + 1] >>
<1>1. Len(t) \in Nat /\ t \in Seq(Line)
  BY TextFacts DEF Text
<1>2. l \in 1 .. Len(t) /\ l + 1 \in l .. Len(t)
  BY <1>1
<1>3. SubSeq(t, l, l + 1) = << t[l] >> \o SubSeq(t, l + 1, l + 1)
  BY <1>1, <1>2, SubSeqRecursiveFirst
<1>4. SubSeq(t, l + 1, l + 1) = << t[l + 1] >>
  BY OneLine
<1> QED
  BY <1>3, <1>4

(* A recording that adds at most one line is replayed to the text it records. *)
LEMMA RecordingReplays ==
  ASSUME NEW b \in Text, NEW a \in WholeText, Len(a) <= Len(b) + 1,
         NEW e, NEW p, NEW s, Recording(e, b, a, p, s)
  PROVE  Replayable(b, e) /\ Replayed(b, e) = a
<1>w. a \in Text
  BY WholeFacts
<1> USE <1>w
<1>n. PICK n \in Nat : n = Len(b)
  BY TextFacts
<1>m. PICK m \in Nat : m = Len(a)
  BY TextFacts
<1>1. /\ DOMAIN b = 1 .. n /\ \A l \in 1 .. n : b[l] \in Line /\ b[l] # NoLine
      /\ DOMAIN a = 1 .. m /\ \A l \in 1 .. m : a[l] \in Line /\ a[l] # NoLine
  BY <1>n, <1>m, TextFacts
<1>l. m <= n + 1 /\ Longer(b, a) = IF n < m THEN m ELSE n
  BY <1>n, <1>m DEF Longer
<1>2. /\ p \in Nat /\ s \in Nat /\ p + s <= n /\ p + s <= m
      /\ \A l \in 1 .. p : b[l] = a[l]
      /\ \A i \in 0 .. (s - 1) : b[n - i] = a[m - i]
  BY <1>n, <1>m DEF Recording
<1>3. ASSUME NEW l \in DOMAIN e
      PROVE  /\ l \in 1 .. n + 1 /\ l > p
             /\ l <= n - s \/ (m = n + 1 /\ l = n - s + 1)
             /\ e[l].before = (IF l <= n - s THEN b[l] ELSE NoLine)
             /\ e[l].after = (IF l <= m - s THEN a[l] ELSE NoLine)
             /\ e[l].before # e[l].after
  <2>1. l \in (p + 1) .. (Longer(b, a) - s) /\ Leading(b, s, l) # Leading(a, s, l)
    BY DEF Recording
  <2>2. e[l].before = Leading(b, s, l) /\ e[l].after = Leading(a, s, l)
    BY DEF Recording
  <2>4. l \in (p + 1) .. ((IF n < m THEN m ELSE n) - s)
    BY <1>l, <2>1
  <2>5. m <= n + 1
    BY <1>l
  <2>3. /\ l \in 1 .. n + 1 /\ l > p
        /\ l <= n - s \/ (m = n + 1 /\ l = n - s + 1)
    BY <1>2, <2>4, <2>5
  <2> QED
    BY <1>n, <1>m, <2>1, <2>2, <2>3 DEF Leading
<1>4. ASSUME NEW l \in 1 .. n + 1, l \notin DOMAIN e, l > p,
             l <= n - s \/ (m = n + 1 /\ l = n - s + 1)
      PROVE  (IF l <= n - s THEN b[l] ELSE NoLine) = (IF l <= m - s THEN a[l] ELSE NoLine)
  <2>1. l \in (p + 1) .. ((IF n < m THEN m ELSE n) - s)
    BY <1>2, <1>4
  <2>2. l \in (p + 1) .. (Longer(b, a) - s)
    BY <1>l, <2>1
  <2>3. Leading(b, s, l) = Leading(a, s, l)
    BY <1>4, <2>2 DEF Recording
  <2> QED
    BY <1>n, <1>m, <2>3 DEF Leading
<1>5. Replayable(b, e)
  <2> SUFFICES ASSUME NEW l \in DOMAIN e
               PROVE  \/ Inserts(e[l]) /\ l <= n + 1
                      \/ l \in DOMAIN b /\ b[l] = e[l].before
    BY <1>n DEF Replayable
  <2>0. /\ l \in 1 .. n + 1
        /\ l <= n - s \/ (m = n + 1 /\ l = n - s + 1)
        /\ e[l].before = (IF l <= n - s THEN b[l] ELSE NoLine)
        /\ e[l].after = (IF l <= m - s THEN a[l] ELSE NoLine)
    BY <1>3
  <2>1. CASE l <= n - s
    <3>1. l \in 1 .. n
      BY <1>2, <2>0, <2>1
    <3> QED
      BY <1>1, <2>0, <2>1, <3>1
  <2>2. CASE ~(l <= n - s)
    <3>1. l <= n + 1 /\ l <= m - s /\ l \in 1 .. m
      BY <1>2, <2>0, <2>2
    <3>2. e[l].before = NoLine /\ e[l].after # NoLine
      BY <1>1, <2>0, <2>2, <3>1
    <3> QED
      BY <3>1, <3>2 DEF Inserts
  <2> QED
    BY <2>1, <2>2
<1> DEFINE cut == [l \in 0 .. n + 1 |->
                     IF l <= n - s THEN (IF l <= m - s THEN l ELSE m - s)
                     ELSE IF l <= n THEN l + m - n ELSE m]
<1>6. /\ cut \in [0 .. n + 1 -> 0 .. m] /\ cut[0] = 0 /\ cut[n + 1] = m
      /\ \A l \in 1 .. n + 1 : cut[l - 1] <= cut[l]
  <2>0. m <= n + 1
    BY <1>l
  <2>1. ASSUME NEW l \in 0 .. n + 1 PROVE cut[l] \in 0 .. m
    BY <1>2, <2>0
  <2>2. cut[0] = 0 /\ cut[n + 1] = m
    BY <1>2
  <2>3. ASSUME NEW l \in 1 .. n + 1 PROVE cut[l - 1] <= cut[l]
    <3>1. l \in 0 .. n + 1 /\ l - 1 \in 0 .. n + 1
      OBVIOUS
    <3> QED
      BY <1>2, <2>0, <3>1
  <2> QED
    BY <2>1, <2>2, <2>3
<1>7. ASSUME NEW l \in 1 .. n + 1 PROVE PieceAt(b, e, l) = SubSeq(a, cut[l - 1] + 1, cut[l])
  <2>1. PICK c \in 0 .. m : c = cut[l - 1]
    BY <1>6
  <2>2. PICK d \in 0 .. m : d = cut[l]
    BY <1>6
  <2>3. /\ c = IF l - 1 <= n - s THEN (IF l - 1 <= m - s THEN l - 1 ELSE m - s)
               ELSE IF l - 1 <= n THEN l - 1 + m - n ELSE m
        /\ d = IF l <= n - s THEN (IF l <= m - s THEN l ELSE m - s)
               ELSE IF l <= n THEN l + m - n ELSE m
    BY <2>1, <2>2
  <2>m. m <= n + 1
    BY <1>l
  <2> HIDE DEF cut
  <2>e. ASSUME c = d PROVE SubSeq(a, c + 1, d) = << >>
    BY <2>e, SubSeqEmpty
  <2>o. ASSUME c + 1 = d PROVE SubSeq(a, c + 1, d) = << a[d] >>
    <3>1. d \in 1 .. Len(a)
      BY <1>m, <2>o
    <3> QED
      BY <2>o, <3>1, OneLine
  <2>t. ASSUME c + 2 = d PROVE SubSeq(a, c + 1, d) = << a[c + 1] >> \o << a[d] >>
    <3>1. c + 1 \in 1 .. Len(a) /\ (c + 1) + 1 \in 1 .. Len(a) /\ (c + 1) + 1 = d
      BY <1>m, <2>t
    <3>2. SubSeq(a, c + 1, (c + 1) + 1) = << a[c + 1] >> \o << a[(c + 1) + 1] >>
      BY <3>1, TwoLines
    <3> QED
      BY <3>1, <3>2
  <2>4. CASE l <= p
    <3>1. l \notin DOMAIN e
      BY <1>2, <1>3, <2>4
    <3>2. l <= n /\ c + 1 = d /\ d = l /\ l \in 1 .. p
      BY <1>2, <2>3, <2>4
    <3>3. b[l] = a[l] /\ One(b, l) = << b[l] >>
      BY <1>2, <1>n, <3>2 DEF One
    <3>4. PieceAt(b, e, l) = << a[d] >>
      BY <3>1, <3>2, <3>3 DEF PieceAt
    <3> QED
      BY <2>1, <2>2, <2>o, <3>2, <3>4
  <2>5. CASE l > p /\ l <= n - s
    <3>0. l \in 1 .. n
      BY <1>2, <2>5
    <3>1. CASE l <= m - s
      <4>1. c + 1 = d /\ d = l /\ l \in 1 .. m
        BY <1>2, <2>3, <2>5, <3>1
      <4>2. PieceAt(b, e, l) = << a[l] >>
        <5>1. CASE l \in DOMAIN e
          <6>1. e[l].before = b[l] /\ e[l].after = a[l]
            BY <1>3, <2>5, <3>1, <5>1
          <6>2. e[l].before # NoLine /\ e[l].after # NoLine
            BY <1>1, <3>0, <4>1, <6>1
          <6> QED
            BY <5>1, <6>1, <6>2 DEF PieceAt, Inserts, Deletes
        <5>2. CASE l \notin DOMAIN e
          <6>1. b[l] = a[l]
            BY <1>4, <2>5, <3>1, <5>2
          <6>2. One(b, l) = << b[l] >>
            BY <1>n, <3>0 DEF One
          <6> QED
            BY <5>2, <6>1, <6>2 DEF PieceAt
        <5> QED
          BY <5>1, <5>2
      <4> QED
        BY <2>1, <2>2, <2>o, <4>1, <4>2
    <3>2. CASE ~(l <= m - s)
      <4>1. c = d
        BY <1>2, <2>3, <2>5, <3>2
      <4>2. l \in DOMAIN e
        <5> SUFFICES ASSUME l \notin DOMAIN e PROVE FALSE
          OBVIOUS
        <5>1. b[l] = NoLine
          BY <1>4, <2>5, <3>2
        <5> QED
          BY <1>1, <3>0, <5>1
      <4>3. e[l].before = b[l] /\ e[l].after = NoLine /\ b[l] # NoLine
        BY <1>1, <1>3, <2>5, <3>0, <3>2, <4>2
      <4>4. PieceAt(b, e, l) = << >>
        BY <4>2, <4>3 DEF PieceAt, Inserts, Deletes
      <4> QED
        BY <2>1, <2>2, <2>e, <4>1, <4>4
    <3> QED
      BY <3>1, <3>2
  <2>6. CASE l > p /\ ~(l <= n - s) /\ m = n + 1 /\ l = n - s + 1
    <3>1. l <= m - s /\ l \in 1 .. m
      BY <1>2, <2>6
    <3>2. l \in DOMAIN e
      <4> SUFFICES ASSUME l \notin DOMAIN e PROVE FALSE
        OBVIOUS
      <4>1. NoLine = a[l]
        BY <1>4, <2>6, <3>1
      <4> QED
        BY <1>1, <3>1, <4>1
    <3>3. e[l].before = NoLine /\ e[l].after = a[l] /\ a[l] # NoLine
      BY <1>1, <1>3, <2>6, <3>1, <3>2
    <3>4. PieceAt(b, e, l) = << a[l] >> \o One(b, l)
      <4>1. << a[l] >> \in WholeText
        BY <1>m, <3>1, WholeFacts DEF WholeText
      <4>2. Joined(<< a[l] >>, One(b, l)) = << a[l] >> \o One(b, l)
        BY <4>1, JoinedBehindWhole
      <4> QED
        BY <3>2, <3>3, <4>2 DEF PieceAt, Inserts
    <3>5. CASE s = 0
      <4>1. l = n + 1 /\ c + 1 = d /\ d = l
        BY <1>2, <2>3, <2>6, <3>5
      <4>2. One(b, l) = << >>
        BY <1>n, <4>1 DEF One
      <4>3. << a[l] >> \in Text
        BY <1>1, <3>1 DEF Text
      <4>4. << a[l] >> \o << >> = << a[l] >>
        BY <4>3, ConcatEmptySeq DEF Text
      <4>5. PieceAt(b, e, l) = << a[d] >>
        BY <3>4, <4>1, <4>2, <4>4
      <4> QED
        BY <2>1, <2>2, <2>o, <4>1, <4>5
    <3>6. CASE s # 0
      <4>1. l \in 1 .. n /\ c + 2 = d /\ c + 1 = l /\ d = l + 1
        BY <1>2, <2>3, <2>6, <3>6
      <4>2. One(b, l) = << b[l] >>
        BY <1>n, <4>1 DEF One
      <4>3. n - l \in 0 .. (s - 1) /\ n - (n - l) = l /\ m - (n - l) = d
        BY <1>2, <2>6, <3>6, <4>1
      <4>4. b[l] = a[d]
        BY <1>2, <4>3
      <4>5. PieceAt(b, e, l) = << a[c + 1] >> \o << a[d] >>
        BY <3>4, <4>1, <4>2, <4>4
      <4> QED
        BY <2>1, <2>2, <2>t, <4>1, <4>5
    <3> QED
      BY <3>5, <3>6
  <2>7. CASE l > p /\ ~(l <= n - s) /\ ~(m = n + 1 /\ l = n - s + 1)
    <3>1. l \notin DOMAIN e
      BY <1>3, <2>7
    <3>2. PieceAt(b, e, l) = One(b, l)
      BY <3>1 DEF PieceAt
    <3>3. CASE l = n + 1
      <4>1. c = d
        BY <1>2, <2>3, <2>7, <2>m, <3>3
      <4>2. One(b, l) = << >>
        BY <1>n, <3>3 DEF One
      <4> QED
        BY <2>1, <2>2, <2>e, <3>2, <4>1, <4>2
    <3>4. CASE l # n + 1
      <4>1. l \in 1 .. n /\ c + 1 = d /\ d = l + m - n
        BY <1>2, <2>3, <2>7, <2>m, <3>4
      <4>2. One(b, l) = << b[l] >>
        BY <1>n, <4>1 DEF One
      <4>3. n - l \in 0 .. (s - 1) /\ n - (n - l) = l /\ m - (n - l) = d
        BY <1>2, <2>7, <4>1
      <4>4. b[l] = a[d]
        BY <1>2, <4>3
      <4> QED
        BY <2>1, <2>2, <2>o, <3>2, <4>1, <4>2, <4>4
    <3> QED
      BY <3>3, <3>4
  <2>8. p \in Nat /\ l \in Nat
    BY <1>2
  <2> QED
    BY <2>4, <2>5, <2>6, <2>7, <2>8
<1> DEFINE seqs == [l \in 1 .. Len(b) + 1 |-> PieceAt(b, e, l)]
<1>8. seqs \in Seq(Text) /\ Len(seqs) = Len(b) + 1 /\ Replayed(b, e) = FlattenSeq(seqs)
  <2>1. Edits(e)
    BY RecordingIsEdits, EditsAreEdits
  <2> QED
    BY <2>1, ReplayedPieces
<1>9. \A l \in 1 .. n + 1 : seqs[l] = PieceAt(b, e, l)
  BY <1>n
<1> HIDE DEF seqs, cut
<1>10. FlattenSeq(seqs) = SubSeq(a, 1, m)
  <2>1. /\ seqs \in Seq(Seq(Line)) /\ Len(seqs) = n + 1 /\ a \in Seq(Line)
        /\ cut \in [0 .. Len(seqs) -> 0 .. Len(a)]
        /\ cut[Len(seqs)] = m
    BY <1>n, <1>m, <1>6, <1>8 DEF Text
  <2>2. ASSUME NEW i \in 1 .. Len(seqs)
        PROVE  cut[i - 1] <= cut[i] /\ seqs[i] = SubSeq(a, cut[i - 1] + 1, cut[i])
    <3>1. i \in 1 .. n + 1
      BY <2>1
    <3> QED
      BY <1>6, <1>7, <1>9, <3>1
  <2>3. cut[0] = 0
    BY <1>6
  <2>4. FlattenSeq(seqs) = SubSeq(a, 1, cut[Len(seqs)])
    BY <2>1, <2>2, <2>3, FlattenJoins
  <2> QED
    BY <2>1, <2>4
<1>11. SubSeq(a, 1, m) = a
  BY <1>m, SubSeqFull DEF Text
<1> QED
  BY <1>5, <1>8, <1>10, <1>11

-----------------------------------------------------------------------------
(* The lenient replay                                                      *)

LEMMA SurvivesFewer ==
  ASSUME NEW s, NEW t, NEW lines, NEW fewer, fewer \cap DOMAIN s \subseteq lines, Survive(s, lines, t)
  PROVE  Survive(s, fewer, t)
<1> DEFINE old == lines \cap DOMAIN s
           new == fewer \cap DOMAIN s
<1>1. PICK place \in [old -> DOMAIN t] :
        /\ \A l \in old : t[place[l]] = s[l]
        /\ \A i, l \in old : i < l => place[i] < place[l]
  BY DEF Survive
<1> DEFINE some == [l \in new |-> place[l]]
<1>2. new \subseteq old
  OBVIOUS
<1> HIDE DEF old
<1>3. /\ some \in [new -> DOMAIN t]
      /\ \A l \in new : t[some[l]] = s[l]
      /\ \A i, l \in new : i < l => some[i] < some[l]
  BY <1>1, <1>2
<1> HIDE DEF some
<1> QED
  BY <1>3 DEF Survive

LEMMA SurvivesMore ==
  ASSUME NEW s, NEW t \in Text, NEW u \in Text, NEW lines, Survive(s, lines, t)
  PROVE  Survive(s, lines, t \o u)
<1> DEFINE old == lines \cap DOMAIN s
<1>1. PICK place \in [old -> DOMAIN t] :
        /\ \A l \in old : t[place[l]] = s[l]
        /\ \A i, l \in old : i < l => place[i] < place[l]
  BY DEF Survive
<1>2. PICK v : v = t \o u
  OBVIOUS
<1>3. /\ Len(t) \in Nat /\ Len(u) \in Nat
      /\ DOMAIN v = 1 .. (Len(t) + Len(u))
      /\ \A i \in 1 .. Len(t) : v[i] = t[i]
  BY <1>2, Concatenated DEF Text
<1>4. DOMAIN t = 1 .. Len(t)
  BY TextFacts
<1>5. /\ place \in [old -> DOMAIN v]
      /\ \A l \in old : v[place[l]] = s[l]
      /\ \A i, l \in old : i < l => place[i] < place[l]
  BY <1>1, <1>3, <1>4
<1>6. Survive(s, lines, v)
  BY <1>5 DEF Survive
<1> QED
  BY <1>2, <1>6

LEMMA TextOf ==
  ASSUME NEW C \in {Line, Whole}, NEW t \in Seq(C)
  PROVE  /\ t \in Text /\ Len(t) \in Nat /\ DOMAIN t = 1 .. Len(t)
         /\ \A l \in 1 .. Len(t) : t[l] \in C /\ t[l] # NoLine
<1>1. t \in Text
  BY WholeFacts DEF Text, WholeText
<1>2. \A l \in 1 .. Len(t) : t[l] # NoLine
  BY <1>1, TextFacts
<1> QED
  BY <1>1, <1>2

(* Lines of a text are a text. *)
LEMMA Copied ==
  ASSUME NEW C \in {Line, Whole}, NEW t \in Seq(C), NEW j \in Nat, NEW k \in 0 .. Len(t)
  PROVE  SubSeq(t, j + 1, k) \in Seq(C)
<1>1. j + 1 \in Int /\ k \in Int /\ \A i \in (j + 1) .. k : t[i] \in C
  OBVIOUS
<1> QED
  BY <1>1, SubSeqProperties

(* What the lenient replay carries from edit to edit: it has put out lines *)
(* of C, any lines or whole ones.                                          *)
Cursor(b, C) == [src : 0 .. Len(b), out : Seq(C), offset : Int]

LEMMA StepCursor ==
  ASSUME NEW C \in {Line, Whole}, NEW b \in Seq(C), NEW s \in Cursor(b, C), NEW l \in Nat \ {0}, NEW e,
         e.after \in C \cup {NoLine}, e.before # e.after
  PROVE  Step(b, s, l, e) \in Cursor(b, C)
<1> DEFINE index == l - 1 + s.offset
           moved == IF s.src < index THEN index ELSE s.src
           copied == Joined(s.out, SubSeq(b, s.src + 1, moved))
           added == Joined(copied, << e.after >>)
<1>1. Len(b) \in Nat /\ \A k \in 1 .. Len(b) : b[k] # NoLine
  BY TextOf
<1>2. s.src \in 0 .. Len(b) /\ s.out \in Seq(C) /\ s.offset \in Int
  BY DEF Cursor
<1>3. CASE index < 0 \/ index > Len(b)
  BY <1>3 DEF Step
<1>4. CASE ~(index < 0 \/ index > Len(b))
  <2>1. index \in 0 .. Len(b)
    BY <1>1, <1>2, <1>4
  <2>2. moved \in s.src .. Len(b) /\ moved \in 0 .. Len(b)
    BY <1>1, <1>2, <2>1
  <2>3. SubSeq(b, s.src + 1, moved) \in Seq(C)
    <3>1. s.src \in Nat
      BY <1>2
    <3> HIDE DEF moved
    <3> QED
      BY <2>2, <3>1, Copied
  <2>4. copied \in Seq(C)
    BY <1>2, <2>3, JoinedKeeps
  <2>5. ASSUME e.after # NoLine PROVE added \in Seq(C)
    <3>1. << e.after >> \in Seq(C)
      BY <2>5
    <3> HIDE DEF copied
    <3> QED
      BY <2>4, <3>1, JoinedKeeps
  <2>6. ASSUME moved < Len(b) /\ b[moved + 1] = e.before PROVE e.before # NoLine /\ moved + 1 \in 0 .. Len(b)
    <3>1. moved + 1 \in 1 .. Len(b)
      BY <1>1, <2>2, <2>6
    <3> QED
      BY <1>1, <2>6, <3>1
  <2>7. Step(b, s, l, e) =
          IF Inserts(e)
            THEN [src |-> moved, out |-> added, offset |-> s.offset + 1]
          ELSE IF index = Len(b) THEN s
          ELSE IF ~(moved < Len(b) /\ b[moved + 1] = e.before)
            THEN [s EXCEPT !.src = moved, !.out = copied]
          ELSE IF Deletes(e)
            THEN [src |-> moved + 1, out |-> copied, offset |-> s.offset - 1]
          ELSE [s EXCEPT !.src = moved + 1, !.out = added]
    BY <1>4 DEF Step
  <2> HIDE DEF copied, added, moved, index
  <2>8. CASE Inserts(e)
    BY <1>2, <2>2, <2>5, <2>7, <2>8 DEF Inserts, Cursor
  <2>9. CASE ~Inserts(e)
    <3>1. CASE index = Len(b)
      BY <2>7, <2>9, <3>1
    <3>2. CASE index # Len(b) /\ ~(moved < Len(b) /\ b[moved + 1] = e.before)
      <4>1. Step(b, s, l, e) = [s EXCEPT !.src = moved, !.out = copied]
        BY <2>7, <2>9, <3>2
      <4> QED
        BY <2>2, <2>4, <4>1 DEF Cursor
    <3>3. CASE index # Len(b) /\ moved < Len(b) /\ b[moved + 1] = e.before
      <4>1. CASE Deletes(e)
        <5>1. Step(b, s, l, e) = [src |-> moved + 1, out |-> copied, offset |-> s.offset - 1]
          BY <2>7, <2>9, <3>3, <4>1
        <5> QED
          BY <1>2, <2>4, <2>6, <3>3, <5>1 DEF Cursor
      <4>2. CASE ~Deletes(e)
        <5>1. Step(b, s, l, e) = [s EXCEPT !.src = moved + 1, !.out = added]
          BY <2>7, <2>9, <3>3, <4>2
        <5>2. e.after # NoLine
          BY <2>6, <3>3, <4>2 DEF Deletes
        <5> QED
          BY <2>5, <2>6, <3>3, <5>1, <5>2 DEF Cursor
      <4> QED
        BY <4>1, <4>2
    <3> QED
      BY <3>1, <3>2, <3>3
  <2> QED
    BY <2>8, <2>9
<1> QED
  BY <1>3, <1>4

(* The cursor behind every line, and the text that comes out. *)
Walk(b, e, C, top, U) ==
  /\ top \in Nat /\ DOMAIN e \subseteq 1 .. top
  /\ U \in [0 .. top -> Cursor(b, C)]
  /\ U[0] = [src |-> 0, out |-> << >>, offset |-> 0]
  /\ \A l \in 1 .. top :
       U[l] = IF l \in DOMAIN e THEN Step(b, U[l - 1], l, e[l]) ELSE U[l - 1]
  /\ ReplayedLeniently(b, e) = Joined(U[top].out, SubSeq(b, U[top].src + 1, Len(b)))

LEMMA LenientWalks ==
  ASSUME NEW C \in {Line, Whole}, NEW b \in Seq(C), NEW e, Edits(e),
         \A l \in DOMAIN e : e[l].after \in C \cup {NoLine}
  PROVE  \E top, U : Walk(b, e, C, top, U)
<1> DEFINE top == Max({0} \cup DOMAIN e)
           start == [src |-> 0, out |-> << >>, offset |-> 0]
           Next1(s, l) == IF l \in DOMAIN e THEN Step(b, s, l, e[l]) ELSE s
<1>1. top \in Nat /\ DOMAIN e \subseteq 1 .. top
  <2>1. PICK k \in Nat : DOMAIN e \subseteq 1 .. k
    BY DEF Edits
  <2>2. {0} \cup DOMAIN e \in SUBSET (0 .. k) /\ {0} \cup DOMAIN e # {}
    BY <2>1
  <2>3. top \in {0} \cup DOMAIN e /\ \A l \in {0} \cup DOMAIN e : l <= top
    BY <2>2, GreatestOf
  <2> HIDE DEF top
  <2> QED
    BY <2>1, <2>2, <2>3
<1>2. start \in Cursor(b, C)
  <2>1. Len(b) \in Nat /\ << >> \in Seq(C)
    BY TextOf
  <2> QED
    BY <2>1 DEF Cursor
<1>3. ASSUME NEW s \in Cursor(b, C), NEW l \in Nat \ {0} PROVE Next1(s, l) \in Cursor(b, C)
  <2>1. CASE l \in DOMAIN e
    <3>1. e[l].before # e[l].after /\ e[l].after \in C \cup {NoLine}
      BY <2>1 DEF Edits
    <3> QED
      BY <2>1, <3>1, StepCursor
  <2> QED
    BY <2>1
<1> HIDE DEF start, Next1, top
<1> DEFINE Good == {k \in Nat : \E U \in [0 .. k -> Cursor(b, C)] :
                      U[0] = start /\ \A l \in 1 .. k : U[l] = Next1(U[l - 1], l)}
<1>4. top \in Good
  <2>1. 0 \in Good
    <3> DEFINE U == [i \in 0 .. 0 |-> start]
    <3>1. U \in [0 .. 0 -> Cursor(b, C)] /\ U[0] = start
      BY <1>2
    <3> HIDE DEF U
    <3>2. \E V \in [0 .. 0 -> Cursor(b, C)] : V[0] = start /\ \A l \in 1 .. 0 : V[l] = Next1(V[l - 1], l)
      BY <3>1
    <3> QED
      BY <3>2
  <2>2. ASSUME NEW k \in 1 .. top, k - 1 \in Good PROVE k \in Good
    <3>0. k \in Nat /\ k \in Nat \ {0} /\ k - 1 \in 0 .. (k - 1) /\ k \in 0 .. k /\ k - 1 \in 0 .. k /\ k - 1 # k /\ 0 # k
      BY <1>1
    <3>1. PICK U \in [0 .. (k - 1) -> Cursor(b, C)] :
            U[0] = start /\ \A l \in 1 .. (k - 1) : U[l] = Next1(U[l - 1], l)
      BY <2>2
    <3> DEFINE V == [i \in 0 .. k |-> IF i = k THEN Next1(U[k - 1], k) ELSE U[i]]
    <3>2. Next1(U[k - 1], k) \in Cursor(b, C)
      BY <1>3, <3>0, <3>1
    <3>3. V \in [0 .. k -> Cursor(b, C)]
      BY <3>0, <3>2
    <3>4. V[0] = start
      BY <3>0, <3>1
    <3>5. ASSUME NEW l \in 1 .. k PROVE V[l] = Next1(V[l - 1], l)
      <4>1. CASE l = k
        <5>1. V[k] = Next1(U[k - 1], k) /\ V[k - 1] = U[k - 1]
          BY <3>0
        <5> HIDE DEF V
        <5> QED
          BY <4>1, <5>1
      <4>2. CASE l # k
        <5>1. l \in 1 .. (k - 1) /\ l \in 0 .. k /\ l - 1 \in 0 .. k /\ l - 1 # k
          BY <3>0, <4>2
        <5>2. V[l] = U[l] /\ V[l - 1] = U[l - 1]
          BY <4>2, <5>1
        <5>3. U[l] = Next1(U[l - 1], l)
          BY <3>1, <5>1
        <5> HIDE DEF V
        <5> QED
          BY <5>2, <5>3
      <4> QED
        BY <4>1, <4>2
    <3> HIDE DEF V
    <3>6. \E W \in [0 .. k -> Cursor(b, C)] : W[0] = start /\ \A l \in 1 .. k : W[l] = Next1(W[l - 1], l)
      BY <3>3, <3>4, <3>5
    <3> QED
      BY <3>0, <3>6
  <2>3. Good \in SUBSET Nat
    OBVIOUS
  <2> HIDE DEF Good
  <2>4. \A k \in 1 .. top : k - 1 \in Good => k \in Good
    BY <2>2
  <2>5. \A k \in 0 .. top : k \in Good
    BY <1>1, <2>1, <2>3, <2>4, UpTo
  <2> QED
    BY <1>1, <2>5
<1>5. PICK U \in [0 .. top -> Cursor(b, C)] :
        U[0] = start /\ \A l \in 1 .. top : U[l] = Next1(U[l - 1], l)
  BY <1>4
<1> DEFINE upTo == CHOOSE upTo : upTo =
                     [l \in 0 .. top |-> IF l = 0 THEN start
                                         ELSE IF l \in DOMAIN e THEN Step(b, upTo[l - 1], l, e[l])
                                         ELSE upTo[l - 1]]
<1>6. ReplayedLeniently(b, e) = Joined(upTo[top].out, SubSeq(b, upTo[top].src + 1, Len(b)))
  BY DEF ReplayedLeniently, start, top
<1>7. upTo = [l \in 0 .. top |-> IF l = 0 THEN start
                                  ELSE IF l \in DOMAIN e THEN Step(b, upTo[l - 1], l, e[l])
                                  ELSE upTo[l - 1]]
  <2>1. U = [l \in 0 .. top |-> U[l]]
    BY <1>5
  <2>2. ASSUME NEW l \in 0 .. top
        PROVE  U[l] = IF l = 0 THEN start
                      ELSE IF l \in DOMAIN e THEN Step(b, U[l - 1], l, e[l])
                      ELSE U[l - 1]
    <3>1. CASE l = 0
      BY <1>5, <3>1
    <3>2. CASE l # 0
      <4>1. l \in 1 .. top
        BY <1>1, <3>2
      <4> QED
        BY <1>5, <3>2, <4>1 DEF Next1
    <3> QED
      BY <3>1, <3>2
  <2>3. U = [l \in 0 .. top |-> IF l = 0 THEN start
                                ELSE IF l \in DOMAIN e THEN Step(b, U[l - 1], l, e[l])
                                ELSE U[l - 1]]
    BY <2>1, <2>2
  <2> QED
    BY <2>3
<1> HIDE DEF upTo
<1> DEFINE Same == {k \in Nat : k <= top => upTo[k] = U[k]}
<1>8. top \in Same
  <2>1. 0 \in Same
    <3>1. 0 \in 0 .. top
      BY <1>1
    <3>2. upTo[0] = start
      BY <1>7, <3>1
    <3> QED
      BY <1>5, <3>2
  <2>2. ASSUME NEW k \in 1 .. top, k - 1 \in Same PROVE k \in Same
    <3>1. k \in 0 .. top /\ k # 0 /\ k \in Nat /\ upTo[k - 1] = U[k - 1]
      BY <1>1, <2>2
    <3>2. upTo[k] = Next1(upTo[k - 1], k)
      BY <1>7, <3>1 DEF Next1
    <3>3. U[k] = Next1(U[k - 1], k)
      BY <1>5
    <3> QED
      BY <3>1, <3>2, <3>3
  <2>3. Same \in SUBSET Nat
    OBVIOUS
  <2> HIDE DEF Same
  <2>4. \A k \in 1 .. top : k - 1 \in Same => k \in Same
    BY <2>2
  <2>5. \A k \in 0 .. top : k \in Same
    BY <1>1, <2>1, <2>3, <2>4, UpTo
  <2> QED
    BY <1>1, <2>5
<1>9. upTo[top] = U[top]
  BY <1>1, <1>8
<1>10. \A l \in 1 .. top :
         U[l] = IF l \in DOMAIN e THEN Step(b, U[l - 1], l, e[l]) ELSE U[l - 1]
  BY <1>5 DEF Next1
<1>11. Walk(b, e, C, top, U)
  BY <1>1, <1>5, <1>6, <1>9, <1>10 DEF Walk, start
<1> QED
  BY <1>11

(* The line behind the last one looked at stands for a deleted one. *)
Shifted(b, e, s) ==
  /\ s.src \in 1 .. Len(b) /\ s.src + 1 \in DOMAIN e /\ s.src + 1 \in 1 .. Len(b)
  /\ b[s.src] = b[s.src + 1]
  /\ Survive(b, (1 .. s.src - 1) \ DOMAIN e, s.out)

Straight(b, e, s) == Survive(b, (1 .. s.src) \ DOMAIN e, s.out)

(* The lines up to m are copied, the cursor is at src. *)
Stands(b, e, s, m, src, offset) ==
  s.src = src /\ s.offset = offset /\ Survive(b, (1 .. m) \ DOMAIN e, s.out)

(* What a step does to an edit it has a place for, when all lines are whole. *)
LEMMA StepPlaces ==
  ASSUME NEW b \in WholeText, NEW s \in Cursor(b, Whole), NEW l \in Nat \ {0}, NEW e, EditsOf(b, e),
         \A k \in DOMAIN e : e[k].after \in Whole \cup {NoLine},
         l \in DOMAIN e, NEW m \in s.src .. Len(b), m <= Len(b),
         l - 1 + s.offset \in 0 .. Len(b),
         m = IF s.src < l - 1 + s.offset THEN l - 1 + s.offset ELSE s.src,
         Straight(b, e, s)
  PROVE  /\ Inserts(e[l]) =>
              /\ Step(b, s, l, e[l]).src = m /\ Step(b, s, l, e[l]).offset = s.offset + 1
              /\ Straight(b, e, Step(b, s, l, e[l]))
         /\ ~Inserts(e[l]) /\ ~(m < Len(b) /\ b[m + 1] = e[l].before) =>
              \/ Step(b, s, l, e[l]) = s
              \/ Step(b, s, l, e[l]).src = m /\ Step(b, s, l, e[l]).offset = s.offset
                 /\ Straight(b, e, Step(b, s, l, e[l]))
         /\ ~Inserts(e[l]) /\ m < Len(b) /\ b[m + 1] = e[l].before
            /\ l - 1 + s.offset < Len(b) =>
              Stands(b, e, Step(b, s, l, e[l]), m, m + 1,
                     IF Deletes(e[l]) THEN s.offset - 1 ELSE s.offset)
<1> DEFINE t == s.out \o SubSeq(b, s.src + 1, m)
           after == e[l].after
           r == Step(b, s, l, e[l])
<1>1. b \in Text /\ Len(b) \in Nat /\ \A k \in 1 .. Len(b) : b[k] # NoLine
  BY WholeFacts, TextFacts
<1>2. s.src \in 0 .. Len(b) /\ s.out \in WholeText /\ s.offset \in Int
  BY DEF Cursor, WholeText
<1>o. s.out \in Text
  BY <1>2, WholeFacts
<1>3. Survive(b, (1 .. m) \ DOMAIN e, t)
  <2>1. s.src \in 0 .. Len(b) /\ m \in s.src .. Len(b)
    BY <1>2
  <2> QED
    BY <1>1, <1>o, <2>1, SurvivesCopying DEF Straight
<1>4. t \in WholeText /\ t \in Text /\ Joined(s.out, SubSeq(b, s.src + 1, m)) = t
  <2>1. s.src \in Nat /\ m \in 0 .. Len(b)
    BY <1>1, <1>2
  <2>2. SubSeq(b, s.src + 1, m) \in Seq(Whole)
    BY <2>1, Copied DEF WholeText
  <2>3. t \in WholeText
    BY <1>2, <2>2 DEF WholeText
  <2> QED
    BY <1>2, <2>3, JoinedBehindWhole, WholeFacts
<1>5. ASSUME after # NoLine PROVE Survive(b, (1 .. m) \ DOMAIN e, t \o << after >>)
  <2>1. after \in Line
    BY <1>5 DEF Whole
  <2> HIDE DEF t, after
  <2>3. << after >> \in Text
    BY <2>1 DEF Text
  <2> QED
    BY <1>1, <1>3, <1>4, <2>3, SurvivesMore
<1>j. Joined(t, << after >>) = t \o << after >>
  BY <1>4, JoinedBehindWhole
<1>6. r = IF Inserts(e[l])
            THEN [src |-> m, out |-> t \o << after >>, offset |-> s.offset + 1]
          ELSE IF l - 1 + s.offset = Len(b) THEN s
          ELSE IF ~(m < Len(b) /\ b[m + 1] = e[l].before)
            THEN [s EXCEPT !.src = m, !.out = t]
          ELSE IF Deletes(e[l])
            THEN [src |-> m + 1, out |-> t, offset |-> s.offset - 1]
          ELSE [s EXCEPT !.src = m + 1, !.out = t \o << after >>]
  <2>1. ~(l - 1 + s.offset < 0 \/ l - 1 + s.offset > Len(b))
    BY <1>1
  <2>2. r = IF Inserts(e[l])
              THEN [src |-> m, out |-> Joined(Joined(s.out, SubSeq(b, s.src + 1, m)), << after >>),
                    offset |-> s.offset + 1]
            ELSE IF l - 1 + s.offset = Len(b) THEN s
            ELSE IF ~(m < Len(b) /\ b[m + 1] = e[l].before)
              THEN [s EXCEPT !.src = m, !.out = Joined(s.out, SubSeq(b, s.src + 1, m))]
            ELSE IF Deletes(e[l])
              THEN [src |-> m + 1, out |-> Joined(s.out, SubSeq(b, s.src + 1, m)),
                    offset |-> s.offset - 1]
            ELSE [s EXCEPT !.src = m + 1,
                           !.out = Joined(Joined(s.out, SubSeq(b, s.src + 1, m)), << after >>)]
    BY <2>1 DEF Step
  <2> HIDE DEF r, t, after
  <2> QED
    BY <1>4, <1>j, <2>2, Zenon
<1> HIDE DEF r, t
<1>7. ASSUME Inserts(e[l]) PROVE r.src = m /\ r.offset = s.offset + 1 /\ Straight(b, e, r)
  <2>1. r = [src |-> m, out |-> t \o << after >>, offset |-> s.offset + 1]
    BY <1>6, <1>7
  <2>2. after # NoLine
    BY <1>7 DEF Inserts
  <2>3. r.src = m /\ r.offset = s.offset + 1 /\ r.out = t \o << after >>
    BY <2>1
  <2> HIDE DEF after
  <2> QED
    BY <1>5, <2>2, <2>3 DEF Straight
<1>8. ASSUME ~Inserts(e[l]), ~(m < Len(b) /\ b[m + 1] = e[l].before)
      PROVE  r = s \/ (r.src = m /\ r.offset = s.offset /\ Straight(b, e, r))
  <2>1. r = s \/ r = [s EXCEPT !.src = m, !.out = t]
    BY <1>6, <1>8
  <2>2. ASSUME r = [s EXCEPT !.src = m, !.out = t]
        PROVE  r.src = m /\ r.offset = s.offset /\ r.out = t
    BY <2>2 DEF Cursor
  <2> QED
    BY <1>3, <2>1, <2>2 DEF Straight
<1>9. ASSUME ~Inserts(e[l]), m < Len(b), b[m + 1] = e[l].before, l - 1 + s.offset < Len(b)
      PROVE  /\ r.src = m + 1
             /\ r.offset = IF Deletes(e[l]) THEN s.offset - 1 ELSE s.offset
             /\ Survive(b, (1 .. m) \ DOMAIN e, r.out)
  <2>0. l - 1 + s.offset # Len(b)
    BY <1>1, <1>9
  <2>1. CASE Deletes(e[l])
    <3>1. r = [src |-> m + 1, out |-> t, offset |-> s.offset - 1]
      BY <1>6, <1>9, <2>0, <2>1
    <3>2. r.src = m + 1 /\ r.out = t /\ r.offset = s.offset - 1
      BY <3>1
    <3> QED
      BY <1>3, <2>1, <3>2
  <2>2. CASE ~Deletes(e[l])
    <3>1. r = [s EXCEPT !.src = m + 1, !.out = t \o << after >>]
      BY <1>6, <1>9, <2>0, <2>2
    <3>2. r.src = m + 1 /\ r.out = t \o << after >> /\ r.offset = s.offset
      BY <3>1 DEF Cursor
    <3>3. m + 1 \in 1 .. Len(b)
      BY <1>1, <1>2, <1>9
    <3>4. after # NoLine
      BY <1>1, <1>9, <2>2, <3>3 DEF Deletes
    <3> HIDE DEF after
    <3> QED
      BY <1>5, <2>2, <3>2, <3>4
  <2> QED
    BY <2>1, <2>2
<1> QED
  BY <1>7, <1>8, <1>9 DEF r, Stands

(* Behind the edits up to line l, when at most two of them delete. *)
Safe(b, e, l, s) ==
  /\ (\A k \in DOMAIN e : k <= l => ~Inserts(e[k]) /\ ~Deletes(e[k])) =>
       s.offset = 0 /\ s.src <= l /\ Straight(b, e, s)
  /\ (\E k \in DOMAIN e : k <= l /\ Inserts(e[k])) => Straight(b, e, s)
  /\ \A d \in DOMAIN e :
       d <= l /\ Deletes(e[d]) /\ (\A k \in DOMAIN e : k <= l /\ Deletes(e[k]) => k = d) =>
         s.offset = -1 /\ s.src = d /\ Straight(b, e, s)
  /\ (\E c, d \in DOMAIN e : c < d /\ d <= l /\ Deletes(e[c]) /\ Deletes(e[d])) =>
       Straight(b, e, s) \/ Shifted(b, e, s)

TwoDeletions(e) ==
  \A c, d, f \in DOMAIN e :
    Deletes(e[c]) /\ Deletes(e[d]) /\ Deletes(e[f]) => ~(c < d /\ d < f)

LEMMA SafeStep ==
  ASSUME NEW b \in WholeText, NEW e, EditsOf(b, e), TwoDeletions(e),
         \A k \in DOMAIN e : e[k].after \in Whole \cup {NoLine},
         NEW l \in Nat \ {0}, NEW s \in Cursor(b, Whole), Safe(b, e, l - 1, s)
  PROVE  Safe(b, e, l, IF l \in DOMAIN e THEN Step(b, s, l, e[l]) ELSE s)
<1>1. /\ Len(b) \in Nat /\ DOMAIN b = 1 .. Len(b)
      /\ \A k \in 1 .. Len(b) : b[k] \in Line /\ b[k] # NoLine
  BY WholeFacts, TextFacts
<1>2. s.src \in 0 .. Len(b) /\ s.offset \in Int
  BY DEF Cursor
<1>3. DOMAIN e \subseteq Nat \ {0}
  BY DEF EditsOf
<1>4. ASSUME NEW k \in DOMAIN e PROVE k <= l <=> (k = l \/ k <= l - 1)
  BY <1>3
<1>5. ASSUME NEW k \in DOMAIN e, NEW d \in DOMAIN e, k < d
      PROVE  (Inserts(e[k]) => Inserts(e[d])) /\ (Deletes(e[k]) => Deletes(e[d]))
  BY <1>5 DEF EditsOf
<1>6. \A k : ~(Inserts(e[k]) /\ Deletes(e[k]))
  BY DEF Inserts, Deletes
<1>7. CASE l \notin DOMAIN e
  <2>1. \A k \in DOMAIN e : k <= l <=> k <= l - 1
    BY <1>4, <1>7
  <2>2. s.src <= l - 1 => s.src <= l
    BY <1>2
  <2>3. Safe(b, e, l, s)
    BY <2>1, <2>2 DEF Safe
  <2> QED
    BY <1>7, <2>3
<1>8. CASE l \in DOMAIN e
  <2> DEFINE r == Step(b, s, l, e[l])
             i == l - 1 + s.offset
             m == IF s.src < i THEN i ELSE s.src
  <2>0. /\ e[l].before \in Line \cup {NoLine} /\ e[l].after \in Line \cup {NoLine}
        /\ e[l].before # e[l].after
        /\ e[l].before # NoLine => l \in 1 .. Len(b) /\ b[l] = e[l].before
    BY <1>1, <1>8 DEF EditsOf
  <2>1. ~Inserts(e[l]) => l \in 1 .. Len(b) /\ b[l] = e[l].before
    BY <2>0 DEF Inserts
  <2>2. i < 0 \/ i > Len(b) => r = s
    BY DEF Step
  <2>3. ASSUME i \in 0 .. Len(b) PROVE m \in s.src .. Len(b) /\ m <= Len(b) /\ m \in Nat
    BY <1>1, <1>2, <2>3
  <2>4. i \in Int
    BY <1>2
  <2> HIDE DEF r
  (* A line is inserted: all the edits behind it insert. *)
  <2>5. CASE Inserts(e[l])
    <3>1. \A k \in DOMAIN e : ~Deletes(e[k]) \/ k > l
      <4> SUFFICES ASSUME NEW k \in DOMAIN e, Deletes(e[k]), ~(k > l) PROVE FALSE
        OBVIOUS
      <4>1. k = l \/ k < l
        BY <1>3, <1>4
      <4> QED
        BY <1>5, <1>6, <1>8, <2>5, <4>1
    <3>2. Straight(b, e, s)
      <4>1. CASE \E k \in DOMAIN e : k <= l - 1 /\ Inserts(e[k])
        BY <4>1 DEF Safe
      <4>2. CASE \A k \in DOMAIN e : k <= l - 1 => ~Inserts(e[k])
        <5>1. \A k \in DOMAIN e : k <= l - 1 => ~Deletes(e[k])
          BY <1>3, <3>1
        <5> QED
          BY <4>2, <5>1 DEF Safe
      <4> QED
        BY <4>1, <4>2
    <3>3. Straight(b, e, r)
      <4>1. CASE i \in 0 .. Len(b)
        <5>1. m \in s.src .. Len(b) /\ m <= Len(b)
          BY <2>3, <4>1
        <5> QED
          BY <1>8, <2>5, <3>2, <4>1, <5>1, StepPlaces DEF r
      <4>2. CASE i \notin 0 .. Len(b)
        <5>1. r = s
          BY <1>1, <2>2, <2>4, <4>2
        <5> QED
          BY <3>2, <5>1
      <4> QED
        BY <4>1, <4>2
    <3>4. Safe(b, e, l, r)
      <4>1. l <= l
        OBVIOUS
      <4>2. \A k \in DOMAIN e : k <= l => ~Deletes(e[k])
        BY <1>3, <3>1
      <4> QED
        BY <1>8, <2>5, <3>3, <4>1, <4>2 DEF Safe
    <3> QED
      BY <1>8, <3>4 DEF r
  (* Nothing has been inserted or deleted yet: the edit finds its line. *)
  <2>6. CASE ~Inserts(e[l]) /\ \A k \in DOMAIN e : k <= l - 1 => ~Deletes(e[k])
    <3>1. \A k \in DOMAIN e : k <= l => ~Inserts(e[k])
      <4> SUFFICES ASSUME NEW k \in DOMAIN e, k <= l, Inserts(e[k]) PROVE FALSE
        OBVIOUS
      <4>1. k = l \/ k < l
        BY <1>3
      <4> QED
        BY <1>5, <1>8, <2>6, <4>1
    <3>2. s.offset = 0 /\ s.src <= l - 1 /\ Straight(b, e, s)
      <4>1. \A k \in DOMAIN e : k <= l - 1 => ~Inserts(e[k])
        BY <1>4, <3>1
      <4> QED
        BY <2>6, <4>1 DEF Safe
    <3>3. i = l - 1 /\ i \in 0 .. Len(b) /\ i < Len(b) /\ m = l - 1 /\ l - 1 \in 0 .. Len(b) /\ m < Len(b) /\ m + 1 = l
      BY <1>1, <1>2, <2>1, <2>6, <3>2
    <3>4. /\ r.src = l
          /\ r.offset = IF Deletes(e[l]) THEN s.offset - 1 ELSE s.offset
          /\ Survive(b, (1 .. (l - 1)) \ DOMAIN e, r.out)
      <4>1. m \in s.src .. Len(b) /\ m <= Len(b)
        BY <2>3, <3>3
      <4>2. b[m + 1] = e[l].before
        BY <2>1, <2>6, <3>3
      <4>a. m = IF s.src < l - 1 + s.offset THEN l - 1 + s.offset ELSE s.src
        OBVIOUS
      <4>b. l - 1 + s.offset \in 0 .. Len(b) /\ l - 1 + s.offset < Len(b)
        BY <3>3
      <4>3. Stands(b, e, r, m, m + 1, IF Deletes(e[l]) THEN s.offset - 1 ELSE s.offset)
        <5>1. ~Inserts(e[l]) /\ Straight(b, e, s) /\ m < Len(b)
          BY <2>6, <3>2, <3>3
        <5> HIDE DEF m
        <5> QED
          BY <1>8, <4>1, <4>2, <4>a, <4>b, <5>1, StepPlaces DEF r
      <4> QED
        BY <3>3, <4>3 DEF Stands
    <3>5. Straight(b, e, r)
      <4>1. (1 .. l) \ DOMAIN e = (1 .. (l - 1)) \ DOMAIN e
        BY <1>8
      <4> QED
        BY <3>4, <4>1 DEF Straight
    <3>6. CASE Deletes(e[l])
      <4>1. r.offset = -1 /\ r.src = l
        BY <3>2, <3>4, <3>6
      <4>2. \A k \in DOMAIN e : k <= l /\ Deletes(e[k]) => k = l
        BY <1>4, <2>6
      <4>3. l <= l
        OBVIOUS
      <4>4. Safe(b, e, l, r)
        BY <1>8, <3>5, <3>6, <4>1, <4>2, <4>3 DEF Safe
      <4> QED
        BY <1>8, <4>4 DEF r
    <3>7. CASE ~Deletes(e[l])
      <4>1. r.offset = 0 /\ r.src <= l
        BY <3>2, <3>4, <3>7
      <4>2. \A k \in DOMAIN e : k <= l => ~Deletes(e[k])
        BY <1>4, <2>6, <3>7
      <4>3. Safe(b, e, l, r)
        BY <3>1, <3>5, <4>1, <4>2 DEF Safe
      <4> QED
        BY <1>8, <4>3 DEF r
    <3> QED
      BY <3>6, <3>7
  (* The second deletion is looked for one line too early. *)
  <2>7. CASE ~Inserts(e[l]) /\ \E k \in DOMAIN e : k <= l - 1 /\ Deletes(e[k])
    <3>1. PICK d \in DOMAIN e : d <= l - 1 /\ Deletes(e[d])
      BY <2>7
    <3>2. d \in Nat \ {0} /\ d < l
      BY <1>3, <3>1
    <3>3. Deletes(e[l])
      BY <1>5, <1>8, <3>1, <3>2
    <3>4. \A k \in DOMAIN e : k <= l - 1 /\ Deletes(e[k]) => k = d
      <4> SUFFICES ASSUME NEW k \in DOMAIN e, k <= l - 1, Deletes(e[k]), k # d PROVE FALSE
        OBVIOUS
      <4>1. k < l /\ (k < d \/ d < k)
        BY <1>3, <3>2
      <4> QED
        BY <1>8, <3>1, <3>2, <3>3, <4>1 DEF TwoDeletions
    <3>5. s.offset = -1 /\ s.src = d /\ Straight(b, e, s)
      BY <3>1, <3>4 DEF Safe
    <3>6. l \in 1 .. Len(b) /\ b[l] = e[l].before
      BY <2>1, <2>7
    <3>7. i = l - 2 /\ i \in 0 .. Len(b) /\ i < Len(b) /\ m = IF d < l - 2 THEN l - 2 ELSE d
      BY <3>2, <3>5, <3>6
    <3>8. m \in s.src .. Len(b) /\ m <= Len(b) /\ m \in Nat
      BY <2>3, <3>7
    <3>9. Straight(b, e, r) \/ Shifted(b, e, r)
      <4>1. CASE ~(m < Len(b) /\ b[m + 1] = e[l].before)
        <5>1. r = s \/ Straight(b, e, r)
          BY <1>8, <2>7, <3>5, <3>7, <3>8, <4>1, StepPlaces DEF r
        <5> QED
          BY <3>5, <5>1
      <4>2. CASE m < Len(b) /\ b[m + 1] = e[l].before
        <5>a. m = IF s.src < l - 1 + s.offset THEN l - 1 + s.offset ELSE s.src
          OBVIOUS
        <5>b. l - 1 + s.offset \in 0 .. Len(b) /\ l - 1 + s.offset < Len(b)
          BY <3>7
        <5>1. r.src = m + 1 /\ Survive(b, (1 .. m) \ DOMAIN e, r.out)
          <6>1. ~Inserts(e[l]) /\ Straight(b, e, s)
            BY <2>7, <3>5
          <6>2. m \in s.src .. Len(b) /\ m <= Len(b)
            BY <3>8
          <6>3. m < Len(b) /\ b[m + 1] = e[l].before
            BY <4>2
          <6> HIDE DEF m, i
          <6>4. Stands(b, e, r, m, m + 1, IF Deletes(e[l]) THEN s.offset - 1 ELSE s.offset)
            BY <1>8, <5>a, <5>b, <6>1, <6>2, <6>3, StepPlaces DEF r
          <6> QED
            BY <6>4 DEF Stands
        <5>2. CASE m + 1 = l
          <6>1. (1 .. l) \ DOMAIN e = (1 .. m) \ DOMAIN e
            BY <1>8, <3>8, <5>2
          <6> QED
            BY <5>1, <5>2, <6>1 DEF Straight
        <5>3. CASE m + 1 # l
          <6>1. m = l - 2 /\ m + 1 = l - 1
            BY <3>2, <3>7, <5>3
          <6>2. m + 1 \in 1 .. Len(b) /\ (m + 1) + 1 = l /\ m = (m + 1) - 1
            BY <1>1, <3>6, <3>8, <6>1
          <6>3. b[m + 1] = b[(m + 1) + 1]
            BY <3>6, <4>2, <6>2
          <6> HIDE DEF m
          <6> QED
            BY <1>8, <3>6, <5>1, <6>2, <6>3 DEF Shifted
        <5> QED
          BY <5>2, <5>3
      <4> QED
        BY <4>1, <4>2
    <3>10. Safe(b, e, l, r)
      <4>1. d <= l /\ l <= l /\ d # l
        BY <3>2
      <4>2. \A k \in DOMAIN e : k <= l => ~Inserts(e[k])
        <5> SUFFICES ASSUME NEW k \in DOMAIN e, k <= l, Inserts(e[k]) PROVE FALSE
          OBVIOUS
        <5>1. k = l \/ k < l
          BY <1>3
        <5> QED
          BY <1>5, <1>8, <2>7, <5>1
      <4> QED
        BY <1>8, <3>1, <3>3, <3>9, <4>1, <4>2 DEF Safe
    <3> QED
      BY <1>8, <3>10 DEF r
  <2> QED
    BY <2>5, <2>6, <2>7
<1> QED
  BY <1>7, <1>8

(* Among three numbers of a set of at most two are two equal ones. *)
LEMMA ThreeAreTooMany ==
  ASSUME NEW n \in Nat, NEW S \in SUBSET (1 .. n), Cardinality(S) <= 2,
         NEW c \in S, NEW d \in S, NEW f \in S, c < d, d < f
  PROVE  FALSE
<1>1. IsFiniteSet(1 .. n)
  BY FS_Interval
<1>2. IsFiniteSet(S)
  BY <1>1, FS_Subset
<1>3. IsFiniteSet({}) /\ Cardinality({}) = 0
  BY FS_EmptySet
<1>4. IsFiniteSet({c}) /\ Cardinality({c}) = 1
  <2>1. {} \cup {c} = {c} /\ c \notin {}
    OBVIOUS
  <2> QED
    BY <1>3, <2>1, FS_AddElement
<1>5. IsFiniteSet({c, d}) /\ Cardinality({c, d}) = 2
  <2>1. {c} \cup {d} = {c, d} /\ d \notin {c}
    OBVIOUS
  <2>2. IsFiniteSet({c} \cup {d}) /\ Cardinality({c} \cup {d}) = Cardinality({c}) + 1
    BY <1>4, <2>1, FS_AddElement
  <2> QED
    BY <1>4, <2>1, <2>2
<1>6. IsFiniteSet({c, d, f}) /\ Cardinality({c, d, f}) = 3
  <2>1. {c, d} \cup {f} = {c, d, f} /\ f \notin {c, d}
    OBVIOUS
  <2>2. IsFiniteSet({c, d} \cup {f}) /\ Cardinality({c, d} \cup {f}) = Cardinality({c, d}) + 1
    BY <1>5, <2>1, FS_AddElement
  <2> QED
    BY <1>5, <2>1, <2>2
<1>7. {c, d, f} \subseteq S
  OBVIOUS
<1>8. Cardinality({c, d, f}) <= Cardinality(S)
  BY <1>2, <1>7, FS_Subset
<1>9. Cardinality(S) \in Nat
  BY <1>2, FS_CardinalityType
<1> QED
  BY <1>6, <1>8, <1>9

(* A lenient replay is a text, and keeps all lines that no edit names as   *)
(* long as it deletes at most two.                                         *)
LEMMA LenientIsText ==
  ASSUME NEW b \in Text, NEW e, Edits(e)
  PROVE  ReplayedLeniently(b, e) \in Text
<1>1. PICK top, U : Walk(b, e, Line, top, U)
  <2>1. b \in Seq(Line) /\ \A l \in DOMAIN e : e[l].after \in Line \cup {NoLine}
    BY DEF Text, Edits
  <2> QED
    BY <2>1, LenientWalks
<1>2. /\ ReplayedLeniently(b, e) = Joined(U[top].out, SubSeq(b, U[top].src + 1, Len(b)))
      /\ U[top].out \in Text /\ U[top].src \in 0 .. Len(b)
  BY <1>1 DEF Walk, Cursor, Text
<1>3. SubSeq(b, U[top].src + 1, Len(b)) \in Text
  <2>1. U[top].src \in Nat /\ Len(b) \in 0 .. Len(b)
    BY <1>2, TextFacts
  <2> QED
    BY <2>1, Copied DEF Text
<1> QED
  BY <1>2, <1>3, JoinedIsText

LEMMA Regrouped == \A t, u, v \in Seq(Line) : (t \o u) \o v = t \o (u \o v)
BY ConcatAssociative

LEMMA LenientExplains ==
  ASSUME NEW b \in WholeText, NEW e, EditsOf(b, e),
         \A l \in DOMAIN e : e[l].after \in Whole \cup {NoLine},
         Cardinality({l \in DOMAIN e : Deletes(e[l])}) <= 2
  PROVE  Survive(b, DOMAIN b \ DOMAIN e, ReplayedLeniently(b, e))
<1>w. b \in Text
  BY WholeFacts
<1> USE <1>w
<1>1. PICK top, U : Walk(b, e, Whole, top, U)
  BY EditsAreEdits, LenientWalks DEF WholeText
<1>0. /\ top \in Nat /\ DOMAIN e \subseteq 1 .. top
      /\ \A l \in 0 .. top : U[l] \in Cursor(b, Whole)
      /\ U[0] = [src |-> 0, out |-> << >>, offset |-> 0]
      /\ \A l \in 1 .. top :
           U[l] = IF l \in DOMAIN e THEN Step(b, U[l - 1], l, e[l]) ELSE U[l - 1]
      /\ ReplayedLeniently(b, e) = Joined(U[top].out, SubSeq(b, U[top].src + 1, Len(b)))
  BY <1>1 DEF Walk
<1>2. Len(b) \in Nat /\ DOMAIN b = 1 .. Len(b) /\ \A l \in 1 .. Len(b) : b[l] \in Line
  BY TextFacts
<1>3. TwoDeletions(e)
  <2> DEFINE S == {l \in DOMAIN e : Deletes(e[l])}
  <2>1. S \in SUBSET (1 .. top) /\ Cardinality(S) <= 2
    BY <1>0
  <2>2. ASSUME NEW c \in S, NEW d \in S, NEW f \in S, c < d, d < f PROVE FALSE
    <3> HIDE DEF S
    <3> QED
      BY <1>0, <2>1, <2>2, ThreeAreTooMany
  <2> QED
    BY <2>2 DEF TwoDeletions
<1> DEFINE Good == {l \in Nat : l <= top => Safe(b, e, l, U[l])}
<1>4. 0 \in Good
  <2>1. \A k \in DOMAIN e : ~(k <= 0)
    BY <1>0
  <2>2. Straight(b, e, U[0])
    <3>1. U[0].src = 0 /\ U[0].out = << >>
      BY <1>0
    <3>2. (1 .. 0) \ DOMAIN e = {}
      OBVIOUS
    <3>4. Survive(b, {}, << >>)
      BY SurvivesNothing
    <3> QED
      BY <3>1, <3>2, <3>4 DEF Straight
  <2>3. U[0].offset = 0 /\ U[0].src <= 0
    BY <1>0
  <2>4. Safe(b, e, 0, U[0])
    BY <2>1, <2>2, <2>3 DEF Safe
  <2> QED
    BY <2>4
<1>5. ASSUME NEW l \in 1 .. top, l - 1 \in Good PROVE l \in Good
  <2>1. l - 1 \in 0 .. top /\ l - 1 <= top /\ l \in Nat \ {0}
    BY <1>0
  <2>2. U[l - 1] \in Cursor(b, Whole) /\ Safe(b, e, l - 1, U[l - 1])
    BY <1>0, <1>5, <2>1
  <2>3. Safe(b, e, l, IF l \in DOMAIN e THEN Step(b, U[l - 1], l, e[l]) ELSE U[l - 1])
    BY <1>3, <2>1, <2>2, SafeStep
  <2>4. Safe(b, e, l, U[l])
    BY <1>0, <2>3
  <2> QED
    BY <2>1, <2>4
<1>6. Safe(b, e, top, U[top])
  <2>1. Good \in SUBSET Nat
    OBVIOUS
  <2> HIDE DEF Good
  <2>2. \A l \in 1 .. top : l - 1 \in Good => l \in Good
    BY <1>5
  <2>3. \A l \in 0 .. top : l \in Good
    BY <1>0, <1>4, <2>1, <2>2, UpTo
  <2>4. top \in Good
    BY <1>0, <2>3
  <2> QED
    BY <1>0, <2>4 DEF Good
<1>7. PICK s \in Cursor(b, Whole) : s = U[top]
  BY <1>0
<1>8. Straight(b, e, s) \/ Shifted(b, e, s)
  <2>0. \A k \in DOMAIN e : k <= top /\ k \in Nat
    BY <1>0
  <2>1. CASE \E k \in DOMAIN e : Inserts(e[k])
    BY <1>6, <1>7, <2>0, <2>1 DEF Safe
  <2>2. CASE \A k \in DOMAIN e : ~Inserts(e[k]) /\ ~Deletes(e[k])
    BY <1>6, <1>7, <2>2 DEF Safe
  <2>3. ASSUME NEW d \in DOMAIN e, Deletes(e[d]) PROVE Straight(b, e, s) \/ Shifted(b, e, s)
    <3>1. CASE \A k \in DOMAIN e : Deletes(e[k]) => k = d
      BY <1>6, <1>7, <2>0, <2>3, <3>1 DEF Safe
    <3>2. ASSUME NEW k \in DOMAIN e, Deletes(e[k]), k # d PROVE Straight(b, e, s) \/ Shifted(b, e, s)
      <4>1. k < d \/ d < k
        BY <2>0, <3>2
      <4>2. \E c, f \in DOMAIN e : c < f /\ f <= top /\ Deletes(e[c]) /\ Deletes(e[f])
        BY <2>0, <2>3, <3>2, <4>1
      <4> QED
        BY <1>6, <1>7, <4>2 DEF Safe
    <3> QED
      BY <3>1, <3>2
  <2> QED
    BY <2>1, <2>2, <2>3
<1>9. s.src \in 0 .. Len(b) /\ s.out \in Text /\ s.out \in WholeText
  BY WholeFacts DEF Cursor, WholeText
<1>10. ReplayedLeniently(b, e) = s.out \o SubSeq(b, s.src + 1, Len(b))
  BY <1>0, <1>7, <1>9, JoinedBehindWhole
<1>11. Survive(b, (1 .. Len(b)) \ DOMAIN e, s.out \o SubSeq(b, s.src + 1, Len(b)))
  <2>1. CASE Straight(b, e, s)
    <3>1. s.src \in 0 .. Len(b) /\ Len(b) \in s.src .. Len(b)
      BY <1>2, <1>9
    <3> QED
      BY <1>9, <2>1, <3>1, SurvivesCopying DEF Straight
  <2>2. CASE Shifted(b, e, s)
    <3>1. PICK j \in 1 .. Len(b) : j = s.src
      BY <2>2 DEF Shifted
    <3>2. /\ j + 1 \in DOMAIN e /\ j + 1 \in 1 .. Len(b) /\ b[j] = b[j + 1]
          /\ Survive(b, (1 .. j - 1) \ DOMAIN e, s.out)
      BY <2>2, <3>1 DEF Shifted
    <3>0. /\ j \in Nat /\ Len(b) \in Nat
          /\ j + 1 \in 1 .. Len(b) /\ Len(b) \in (j + 1) .. Len(b)
      <4>1. Len(b) \in Nat
        BY <1>2
      <4> QED
        BY <3>2, <4>1
    <3>3. Survive(b, (1 .. j) \ DOMAIN e, s.out \o << b[j] >>)
      <4>1. j - 1 \in 0 .. Len(b) /\ j \in (j - 1) .. Len(b) /\ (j - 1) + 1 = j
        BY <1>2
      <4>2. Survive(b, (1 .. j) \ DOMAIN e, s.out \o SubSeq(b, (j - 1) + 1, j))
        BY <1>9, <3>2, <4>1, SurvivesCopying
      <4>3. SubSeq(b, j, j) = << b[j] >>
        BY OneLine
      <4> QED
        BY <4>1, <4>2, <4>3
    <3>4. s.out \in Seq(Line) /\ << b[j] >> \in Seq(Line) /\ b \in Seq(Line)
      BY <1>2, <1>9 DEF Text
    <3>5. s.out \o << b[j] >> \in Text
      BY <3>4 DEF Text
    <3>6. Survive(b, (1 .. j + 1) \ DOMAIN e, s.out \o << b[j] >>)
      <4>1. ((1 .. j + 1) \ DOMAIN e) = (1 .. j) \ DOMAIN e
        BY <1>2, <3>2
      <4> QED
        BY <3>3, <4>1
    <3>7. Survive(b, (1 .. Len(b)) \ DOMAIN e,
                  (s.out \o << b[j] >>) \o SubSeq(b, (j + 1) + 1, Len(b)))
      <4>1. j + 1 \in 0 .. Len(b) /\ Len(b) \in (j + 1) .. Len(b)
        BY <3>0
      <4> QED
        BY <3>5, <3>6, <4>1, SurvivesCopying
    <3>8. SubSeq(b, (j + 1) + 1, Len(b)) \in Seq(Line)
      <4>1. (j + 1) + 1 \in Int /\ Len(b) \in Int /\ \A i \in ((j + 1) + 1) .. Len(b) : b[i] \in Line
        BY <1>2
      <4> QED
        BY <4>1, SubSeqProperties
    <3>9. SubSeq(b, j + 1, Len(b)) = << b[j] >> \o SubSeq(b, (j + 1) + 1, Len(b))
      <4>2. SubSeq(b, j + 1, Len(b)) = << b[j + 1] >> \o SubSeq(b, (j + 1) + 1, Len(b))
        BY <3>0, <3>4, SubSeqRecursiveFirst
      <4> QED
        BY <3>2, <4>2
    <3>10. (s.out \o << b[j] >>) \o SubSeq(b, (j + 1) + 1, Len(b))
             = s.out \o (<< b[j] >> \o SubSeq(b, (j + 1) + 1, Len(b)))
      <4> DEFINE line == << b[j] >>
                 rest == SubSeq(b, (j + 1) + 1, Len(b))
      <4>1. s.out \in Seq(Line) /\ line \in Seq(Line) /\ rest \in Seq(Line)
        BY <3>4, <3>8
      <4> HIDE DEF line, rest
      <4>2. (s.out \o line) \o rest = s.out \o (line \o rest)
        BY <4>1, Regrouped, Zenon
      <4> QED
        BY <4>2 DEF line, rest
    <3> QED
      BY <3>1, <3>7, <3>9, <3>10
  <2> QED
    BY <1>8, <2>1, <2>2
<1> QED
  BY <1>2, <1>10, <1>11


(* Edits without line breaks that insert nothing find nothing: the lenient *)
(* replay is the text it is asked to edit.                                 *)
LEMMA LenientFindsNothing ==
  ASSUME NEW b \in WholeText, NEW e, BareEdits(e), \A l \in DOMAIN e : ~Inserts(e[l])
  PROVE  ReplayedLeniently(b, e) = b
<1>1. b \in Text /\ b \in Seq(Line) /\ Len(b) \in Nat /\ \A l \in 1 .. Len(b) : Ends(b[l])
  BY WholeFacts DEF Text
<1>2. PICK top, U : Walk(b, e, Line, top, U)
  <2>1. Edits(e) /\ \A l \in DOMAIN e : e[l].after \in Line \cup {NoLine}
    BY DEF BareEdits, Edits
  <2> QED
    BY <1>1, <2>1, LenientWalks
<1>3. /\ top \in Nat /\ \A l \in 0 .. top : U[l] \in Cursor(b, Line)
      /\ U[0] = [src |-> 0, out |-> << >>, offset |-> 0]
      /\ \A l \in 1 .. top :
           U[l] = IF l \in DOMAIN e THEN Step(b, U[l - 1], l, e[l]) ELSE U[l - 1]
      /\ ReplayedLeniently(b, e) = Joined(U[top].out, SubSeq(b, U[top].src + 1, Len(b)))
  BY <1>2 DEF Walk
<1>4. ASSUME NEW i \in 0 .. Len(b), NEW j \in i .. Len(b)
      PROVE  Joined(SubSeq(b, 1, i), SubSeq(b, i + 1, j)) = SubSeq(b, 1, j)
  <2>1. SubSeq(b, 1, i) \in WholeText
    <3>1. SubSeq(b, 0 + 1, i) \in Seq(Whole)
      BY Copied DEF WholeText
    <3> QED
      BY <3>1 DEF WholeText
  <2>2. SubSeq(b, 1, i) \o SubSeq(b, i + 1, j) = SubSeq(b, 1, j)
    <3>1. 1 \in 1 .. Len(b) + 1 /\ i \in 1 - 1 .. Len(b) /\ j \in i .. Len(b)
      BY <1>1
    <3> QED
      BY <1>1, <3>1, ConcatAdjacentSubSeq
  <2> QED
    BY <2>1, <2>2, JoinedBehindWhole
<1> DEFINE Good == {l \in Nat : l <= top => U[l].out = SubSeq(b, 1, U[l].src)}
<1>5. 0 \in Good
  <2>1. SubSeq(b, 1, 0) = << >>
    BY SubSeqEmpty
  <2>2. U[0].src = 0 /\ U[0].out = << >>
    BY <1>3
  <2> QED
    BY <2>1, <2>2
<1>6. ASSUME NEW l \in 1 .. top, l - 1 \in Good PROVE l \in Good
  <2>1. l \in Nat /\ l - 1 \in 0 .. top /\ l - 1 <= top
    BY <1>3
  <2>2. PICK s \in Cursor(b, Line) : s = U[l - 1]
    BY <1>3, <2>1
  <2>3. s.src \in 0 .. Len(b) /\ s.offset \in Int /\ s.out = SubSeq(b, 1, s.src)
    BY <1>6, <2>1, <2>2 DEF Cursor
  <2>4. CASE l \notin DOMAIN e
    <3>1. U[l] = s
      BY <1>3, <2>2, <2>4
    <3> QED
      BY <2>1, <2>3, <3>1
  <2>5. CASE l \in DOMAIN e
    <3> DEFINE index == l - 1 + s.offset
               moved == IF s.src < index THEN index ELSE s.src
               copied == Joined(s.out, SubSeq(b, s.src + 1, moved))
    <3>1. U[l] = Step(b, s, l, e[l])
      BY <1>3, <2>2, <2>5
    <3>2. CASE index < 0 \/ index > Len(b) \/ index = Len(b)
      <4>1. U[l] = s
        BY <2>5, <3>1, <3>2 DEF Step
      <4> QED
        BY <2>1, <2>3, <4>1
    <3>3. CASE ~(index < 0 \/ index > Len(b) \/ index = Len(b))
      <4>1. moved \in s.src .. Len(b)
        BY <1>1, <2>1, <2>3, <3>3
      <4>2. ~(moved < Len(b) /\ b[moved + 1] = e[l].before)
        <5>1. moved < Len(b) => moved + 1 \in 1 .. Len(b)
          BY <1>1, <2>3, <4>1
        <5> QED
          BY <1>1, <2>5, <5>1 DEF BareEdits
      <4>3. U[l] = [s EXCEPT !.src = moved, !.out = copied]
        BY <2>5, <3>1, <3>3, <4>2 DEF Step
      <4> HIDE DEF copied, moved
      <4>4. U[l].src = moved /\ U[l].out = copied
        BY <4>3 DEF Cursor
      <4>5. copied = SubSeq(b, 1, moved)
        BY <1>4, <2>3, <4>1 DEF copied
      <4> QED
        BY <2>1, <4>4, <4>5
    <3> QED
      BY <3>2, <3>3
  <2> QED
    BY <2>4, <2>5
<1>7. U[top].out = SubSeq(b, 1, U[top].src)
  <2>1. Good \in SUBSET Nat
    OBVIOUS
  <2> HIDE DEF Good
  <2>2. \A l \in 1 .. top : l - 1 \in Good => l \in Good
    BY <1>6
  <2>3. \A l \in 0 .. top : l \in Good
    BY <1>3, <1>5, <2>1, <2>2, UpTo
  <2> QED
    BY <1>3, <2>3 DEF Good
<1>8. U[top].src \in 0 .. Len(b) /\ Len(b) \in U[top].src .. Len(b)
  BY <1>1, <1>3 DEF Cursor
<1>9. ReplayedLeniently(b, e) = SubSeq(b, 1, Len(b))
  BY <1>3, <1>4, <1>7, <1>8
<1> QED
  BY <1>1, <1>9, SubSeqFull

-----------------------------------------------------------------------------
(* Filters, guards and claims                                              *)

LEMMA NothingHappened ==
  ASSUME NEW b \in Text, NEW lines
  PROVE  /\ Result(b, NoEdits).text = b /\ Result(b, NoEdits).edits = NoEdits
         /\ DOMAIN Result(b, NoEdits).edits = {}
         /\ Survive(b, lines, Result(b, NoEdits).text)
<1>1. Result(b, NoEdits).text = b /\ Result(b, NoEdits).edits = NoEdits
  BY DEF Result
<1> QED
  BY <1>1, NoEditsAreEdits, SurvivesItself

LEMMA SynthesizeIsEdits ==
  ASSUME NEW b \in Text, NEW a \in Text
  PROVE  /\ EditsOf(b, Synthesize(b, a))
         /\ Survive(b, DOMAIN b \ DOMAIN Synthesize(b, a), a)
BY SynthesizeRecords, RecordingIsEdits, RecordingExplains

(* What is known of the edits of a result, and of every result, of a policy *)
(* that reads b.                                                           *)
KnownEdits(b, e) == EditsOf(b, e) \/ BareEdits(e)

ResultOf(b, r) ==
  r.text \in Text /\ KnownEdits(b, r.edits) /\ r = Result(r.text, r.edits)

LEMMA SomeKnownEdits ==
  ASSUME NEW b, NEW e, KnownEdits(b, e), NEW lines
  PROVE  KnownEdits(b, Without(e, lines))
BY SomeEdits, SomeBareEdits DEF KnownEdits

LEMMA ResultIs ==
  ASSUME NEW b, NEW text \in Text, NEW edits, KnownEdits(b, edits)
  PROVE  /\ ResultOf(b, Result(text, edits))
         /\ Result(text, edits).text = text /\ Result(text, edits).edits = edits
BY DEF ResultOf, Result

LEMMA NothingIsAResult == ASSUME NEW b \in Text PROVE ResultOf(b, Result(b, NoEdits))
BY NoEditsAreEdits, ResultIs DEF KnownEdits

(* The output guard: the old text, or the text with edits that explain it. *)
LEMMA GuardedExplains ==
  ASSUME NEW r, before \in Text, ResultOf(before, r)
  PROVE  /\ ResultOf(before, Guarded(r))
         /\ Guarded(r).text = before \/ Guarded(r).text = r.text
         /\ Survive(before, DOMAIN before \ DOMAIN Guarded(r).edits, Guarded(r).text)
<1> DEFINE recorded == Synthesize(before, r.text)
           covered == NormalizeCoverage(before, r)
<1>1. r.text \in Text /\ Edits(r.edits)
  BY EditsAreEdits DEF ResultOf, KnownEdits
<1>2. EditsOf(before, recorded) /\ Survive(before, DOMAIN before \ DOMAIN recorded, r.text)
  BY <1>1, SynthesizeIsEdits
<1>3. /\ ResultOf(before, Result(before, NoEdits)) /\ Result(before, NoEdits).text = before
      /\ Survive(before, DOMAIN before \ DOMAIN Result(before, NoEdits).edits, Result(before, NoEdits).text)
  BY NothingIsAResult, NothingHappened
<1>4. \/ covered = Result(before, NoEdits)
      \/ covered = Result(r.text, recorded)
      \/ covered = r /\ Replayed(before, r.edits) = r.text
      \/ covered = r /\ DOMAIN r.edits = DOMAIN recorded
  BY DEF NormalizeCoverage
<1> HIDE DEF covered, recorded
<1>5. /\ ResultOf(before, covered)
      /\ covered.text = before \/ covered.text = r.text
      /\ Survive(before, DOMAIN before \ DOMAIN covered.edits, covered.text)
  <2>1. CASE covered = Result(before, NoEdits)
    BY <1>3, <2>1
  <2>2. CASE covered = Result(r.text, recorded)
    <3>1. /\ ResultOf(before, Result(r.text, recorded))
          /\ Result(r.text, recorded).text = r.text /\ Result(r.text, recorded).edits = recorded
      BY <1>1, <1>2, ResultIs DEF KnownEdits
    <3> QED
      BY <1>2, <2>2, <3>1
  <2>3. CASE covered = r /\ Replayed(before, r.edits) = r.text
    <3>1. Survive(before, DOMAIN before \ DOMAIN r.edits, Replayed(before, r.edits))
      BY <1>1, ReplayedExplains
    <3> QED
      BY <2>3, <3>1
  <2>4. CASE covered = r /\ DOMAIN r.edits = DOMAIN recorded
    BY <1>2, <2>4
  <2> QED
    BY <1>4, <2>1, <2>2, <2>3, <2>4
<1>6. Guarded(r) = IF DOMAIN covered.edits = {} THEN Result(before, NoEdits) ELSE covered
  BY DEF Guarded, covered
<1> QED
  BY <1>3, <1>5, <1>6

(* The suppression of forbidden lines keeps them, when nothing has been    *)
(* suppressed before.                                                      *)
LEMMA NonLocalSuppression ==
  ASSUME NEW b \in Text, NEW r, ResultOf(b, r), NEW lines
  PROVE  /\ ResultOf(b, SuppressNonLocal(b, r, lines))
         /\ Survive(b, lines, SuppressNonLocal(b, r, lines).text)
<1> DEFINE partial == Without(Synthesize(b, r.text), lines)
           adjusted == IF Replayable(b, partial)
                         THEN Replayed(b, partial)
                         ELSE ReplayedLeniently(b, partial)
           edits == Synthesize(b, adjusted)
<1>1. EditsOf(b, partial)
  <2>1. EditsOf(b, Synthesize(b, r.text))
    BY SynthesizeIsEdits DEF ResultOf
  <2> QED
    BY <2>1, SomeEdits
<1>2. SuppressNonLocal(b, r, lines) =
        IF DOMAIN edits \cap lines = {} THEN Result(adjusted, edits) ELSE Result(b, NoEdits)
  BY DEF SuppressNonLocal
<1> HIDE DEF partial
<1>3. adjusted \in Text
  BY <1>1, EditsAreEdits, ReplayedExplains, LenientIsText
<1> HIDE DEF adjusted
<1>4. EditsOf(b, edits) /\ Survive(b, DOMAIN b \ DOMAIN edits, adjusted)
  BY <1>3, SynthesizeIsEdits
<1> HIDE DEF edits
<1>5. CASE DOMAIN edits \cap lines = {}
  <2>1. SuppressNonLocal(b, r, lines) = Result(adjusted, edits)
    BY <1>2, <1>5
  <2>2. ResultOf(b, Result(adjusted, edits)) /\ Result(adjusted, edits).text = adjusted
    BY <1>3, <1>4, ResultIs DEF KnownEdits
  <2>3. lines \cap DOMAIN b \subseteq DOMAIN b \ DOMAIN edits
    BY <1>5
  <2>4. Survive(b, lines, adjusted)
    BY <1>4, <2>3, SurvivesFewer
  <2> QED
    BY <2>1, <2>2, <2>4
<1>6. CASE DOMAIN edits \cap lines # {}
  BY <1>2, <1>6, NothingIsAResult, NothingHappened
<1> QED
  BY <1>5, <1>6

LEMMA SuppressKeeps ==
  ASSUME NEW b \in Text, NEW r, ResultOf(b, r), NEW lines
  PROVE  /\ ResultOf(b, Suppress(b, r, lines))
         /\ Survive(b, lines, Suppress(b, r, lines).text)
<1> DEFINE kept == Without(r.edits, lines)
           patched == [l \in DOMAIN b |-> IF l \in lines THEN b[l] ELSE r.text[l]]
<1>1. r.text \in Text /\ KnownEdits(b, r.edits)
  BY DEF ResultOf
<1>2. KnownEdits(b, kept)
  BY <1>1, SomeKnownEdits
<1>3. /\ Len(b) \in Nat /\ DOMAIN b = 1 .. Len(b) /\ DOMAIN r.text = 1 .. Len(r.text)
      /\ \A l \in 1 .. Len(b) : b[l] \in Line /\ b[l] # NoLine
      /\ \A l \in 1 .. Len(r.text) : r.text[l] \in Line
  BY <1>1, TextFacts
<1>4. Suppress(b, r, lines) =
        IF ~Touches(b, r.text, lines) THEN Result(r.text, kept)
        ELSE IF Len(b) # Len(r.text) THEN SuppressNonLocal(b, r, lines)
        ELSE IF DOMAIN kept = {} THEN Result(b, NoEdits)
        ELSE Result(patched, kept)
  BY DEF Suppress
<1> HIDE DEF kept
<1>5. CASE ~Touches(b, r.text, lines)
  <2>1. ResultOf(b, Result(r.text, kept)) /\ Result(r.text, kept).text = r.text
    BY <1>1, <1>2, ResultIs
  <2>2. \A l \in lines \cap DOMAIN b : l \in DOMAIN r.text /\ r.text[l] = b[l]
    BY <1>3, <1>5 DEF Touches, LineOf
  <2>3. Survive(b, lines, r.text)
    <3> DEFINE place == [l \in lines \cap DOMAIN b |-> l]
    <3>1. /\ place \in [lines \cap DOMAIN b -> DOMAIN r.text]
          /\ \A l \in lines \cap DOMAIN b : r.text[place[l]] = b[l]
          /\ \A k, l \in lines \cap DOMAIN b : k < l => place[k] < place[l]
      BY <2>2
    <3> HIDE DEF place
    <3> QED
      BY <3>1 DEF Survive
  <2> QED
    BY <1>4, <1>5, <2>1, <2>3
<1>6. CASE Touches(b, r.text, lines) /\ Len(b) # Len(r.text)
  BY <1>4, <1>6, NonLocalSuppression
<1>7. CASE Touches(b, r.text, lines) /\ Len(b) = Len(r.text) /\ DOMAIN kept = {}
  BY <1>4, <1>7, NothingIsAResult, NothingHappened
<1>8. CASE Touches(b, r.text, lines) /\ Len(b) = Len(r.text) /\ DOMAIN kept # {}
  <2>1. patched \in Text /\ DOMAIN patched = DOMAIN b
    BY <1>3, <1>8 DEF Text
  <2>2. \A l \in lines \cap DOMAIN b : patched[l] = b[l]
    OBVIOUS
  <2>3. Suppress(b, r, lines) = Result(patched, kept)
    BY <1>4, <1>8
  <2> HIDE DEF patched
  <2>4. ResultOf(b, Result(patched, kept)) /\ Result(patched, kept).text = patched
    BY <1>2, <2>1, ResultIs
  <2>5. Survive(b, lines, patched)
    <3> DEFINE place == [l \in lines \cap DOMAIN b |-> l]
    <3>1. /\ place \in [lines \cap DOMAIN b -> DOMAIN patched]
          /\ \A l \in lines \cap DOMAIN b : patched[place[l]] = b[l]
          /\ \A k, l \in lines \cap DOMAIN b : k < l => place[k] < place[l]
      BY <2>1, <2>2
    <3> HIDE DEF place
    <3> QED
      BY <3>1 DEF Survive
  <2> QED
    BY <2>3, <2>4, <2>5
<1> QED
  BY <1>5, <1>6, <1>7, <1>8

LEMMA ClaimsLeaveAResult ==
  ASSUME NEW b \in Text, NEW r, ResultOf(b, r), NEW lines
  PROVE  ResultOf(b, ConvergenceSuppress(b, r, lines))
<1> DEFINE kept == Without(r.edits, lines)
           patched == [l \in DOMAIN r.text |-> IF l \in lines /\ l <= Len(b) THEN b[l] ELSE r.text[l]]
<1>1. r.text \in Text /\ KnownEdits(b, r.edits)
  BY DEF ResultOf
<1>2. KnownEdits(b, kept)
  BY <1>1, SomeKnownEdits
<1>3. /\ Len(b) \in Nat /\ Len(r.text) \in Nat /\ DOMAIN r.text = 1 .. Len(r.text)
      /\ \A l \in 1 .. Len(b) : b[l] \in Line
      /\ \A l \in 1 .. Len(r.text) : r.text[l] \in Line
  BY <1>1, TextFacts
<1>4. patched \in Text
  <2>1. \A l \in 1 .. Len(r.text) : l <= Len(b) => b[l] \in Line
    BY <1>3
  <2>2. patched \in [1 .. Len(r.text) -> Line]
    BY <1>3, <2>1
  <2> HIDE DEF patched
  <2> QED
    BY <1>3, <2>2 DEF Text
<1>5. ConvergenceSuppress(b, r, lines) \in {r, Result(b, NoEdits), Result(patched, kept)}
  BY DEF ConvergenceSuppress
<1> HIDE DEF patched, kept
<1>6. ResultOf(b, Result(patched, kept)) /\ ResultOf(b, Result(b, NoEdits))
  BY <1>2, <1>4, ResultIs, NothingIsAResult
<1> QED
  BY <1>5, <1>6

LEMMA OutsideIsAResult ==
  ASSUME before \in Text, NEW e, KnownEdits(before, e), NEW lines
  PROVE  ResultOf(before, Outside(e, lines))
<1> DEFINE kept == Without(e, lines)
<1>1. KnownEdits(before, kept)
  BY SomeKnownEdits
<1>2. Outside(e, lines) = IF DOMAIN kept = {} THEN Result(before, NoEdits)
                                              ELSE Result(ReplayedLeniently(before, kept), kept)
  BY DEF Outside
<1> HIDE DEF kept
<1>3. ReplayedLeniently(before, kept) \in Text
  BY <1>1, EditsAreEdits, LenientIsText DEF KnownEdits
<1> QED
  BY <1>1, <1>2, <1>3, ResultIs, NothingIsAResult

(* A roll-back whose edits delete at most two lines and leave none open    *)
(* keeps the lines they do not name.                                       *)
LEMMA OutsideExplains ==
  ASSUME before \in WholeText, NEW e, KnownEdits(before, e), NEW lines,
         NEW r, r = Outside(e, lines), \A l \in DOMAIN r.edits : ~LeavesOpen(r.edits[l]),
         Cardinality({l \in DOMAIN r.edits : Deletes(r.edits[l]) /\ Ends(r.edits[l].before)}) <= 2
  PROVE  Survive(before, DOMAIN before \ DOMAIN r.edits, r.text)
<1> DEFINE kept == Without(e, lines)
           text == ReplayedLeniently(before, kept)
<1>0. before \in Text /\ \A l \in 1 .. Len(before) : before[l] \in Whole /\ Ends(before[l])
  BY WholeFacts
<1>1. KnownEdits(before, kept)
  BY SomeKnownEdits
<1>2. r = IF DOMAIN kept = {} THEN Result(before, NoEdits) ELSE Result(text, kept)
  BY DEF Outside
<1> HIDE DEF kept
<1>3. CASE DOMAIN kept = {}
  BY <1>0, <1>2, <1>3, NothingHappened
<1>4. CASE DOMAIN kept # {}
  <2>1. r.text = text /\ r.edits = kept
    BY <1>2, <1>4 DEF Result
  <2>2. CASE EditsOf(before, kept)
    <3>1. ASSUME NEW l \in DOMAIN kept
          PROVE  /\ kept[l].after \in Whole \cup {NoLine}
                 /\ kept[l].before # NoLine => Ends(kept[l].before)
      <4>1. /\ kept[l].after \in Line \cup {NoLine}
            /\ kept[l].before # NoLine => kept[l].before \in {before[i] : i \in 1 .. Len(before)}
        BY <1>0, <2>2, TextFacts DEF EditsOf
      <4>2. kept[l].before # NoLine => Ends(kept[l].before)
        BY <1>0, <4>1
      <4> QED
        BY <2>1, <4>1, <4>2 DEF LeavesOpen, Whole
    <3>2. {l \in DOMAIN kept : Deletes(kept[l]) /\ Ends(kept[l].before)} = {l \in DOMAIN kept : Deletes(kept[l])}
      BY <3>1 DEF Deletes
    <3>3. Cardinality({l \in DOMAIN kept : Deletes(kept[l])}) <= 2
      BY <2>1, <3>2
    <3> QED
      BY <2>1, <2>2, <3>1, <3>3, LenientExplains
  <2>3. CASE BareEdits(kept)
    <3>1. \A l \in DOMAIN kept : ~Inserts(kept[l])
      BY <2>1, <2>3 DEF BareEdits, Inserts, LeavesOpen
    <3>2. text = before
      BY <2>3, <3>1, LenientFindsNothing
    <3> QED
      BY <1>0, <2>1, <3>2, SurvivesItself
  <2> QED
    BY <1>1, <2>2, <2>3 DEF KnownEdits
<1> QED
  BY <1>3, <1>4

(* What policies declare without line breaks.                              *)
LEMMA BareLines ==
  ASSUME NEW x \in Contents \cup {NoLine}
  PROVE  Bare(x) \in Line \cup {NoLine} /\ ~Ends(Bare(x))
<1>1. CASE x = NoLine
  BY <1>1 DEF Bare, Ends
<1>2. CASE x = << End >>
  <2>1. Front(x) = NoLine
    <3>1. Front(x) = SubSeq(x, 1, 0)
      BY <1>2 DEF Front
    <3> QED
      BY <3>1, SubSeqEmpty DEF NoLine
  <2>2. Ends(x)
    BY <1>2 DEF Ends, Last, NoLine
  <2> QED
    BY <2>1, <2>2 DEF Bare, Ends
<1>3. ASSUME NEW word \in Words, x = << word, End >> PROVE Bare(x) \in Line /\ ~Ends(Bare(x))
  <2>1. Ends(x)
    BY <1>3 DEF Ends, Last, NoLine
  <2>2. Front(x) = << word >>
    <3>1. /\ Front(x) \in Seq(Words \cup {End}) /\ Len(Front(x)) = 1 /\ Front(x)[1] = word
      BY <1>3 DEF Front
    <3> QED
      BY <3>1
  <2>3. << word >> \in Line /\ ~Ends(<< word >>)
    BY EditReplayAssumption DEF Line, NoLine, Ends, Last
  <2> QED
    BY <2>1, <2>2, <2>3 DEF Bare
<1> QED
  BY <1>1, <1>2, <1>3 DEF Contents

LEMMA ContentsAreWhole ==
  ASSUME NEW t \in Seq(Contents)
  PROVE  t \in WholeText /\ t \in Text
<1>1. \A x \in Contents : x \in Whole
  <2>1. << End >> \in Whole
    BY DEF Whole, Line, Ends, Last, NoLine
  <2>2. ASSUME NEW word \in Words PROVE << word, End >> \in Whole
    BY DEF Whole, Line, Ends, Last, NoLine
  <2> QED
    BY <2>1, <2>2 DEF Contents
<1>2. t \in WholeText
  <2>1. t \in [1 .. Len(t) -> Whole]
    BY <1>1
  <2> QED
    BY <2>1 DEF WholeText
<1> QED
  BY <1>2, WholeFacts

LEMMA LineOfContents ==
  ASSUME NEW t \in Seq(Contents), NEW l
  PROVE  LineOf(t, l) \in Contents \cup {NoLine}
BY DEF LineOf

LEMMA DeclaredIsBare ==
  ASSUME before \in Seq(Contents), NEW text \in Seq(Contents)
  PROVE  BareEdits(Pairs(text)) /\ BareEdits(Insertions(text))
<1>0. before \in Text /\ text \in Text
  BY ContentsAreWhole
<1>1. BareEdits(Pairs(text))
  <2>1. Longer(before, text) \in Nat
    BY <1>0, Lengths
  <2>2. DOMAIN Pairs(text) \subseteq 1 .. Longer(before, text)
    BY DEF Pairs
  <2>3. ASSUME NEW l \in DOMAIN Pairs(text)
        PROVE  /\ Pairs(text)[l].before = Bare(LineOf(before, l))
               /\ Pairs(text)[l].after = Bare(LineOf(text, l))
               /\ Pairs(text)[l].before # Pairs(text)[l].after
    BY DEF Pairs
  <2>4. ASSUME NEW l PROVE LineOf(before, l) \in Contents \cup {NoLine} /\ LineOf(text, l) \in Contents \cup {NoLine}
    BY LineOfContents
  <2> QED
    BY <2>1, <2>2, <2>3, <2>4, BareLines DEF BareEdits, Edits
<1>2. BareEdits(Insertions(text))
  <2>1. Len(text) \in Nat /\ DOMAIN Insertions(text) \subseteq 1 .. Len(text)
    BY DEF Insertions
  <2>2. ASSUME NEW l \in DOMAIN Insertions(text)
        PROVE  /\ Insertions(text)[l].before = NoLine /\ text[l] \in Contents
               /\ Insertions(text)[l].after = Bare(text[l]) /\ Bare(text[l]) # NoLine
    BY DEF Insertions
  <2>3. ~Ends(NoLine)
    BY DEF Ends
  <2> QED
    BY <2>1, <2>2, <2>3, BareLines DEF BareEdits, Edits
<1> QED
  BY <1>1, <1>2

-----------------------------------------------------------------------------
(* The invariant                                                           *)

Explained == Survive(before, DOMAIN before \ DOMAIN result.edits, result.text)

(* However often the edits of a result have been thinned out, they are     *)
(* recorded ones, each of which finds its line in the text the policy has  *)
(* read, or declared ones without line breaks; and the first filter has    *)
(* found nothing forbidden yet.                                            *)
ReplayInv ==
  /\ before \in Seq(Contents) /\ proposal \in Seq(Contents) /\ ResultOf(before, result)
  /\ strips \in Nat
  /\ strips = 0 => forbidden = {}
  /\ phase = "apply" => strips = 0
  /\ phase \in {"arbiter", "done"} => Explained
  /\ ForbiddenLinesSurvive
  /\ RecordedEditsExplain

LEMMA TextsAreText == ASSUME NEW n PROVE Texts(n) \subseteq Seq(Contents)
<1> SUFFICES ASSUME NEW k \in 0 .. n, NEW t \in [1 .. k -> Contents] PROVE t \in Seq(Contents)
  BY DEF Texts
<1> QED
  OBVIOUS

LEMMA InitReplayInv == Init => ReplayInv
<1> SUFFICES ASSUME Init PROVE ReplayInv
  OBVIOUS
<1>1. before \in Seq(Contents) /\ proposal \in Seq(Contents)
  BY TextsAreText DEF Init
<1>2. ResultOf(before, result)
  BY <1>1, ContentsAreWhole, NothingIsAResult DEF Init
<1> QED
  BY <1>1, <1>2 DEF Init, ReplayInv, ForbiddenLinesSurvive, RecordedEditsExplain

LEMMA ReplayStep == ReplayInv /\ [Next]_vars => ReplayInv'
<1> SUFFICES ASSUME ReplayInv, [Next]_vars PROVE ReplayInv'
  OBVIOUS
<1>0. before \in Seq(Contents) /\ before \in WholeText /\ before \in Text
  BY ContentsAreWhole DEF ReplayInv
<1>1. CASE Apply
  <2>a. PICK text \in Texts(MaxAfter) :
          /\ proposal' = text
          /\ \E edits \in {Synthesize(before, text), Pairs(text), Insertions(text)} :
               \E lines : result' = Result(text, Only(edits, lines))
    BY <1>1 DEF Apply
  <2>b. PICK edits \in {Synthesize(before, text), Pairs(text), Insertions(text)} :
          \E lines : result' = Result(text, Only(edits, lines))
    BY <2>a
  <2>0. PICK lines : proposal' = text /\ result' = Result(text, Only(edits, lines))
    BY <2>a, <2>b
  <2>1. text \in Seq(Contents) /\ text \in Text
    BY TextsAreText, ContentsAreWhole
  <2>2. KnownEdits(before, edits)
    BY <1>0, <2>1, SynthesizeIsEdits, DeclaredIsBare DEF KnownEdits
  <2>3. KnownEdits(before, Only(edits, lines))
    BY <2>2, SomeEdits, SomeBareEdits DEF KnownEdits
  <2>4. ResultOf(before, result')
    BY <2>0, <2>1, <2>3, ResultIs
  <2>5. strips' = 0 /\ forbidden' = {} /\ phase' = "execute" /\ before' = before
    BY <1>1 DEF Apply, ReplayInv
  <2>6. Survive(before, {}, result.text')
    BY SurvivesNothing
  <2> QED
    BY <1>0, <2>0, <2>1, <2>4, <2>5, <2>6 DEF ReplayInv, ForbiddenLinesSurvive, RecordedEditsExplain
<1>2. CASE Filter
  <2>1. PICK lines : result' = Suppress(before, result, lines) /\ forbidden' = forbidden \cup lines
    BY <1>2 DEF Filter
  <2>2. /\ strips' = strips + 1 /\ before' = before /\ proposal' = proposal /\ phase' = phase
        /\ phase \in {"execute", "coordinate"}
    BY <1>2 DEF Filter
  <2>3. ResultOf(before, result') /\ Survive(before, lines, result.text')
    BY <1>0, <2>1, SuppressKeeps DEF ReplayInv
  <2>4. strips' <= 1 => forbidden' = lines
    BY <2>1, <2>2 DEF ReplayInv
  <2>5. strips' \in Nat /\ strips' # 0
    BY <2>2 DEF ReplayInv
  <2>6. ForbiddenLinesSurvive'
    BY <2>2, <2>3, <2>4 DEF ForbiddenLinesSurvive
  <2> QED
    BY <2>2, <2>3, <2>5, <2>6 DEF ReplayInv, RecordedEditsExplain
<1>3. CASE Gate
  <2>0. /\ phase = "execute" /\ phase' = "coordinate" /\ before' = before
        /\ proposal' = proposal /\ forbidden' = forbidden
    BY <1>3 DEF Gate
  <2>g. /\ ResultOf(before, Guarded(result))
        /\ Guarded(result).text = before \/ Guarded(result).text = result.text
    BY <1>0, GuardedExplains DEF ReplayInv
  <2>1. CASE result' = Guarded(result) /\ UNCHANGED << excluded, strips >>
    <3>1. strips <= 1 => Survive(before, forbidden, result.text')
      <4>1. strips <= 1 => Survive(before, forbidden, result.text)
        BY <2>0 DEF ReplayInv, ForbiddenLinesSurvive
      <4>2. Survive(before, forbidden, before)
        BY <1>0, SurvivesItself
      <4>3. result.text' = before \/ result.text' = result.text
        BY <2>g, <2>1
      <4> QED
        BY <4>1, <4>2, <4>3
    <3>2. ForbiddenLinesSurvive'
      BY <2>0, <2>1, <3>1 DEF ForbiddenLinesSurvive
    <3> QED
      BY <2>0, <2>g, <2>1, <3>2 DEF ReplayInv, RecordedEditsExplain
  <2>2. CASE /\ strips' = strips + 1
             /\ \E lines : result' = Outside(Guarded(result).edits, lines)
    <3>1. ResultOf(before, result')
      <4>1. KnownEdits(before, Guarded(result).edits)
        BY <2>g DEF ResultOf
      <4> QED
        BY <1>0, <2>2, <4>1, OutsideIsAResult
    <3>2. strips' \in Nat /\ strips' # 0 /\ (strips' <= 1 => forbidden' = {})
      BY <2>0, <2>2 DEF ReplayInv
    <3>3. Survive(before, {}, result.text')
      BY SurvivesNothing
    <3>4. ForbiddenLinesSurvive'
      BY <2>0, <3>2, <3>3 DEF ForbiddenLinesSurvive
    <3> QED
      BY <2>0, <3>1, <3>2, <3>4 DEF ReplayInv, RecordedEditsExplain
  <2> QED
    BY <1>3, <2>1, <2>2 DEF Gate
<1>4. CASE Reconcile
  <2>1. PICK claimed : result' = Guarded(ConvergenceSuppress(before, result, claimed))
    BY <1>4 DEF Reconcile
  <2>2. /\ phase' = "arbiter" /\ before' = before /\ proposal' = proposal
        /\ forbidden' = forbidden /\ strips' = strips
    BY <1>4 DEF Reconcile
  <2>3. ResultOf(before, ConvergenceSuppress(before, result, claimed))
    BY <1>0, ClaimsLeaveAResult DEF ReplayInv
  <2>4. /\ ResultOf(before, result')
        /\ Survive(before, DOMAIN before \ DOMAIN result.edits', result.text')
    BY <1>0, <2>1, <2>3, GuardedExplains
  <2>5. Explained'
    BY <2>2, <2>4 DEF Explained
  <2> QED
    BY <2>2, <2>4, <2>5 DEF ReplayInv, ForbiddenLinesSurvive, RecordedEditsExplain
<1>5. CASE Accept
  <2>1. /\ phase = "arbiter" /\ phase' = "done"
        /\ UNCHANGED << before, proposal, result, forbidden, excluded, strips >>
    BY <1>5 DEF Accept
  <2>2. Explained
    BY <2>1 DEF ReplayInv
  <2> QED
    BY <2>1, <2>2 DEF ReplayInv, ForbiddenLinesSurvive, RecordedEditsExplain, Explained
<1>6. CASE PartialRollback
  <2>1. PICK errors : result' = Outside(result.edits, errors)
    BY <1>6 DEF PartialRollback
  <2>2. /\ phase' = "partial" /\ before' = before /\ proposal' = proposal
        /\ forbidden' = forbidden /\ strips' = strips /\ phase = "arbiter"
    BY <1>6 DEF PartialRollback
  <2>3. KnownEdits(before, result.edits)
    BY DEF ReplayInv, ResultOf
  <2>4. ResultOf(before, result')
    BY <1>0, <2>1, <2>3, OutsideIsAResult
  <2>5. RecordedEditsExplain'
    <3> SUFFICES ASSUME \A l \in DOMAIN result'.edits : ~LeavesOpen(result'.edits[l]),
                        Cardinality({l \in DOMAIN result'.edits :
                          Deletes(result'.edits[l]) /\ Ends(result'.edits[l].before)}) <= 2
                 PROVE  Survive(before, DOMAIN before \ DOMAIN result'.edits, result'.text)
      BY <2>2 DEF RecordedEditsExplain
    <3> QED
      BY <1>0, <2>1, <2>3, OutsideExplains
  <2> QED
    BY <2>2, <2>4, <2>5 DEF ReplayInv, ForbiddenLinesSurvive
<1>7. CASE Finished \/ UNCHANGED vars
  <2>1. /\ before' = before /\ proposal' = proposal /\ result' = result /\ forbidden' = forbidden
        /\ strips' = strips /\ phase' = phase
    BY <1>7 DEF Finished, vars
  <2>2. ForbiddenLinesSurvive'
    BY <2>1 DEF ReplayInv, ForbiddenLinesSurvive
  <2>3. RecordedEditsExplain'
    BY <2>1 DEF ReplayInv, RecordedEditsExplain
  <2> QED
    BY <2>1, <2>2, <2>3 DEF ReplayInv, Explained
<1> QED
  BY <1>1, <1>2, <1>3, <1>4, <1>5, <1>6, <1>7 DEF Next

(* The invariant holds in every reachable state of a stage: between a      *)
(* policy's apply and its commit or partial roll-back (execute_policy_stage, *)
(* coordinate_policy_stage, attempt_partial_rollback) the edits of the      *)
(* result are recorded ones, each with its line in the text the policy has *)
(* read, or declared ones without line breaks, which the replays cannot    *)
(* find in it.                                                             *)
THEOREM ReplayInvariance == Spec => []ReplayInv
<1>1. ReplayInv /\ [Next]_vars => ReplayInv'
  BY ReplayStep
<1> QED
  BY <1>1, InitReplayInv, PTL DEF Spec

(* Replaying what synthesize_line_edits has recorded of any two texts gives *)
(* the second one when it is at most one line longer (apply_edits).        *)
THEOREM ReplayInverse == Spec => []ReplayInvertsRecording
<1>1. ReplayInv => ReplayInvertsRecording
  <2> SUFFICES ASSUME ReplayInv, Len(proposal) <= Len(before) + 1
               PROVE  /\ Replayable(before, Synthesize(before, proposal))
                      /\ Replayed(before, Synthesize(before, proposal)) = proposal
    BY DEF ReplayInvertsRecording
  <2>1. before \in Text /\ proposal \in WholeText /\ proposal \in Text
    BY ContentsAreWhole DEF ReplayInv
  <2> QED
    BY <2>1, SynthesizeRecords, RecordingReplays
<1> QED
  BY <1>1, ReplayInvariance, PTL

(* The lines one filter takes away are in the text the policy has read and *)
(* in what the filter, and the output guard behind it, leave, in the same  *)
(* order (suppress_lines_impl, normalize_edit_coverage).                   *)
THEOREM ForbiddenLinesStay == Spec => []ForbiddenLinesSurvive
<1>1. ReplayInv => ForbiddenLinesSurvive
  BY DEF ReplayInv
<1> QED
  BY <1>1, ReplayInvariance, PTL

(* Whatever filters, gates and claims a result went through, the edits it  *)
(* is committed with name every line that is gone, and those of a partial  *)
(* roll-back do as long as they delete at most two lines and leave no line *)
(* open (coordinate_policy_stage, attempt_partial_rollback).               *)
THEOREM EditsExplainTheText == Spec => []RecordedEditsExplain
<1>1. ReplayInv => RecordedEditsExplain
  BY DEF ReplayInv
<1> QED
  BY <1>1, ReplayInvariance, PTL

-----------------------------------------------------------------------------
(* Frames                                                                  *)

(* What can happen to a frame: to any shards, to any entries of the table, *)
(* to any field of the header.                                             *)
Damages ==
  {d \in [shards : SUBSET Nat, table : SUBSET Nat, len : Nat, payload : BOOLEAN, data : Nat, size : Nat] :
     IsFiniteSet(d.shards) /\ IsFiniteSet(d.table)}

(* A payload and what fills the last shard.                                *)
Padded(payload) ==
  [i \in 1 .. DataShards(Len(payload)) * ShardSize(Len(payload)) |->
     IF i <= Len(payload) THEN payload[i] ELSE Zero]

(* So many pieces of that size are enough.                                 *)
LEMMA RoundsUp ==
  ASSUME NEW a \in Nat \ {0}, NEW b \in Nat \ {0}
  PROVE  Up(a, b) \in Nat \ {0} /\ a <= b * Up(a, b)
<1> DEFINE q == (a + b - 1) \div b
<1>1. a + b - 1 \in Nat /\ a + b - 1 >= b
  OBVIOUS
<1>2. q \in Int /\ b * q <= a + b - 1 /\ a + b - 1 < b * q + b
  BY <1>1, Z3
<1> HIDE DEF q
<1>3. b * q \in Int /\ a <= b * q
  BY <1>2
<1>4. q > 0
  BY <1>2, <1>3, Z3
<1> QED
  BY <1>2, <1>3, <1>4 DEF Up, q

(* The shards are as many as they may be and hold the payload.             *)
LEMMA ShardsHold ==
  ASSUME Sizes, NEW len \in Nat
  PROVE  /\ DataShards(len) \in MinShards .. MaxShards /\ DataShards(len) \in Nat \ {0}
         /\ ShardSize(len) \in Nat \ {0}
         /\ DataShards(len) * ShardSize(len) \in Nat /\ len <= DataShards(len) * ShardSize(len)
<1>1. Largest(len, 1) \in Nat \ {0} /\ len <= Largest(len, 1)
  BY DEF Largest
<1>2. Up(Largest(len, 1), TargetSize) \in Nat \ {0}
  BY <1>1, RoundsUp DEF Sizes
<1>3. DataShards(len) \in MinShards .. MaxShards /\ DataShards(len) \in Nat \ {0}
  BY <1>2 DEF DataShards, Largest, Smallest, Sizes
<1>4. ShardSize(len) \in Nat \ {0} /\ Largest(len, 1) <= DataShards(len) * ShardSize(len)
  BY <1>1, <1>3, RoundsUp DEF ShardSize
<1>5. DataShards(len) * ShardSize(len) \in Nat
  BY <1>3, <1>4
<1> QED
  BY <1>1, <1>3, <1>4, <1>5

(* The pieces into which a payload is cut.                                 *)
Cut(payload) ==
  [i \in 1 .. DataShards(Len(payload)) |->
     SubSeq(Padded(payload), (i - 1) * ShardSize(Len(payload)) + 1, i * ShardSize(Len(payload)))]

(* Put together again they are the payload and what fills the last shard.  *)
LEMMA CutJoins ==
  ASSUME Sizes, NEW S, NEW payload \in Seq(S)
  PROVE  /\ Padded(payload) \in Seq(S \union {Zero})
         /\ Len(Padded(payload)) = DataShards(Len(payload)) * ShardSize(Len(payload))
         /\ FlattenSeq(Cut(payload)) = Padded(payload)
<1> DEFINE n == DataShards(Len(payload))
           size == ShardSize(Len(payload))
           text == Padded(payload)
           T == S \union {Zero}
           cut == [i \in 0 .. n |-> i * size]
<1>1. n \in Nat \ {0} /\ size \in Nat \ {0} /\ n * size \in Nat
  BY ShardsHold
<1>2. text \in Seq(T) /\ Len(text) = n * size
  <2>1. \A i \in 1 .. n * size : (IF i <= Len(payload) THEN payload[i] ELSE Zero) \in T
    OBVIOUS
  <2>2. text = [i \in 1 .. n * size |-> IF i <= Len(payload) THEN payload[i] ELSE Zero]
    BY DEF Padded
  <2> HIDE DEF text, n, size, T
  <2> QED
    BY <1>1, <2>1, <2>2
<1>3. \A i \in 0 .. n : i * size \in 0 .. n * size
  <2> HIDE DEF n, size
  <2> QED
    BY <1>1, Z3
<1>4. \A i \in 1 .. n : (i - 1) * size <= i * size
  <2> HIDE DEF n, size
  <2> QED
    BY <1>1, Z3
<1>5. Cut(payload) = [i \in 1 .. n |-> SubSeq(text, (i - 1) * size + 1, i * size)]
  BY DEF Cut
<1> HIDE DEF n, size, text, T
<1>6. Cut(payload) \in Seq(Seq(T)) /\ Len(Cut(payload)) = n
  <2> DEFINE piece(i) == SubSeq(text, (i - 1) * size + 1, i * size)
  <2>1. ASSUME NEW i \in 1 .. n PROVE SubSeq(text, (i - 1) * size + 1, i * size) \in Seq(T)
    <3>1. (i - 1) * size \in 0 .. Len(text) /\ i * size \in 0 .. Len(text)
      BY <1>1, <1>2, <1>3
    <3>2. \A k, l \in 0 .. Len(text) : SubSeq(text, k + 1, l) \in Seq(T)
      BY <1>2
    <3> QED
      BY <3>1, <3>2
  <2>2. (\A i \in 1 .. n : piece(i) \in Seq(T)) /\ Cut(payload) = [i \in 1 .. n |-> piece(i)]
    BY <1>5, <2>1
  <2> HIDE DEF piece
  <2> QED
    BY <1>1, <2>2
<1>7. /\ cut \in [0 .. n -> 0 .. Len(text)] /\ cut[0] = 0 /\ cut[n] = Len(text)
      /\ \A i \in 1 .. n : cut[i - 1] = (i - 1) * size /\ cut[i] = i * size
  BY <1>1, <1>2, <1>3
<1> HIDE DEF cut
<1>8. \A i \in 1 .. n : cut[i - 1] <= cut[i] /\ Cut(payload)[i] = SubSeq(text, cut[i - 1] + 1, cut[i])
  BY <1>4, <1>5, <1>7
<1>9. FlattenSeq(Cut(payload)) = SubSeq(text, 1, cut[n])
  BY <1>2, <1>6, <1>7, <1>8, FlattenJoins
<1>10. SubSeq(text, 1, Len(text)) = text
  BY <1>2
<1> QED
  BY <1>2, <1>7, <1>9, <1>10 DEF n, size, text, T

(* The payload is the beginning of it.                                     *)
LEMMA PaddedKeeps ==
  ASSUME Sizes, NEW S, NEW payload \in Seq(S)
  PROVE  SubSeq(Padded(payload), 1, Len(payload)) = payload
<1> DEFINE n == DataShards(Len(payload)) * ShardSize(Len(payload))
           text == Padded(payload)
<1>1. n \in Nat /\ Len(payload) \in 0 .. n
  BY ShardsHold
<1>2. text \in Seq(S \union {Zero}) /\ Len(text) = n
  BY CutJoins
<1>3. \A i \in 1 .. Len(payload) : text[i] = payload[i]
  BY <1>1 DEF Padded
<1> HIDE DEF n, text
<1>4. /\ SubSeq(text, 1, Len(payload)) \in Seq(S \union {Zero})
      /\ Len(SubSeq(text, 1, Len(payload))) = Len(payload)
      /\ \A i \in 1 .. Len(payload) : SubSeq(text, 1, Len(payload))[i] = text[i]
  BY <1>1, <1>2
<1>5. SubSeq(text, 1, Len(payload)) = payload
  BY <1>3, <1>4
<1> QED
  BY <1>5 DEF text

(* The first shards are the pieces.                                        *)
IsCut(shards, payload) ==
  \A i \in 1 .. DataShards(Len(payload)) : shards[i] = Intact(Cut(payload)[i])

(* What is written: the pieces as shards, and the parity of them.          *)
LEMMA FrameShape ==
  ASSUME Sizes, NEW S, NEW payload \in Seq(S), NEW kind
  PROVE  LET frame == Encoded(kind, payload)
         IN  /\ frame.kind = kind /\ frame.len = Len(payload) /\ frame.payload = Intact(payload)
             /\ frame.size = ShardSize(Len(payload)) /\ frame.data = DataShards(Len(payload))
             /\ frame.table = frame.shards
             /\ frame.shards = [i \in DOMAIN frame.shards |-> frame.shards[i]]
             /\ \A i \in DOMAIN frame.shards : frame.shards[i] # Damaged
             /\ IsCut(frame.shards, payload)
<1> DEFINE n == DataShards(Len(payload))
           size == ShardSize(Len(payload))
           data == [i \in 1 .. n |-> Intact(Cut(payload)[i])]
           shards == data \o ParityOf(data)
<1>1. n \in Nat \ {0} /\ Parity \in Nat
  BY ShardsHold DEF Sizes
<1>2. Encoded(kind, payload) =
        [kind |-> kind, len |-> Len(payload), payload |-> Intact(payload), size |-> size, data |-> n,
         table |-> shards, shards |-> shards]
  BY <1>1 DEF Encoded, Cut, Padded
<1> DEFINE D == {Intact(Cut(payload)[i]) : i \in 1 .. n}
                  \union {[is |-> "parity", nth |-> i, of |-> data] : i \in 1 .. Parity}
<1>3. data \in Seq(D) /\ Len(data) = n
  <2>1. \A i \in 1 .. n : Intact(Cut(payload)[i]) \in D
    OBVIOUS
  <2> HIDE DEF D, n
  <2> QED
    BY <1>1, <2>1
<1>4. ParityOf(data) \in Seq(D)
  <2>1. \A i \in 1 .. Parity : [is |-> "parity", nth |-> i, of |-> data] \in D
    OBVIOUS
  <2> HIDE DEF D, data
  <2> QED
    BY <1>1, <2>1 DEF ParityOf
<1>5. \A x \in D : x # Damaged
  <2>1. \A x \in D : x.is \in {"data", "parity"}
    BY DEF Intact
  <2>2. Damaged.is = "damaged"
    BY DEF Damaged
  <2> HIDE DEF D
  <2> QED
    BY <2>1, <2>2
<1>6. \A i \in 1 .. n : data[i] = Intact(Cut(payload)[i])
  OBVIOUS
<1> HIDE DEF D, data, n, size
<1>7. shards \in Seq(D) /\ \A i \in 1 .. n : shards[i] = data[i]
  BY <1>3, <1>4, Concatenated
<1>8. (\A i \in DOMAIN shards : shards[i] # Damaged) /\ shards = [i \in DOMAIN shards |-> shards[i]]
  <2> HIDE DEF shards
  <2> QED
    BY <1>5, <1>7
<1>9. IsCut(shards, payload)
  BY <1>6, <1>7 DEF IsCut, n
<1> HIDE DEF shards
<1> QED
  BY <1>2, <1>8, <1>9 DEF n, size

(* Damage does to each part of a frame what it says.                       *)
LEMMA DamageShape ==
  ASSUME NEW frame, NEW d,
         frame = [kind |-> frame.kind, len |-> frame.len, payload |-> frame.payload, size |-> frame.size,
                  data |-> frame.data, table |-> frame.table, shards |-> frame.shards]
  PROVE  /\ Damage(frame, d).kind = frame.kind
         /\ Damage(frame, d).shards = Spoiled(frame.shards, d.shards)
         /\ Damage(frame, d).table = Spoiled(frame.table, d.table)
         /\ Damage(frame, d).len = (IF d.len = 0 THEN frame.len ELSE d.len - 1)
         /\ Damage(frame, d).payload = (IF d.payload THEN Damaged ELSE frame.payload)
         /\ Damage(frame, d).data = (IF d.data = 0 THEN frame.data ELSE d.data)
         /\ Damage(frame, d).size = frame.size + d.size
BY DEF Damage

(* What is read of a frame: as much of the payload and its filling as the  *)
(* header says.                                                            *)
Got(payload, frame) ==
  SubSeq(Padded(payload), 1, Smallest(frame.len, Len(Padded(payload))))

(* Decoding compares that with the checksum, after the other tests.        *)
LEMMA DecodeShape ==
  ASSUME Sizes, NEW S, NEW payload \in Seq(S), NEW kind, NEW frame
  PROVE  Decode(frame, Encoded(kind, payload)) =
           IF /\ Fits(frame, Encoded(kind, payload))
              /\ Cardinality(Missing(frame)) <= Parity
              /\ frame.kind = "state" => frame.table = Encoded(kind, payload).shards
              /\ Checked(frame, Got(payload, frame))
           THEN Decoded(Got(payload, frame)) ELSE Error
<1> DEFINE own == Encoded(kind, payload)
           pieces == [i \in 1 .. own.data |-> own.shards[i].bytes]
<1>1. pieces = Cut(payload)
  <2>1. own.data = DataShards(Len(payload))
    BY FrameShape
  <2>2. IsCut(own.shards, payload)
    BY FrameShape
  <2>3. \A x : Intact(x).bytes = x
    BY DEF Intact
  <2> HIDE DEF own
  <2>4. \A i \in 1 .. own.data : own.shards[i].bytes = Cut(payload)[i]
    BY <2>1, <2>2, <2>3 DEF IsCut
  <2>5. Cut(payload) = [i \in 1 .. own.data |-> Cut(payload)[i]]
    BY <2>1 DEF Cut
  <2> QED
    BY <2>4, <2>5
<1>2. FlattenSeq(pieces) = Padded(payload)
  BY <1>1, CutJoins
<1> QED
  BY <1>2 DEF Decode, Got

(* A frame that is damaged whichever way is read as what was written or as *)
(* an error, and whoever damages no more shards than there is parity, and  *)
(* nothing else, is read (codec.rs, decode_binary; ecc_frame.rs,           *)
(* read_frame): for payloads of any length and any sizes of shards.        *)
THEOREM FramesAreTrue ==
  ASSUME Sizes, NEW S, NEW payload \in Seq(S), NEW kind \in {"state", "stream"}, NEW damage \in Damages
  PROVE  LET frame == Encoded(kind, payload)
         IN  FrameIsTrue(kind, payload, damage, Decode(Damage(frame, damage), frame))
<1> DEFINE own == Encoded(kind, payload)
           read == Damage(own, damage)
           got == Got(payload, read)
           answer == Decode(read, own)
<1>1. /\ own.kind = kind /\ own.len = Len(payload) /\ own.payload = Intact(payload)
      /\ own.size = ShardSize(Len(payload)) /\ own.data = DataShards(Len(payload))
      /\ own.table = own.shards
      /\ own.shards = [i \in DOMAIN own.shards |-> own.shards[i]]
      /\ \A i \in DOMAIN own.shards : own.shards[i] # Damaged
  BY FrameShape
<1>2. own = [kind |-> own.kind, len |-> own.len, payload |-> own.payload, size |-> own.size,
             data |-> own.data, table |-> own.table, shards |-> own.shards]
  BY DEF Encoded
<1>3. /\ read.kind = own.kind
      /\ read.shards = Spoiled(own.shards, damage.shards)
      /\ read.table = Spoiled(own.table, damage.table)
      /\ read.len = (IF damage.len = 0 THEN own.len ELSE damage.len - 1)
      /\ read.payload = (IF damage.payload THEN Damaged ELSE own.payload)
      /\ read.data = (IF damage.data = 0 THEN own.data ELSE damage.data)
      /\ read.size = own.size + damage.size
  BY <1>2, DamageShape
<1>4. answer = IF /\ Fits(read, own) /\ Cardinality(Missing(read)) <= Parity
                  /\ read.kind = "state" => read.table = own.shards
                  /\ Checked(read, got)
               THEN Decoded(got) ELSE Error
  BY DecodeShape
<1> HIDE DEF own, read, got, answer
<1>5. answer \in {Error, Decoded(payload)}
  <2>1. Checked(read, got) => got = payload
    BY <1>1, <1>3 DEF Checked, Intact, Damaged
  <2> QED
    BY <1>4, <2>1
<1>6. ASSUME damage.len = 0, ~damage.payload, damage.data = 0, damage.size = 0,
             kind = "state" => damage.table = {},
             Cardinality(damage.shards \union damage.table) <= Parity
      PROVE  answer = Decoded(payload)
  <2>1. Fits(read, own)
    <3>1. own.data \in MinShards .. MaxShards /\ own.size \in Nat
      BY <1>1, ShardsHold
    <3> QED
      BY <1>3, <1>6, <3>1 DEF Fits
  <2>2. Cardinality(Missing(read)) <= Parity
    <3>1. Missing(read) \subseteq damage.shards \union damage.table
      <4>1. DOMAIN read.shards = DOMAIN own.shards
        BY <1>3 DEF Spoiled
      <4>2. ASSUME NEW i \in DOMAIN own.shards, i \notin damage.shards \union damage.table
            PROVE  read.shards[i] # Damaged /\ read.table[i] # Damaged
        BY <1>1, <1>3, <4>2 DEF Spoiled
      <4> QED
        BY <4>1, <4>2 DEF Missing
    <3>2. IsFiniteSet(damage.shards \union damage.table)
      BY FS_Union DEF Damages
    <3>3. /\ Cardinality(Missing(read)) <= Cardinality(damage.shards \union damage.table)
          /\ Cardinality(Missing(read)) \in Nat /\ Cardinality(damage.shards \union damage.table) \in Nat
      BY <3>1, <3>2, FS_Subset, FS_CardinalityType
    <3>4. Parity \in Nat
      BY DEF Sizes
    <3> QED
      BY <1>6, <3>3, <3>4
  <2>3. read.kind = "state" => read.table = own.shards
    BY <1>1, <1>3, <1>6 DEF Spoiled
  <2>4. got = payload
    <3>1. read.len = Len(payload) /\ Len(payload) \in Nat
      BY <1>1, <1>3, <1>6
    <3>2. Len(Padded(payload)) \in Nat /\ Len(payload) <= Len(Padded(payload))
      <4>1. Len(Padded(payload)) = DataShards(Len(payload)) * ShardSize(Len(payload))
        BY CutJoins
      <4>2. /\ DataShards(Len(payload)) * ShardSize(Len(payload)) \in Nat
            /\ Len(payload) <= DataShards(Len(payload)) * ShardSize(Len(payload))
        BY <3>1, ShardsHold
      <4> QED
        BY <4>1, <4>2
    <3>3. Smallest(Len(payload), Len(Padded(payload))) = Len(payload)
      BY <3>1, <3>2 DEF Smallest
    <3> QED
      BY <3>1, <3>3, PaddedKeeps DEF got, Got
  <2>5. Checked(read, got)
    BY <1>1, <1>3, <1>6, <2>4 DEF Checked
  <2> QED
    BY <1>4, <2>1, <2>2, <2>3, <2>4, <2>5
<1>7. FrameIsTrue(kind, payload, damage, answer)
  BY <1>5, <1>6 DEF FrameIsTrue
<1> QED
  BY <1>7 DEF own, read, answer
=============================================================================
