-------------------------- MODULE PiRpcClientProofs --------------------------
(***************************************************************************)
(* Proofs about the decoder of Pi's output, for any output and any chunks, *)
(* and about the RPC client, for any set of calls, any record sizes and    *)
(* any limits.                                                             *)
(***************************************************************************)
EXTENDS PiRpcClient, RpcJsonl, SequenceTheorems, FiniteSetTheorems,
        NaturalsInduction, WellFoundedInduction, TLAPS

-----------------------------------------------------------------------------
(* The decoder of Pi's output: what it makes of one record, however the    *)
(* record is cut.                                                          *)

\* Two sequences of bytes, one after the other.
LEMMA Joined ==
  ASSUME NEW a \in Seq(Bytes), NEW b \in Seq(Bytes)
  PROVE  /\ a \o b \in Seq(Bytes) /\ Len(a \o b) = Len(a) + Len(b)
         /\ Len(a) \in Nat /\ Len(b) \in Nat
         /\ \A i \in 1 .. Len(a) : (a \o b)[i] = a[i]
         /\ \A i \in 1 .. Len(b) : (a \o b)[Len(a) + i] = b[i]
  BY ConcatProperties

\* The first bytes.
LEMMA FirstBytes ==
  ASSUME NEW r \in Seq(Bytes), NEW n \in 0 .. Len(r)
  PROVE  /\ SubSeq(r, 1, n) \in Seq(Bytes) /\ Len(SubSeq(r, 1, n)) = n
         /\ \A i \in 1 .. n : SubSeq(r, 1, n)[i] = r[i]
<1>1. n \in Int /\ 1 \in Int /\ n \in Nat /\ \A i \in 1 .. n : r[i] \in Bytes
  OBVIOUS
<1> DEFINE s == SubSeq(r, 1, n)
<1>2. /\ s \in Seq(Bytes)
      /\ Len(s) = IF 1 <= n THEN n - 1 + 1 ELSE 0
      /\ \A i \in 1 .. n - 1 + 1 : s[i] = r[1 + i - 1]
  BY <1>1, SubSeqProperties
<1> HIDE DEF s
<1>3. \A i \in 1 .. n : i \in 1 .. n - 1 + 1 /\ 1 + i - 1 = i
  BY <1>1
<1>4. Len(s) = n
  BY <1>1, <1>2
<1>5. \A i \in 1 .. n : s[i] = r[i]
  BY <1>2, <1>3
<1> QED BY <1>2, <1>4, <1>5 DEF s

\* The bytes that are decoded at once, and the half of a character that waits.
Half(r) == r # <<>> /\ Last(r) = "lead"
Whole(r) == IF Half(r) THEN Front(r) ELSE r

\* The half is the last byte, a "lead", and the others come before it.
LEMMA HalfLast ==
  ASSUME NEW r \in Seq(Bytes)
  PROVE  /\ Whole(r) \in Seq(Bytes) /\ Len(r) \in Nat
         /\ ~Half(r) => Whole(r) = r /\ (Len(r) > 0 => r[Len(r)] # "lead")
         /\ Half(r) => /\ Len(r) > 0 /\ r[Len(r)] = "lead" /\ Len(Whole(r)) = Len(r) - 1
                       /\ \A i \in 1 .. Len(r) - 1 : Whole(r)[i] = r[i]
                       /\ r = Whole(r) \o <<"lead">>
<1>1. Len(r) \in Nat /\ (r # <<>> => Len(r) > 0) /\ (Len(r) > 0 => r # <<>>)
  OBVIOUS
<1>2. ASSUME Half(r)
      PROVE  /\ Whole(r) \in Seq(Bytes) /\ Len(Whole(r)) = Len(r) - 1
             /\ \A i \in 1 .. Len(r) - 1 : Whole(r)[i] = r[i]
             /\ r = Whole(r) \o <<"lead">>
  <2> DEFINE f == SubSeq(r, 1, Len(r) - 1)
  <2>1. f \in Seq(Bytes) /\ Len(f) = Len(r) - 1 /\ \A i \in 1 .. Len(r) - 1 : f[i] = r[i]
    <3>1. Len(r) - 1 \in 0 .. Len(r)
      BY <1>1, <1>2 DEF Half
    <3> QED BY <3>1, FirstBytes
  <2>2. Whole(r) = f
    BY <1>2 DEF Whole, Front
  <2>3. r = f \o <<"lead">>
    <3>1. <<"lead">> \in Seq(Bytes) /\ Len(<<"lead">>) = 1 /\ <<"lead">>[1] = "lead"
      BY DEF Bytes
    <3> DEFINE l == <<"lead">>
    <3>2. r[Len(r)] = "lead"
      BY <1>2 DEF Half, Last
    <3> HIDE DEF f, l
    <3>3. /\ f \o l \in Seq(Bytes) /\ Len(f \o l) = Len(r)
          /\ \A i \in 1 .. Len(r) - 1 : (f \o l)[i] = r[i]
          /\ (f \o l)[Len(r)] = "lead"
      <4>1. 1 \in 1 .. Len(l) /\ Len(f) + 1 = Len(r)
        BY <1>1, <2>1, <3>1 DEF l
      <4> QED BY <1>1, <2>1, <3>1, <4>1, Joined DEF l
    <3>4. \A i \in 1 .. Len(r) : (f \o l)[i] = r[i]
      BY <1>1, <3>2, <3>3
    <3> QED BY <1>1, <3>3, <3>4, SeqEqual DEF l
  <2> QED BY <2>1, <2>2, <2>3
<1> QED BY <1>1, <1>2 DEF Half, Whole, Last

\* Behind whole characters, bytes are well formed when they are so by themselves.
LEMMA WholeThen ==
  ASSUME NEW a \in Seq(Bytes), NEW b \in Seq(Bytes), WellFormed(a)
  PROVE  WellFormed(a \o b) <=> WellFormed(b)
<1> DEFINE c == a \o b
           m == Len(a)
           n == Len(b)
<1>1. /\ c \in Seq(Bytes) /\ Len(c) = m + n /\ m \in Nat /\ n \in Nat
      /\ \A i \in 1 .. m : c[i] = a[i]
      /\ \A i \in 1 .. n : c[m + i] = b[i]
  BY Joined
<1> HIDE DEF c
<1>2. \A i \in 1 .. m : /\ a[i] = "cont" => i > 1 /\ a[i - 1] = "lead"
                        /\ a[i] = "lead" => i < m /\ a[i + 1] = "cont"
  BY DEF WellFormed
<1> HIDE DEF m, n
<1>3. ASSUME WellFormed(b) PROVE WellFormed(c)
  <2> SUFFICES ASSUME NEW i \in 1 .. m + n
               PROVE  /\ c[i] = "cont" => i > 1 /\ c[i - 1] = "lead"
                      /\ c[i] = "lead" => i < m + n /\ c[i + 1] = "cont"
    BY <1>1 DEF WellFormed
  <2>1. CASE i <= m
    <3>1. i \in 1 .. m /\ (i > 1 => i - 1 \in 1 .. m) /\ (i < m => i + 1 \in 1 .. m /\ i < m + n)
      BY <1>1, <2>1
    <3> QED BY <1>1, <1>2, <3>1
  <2>2. CASE i > m
    <3> DEFINE j == i - m
    <3>1. /\ j \in 1 .. n /\ i = m + j /\ i \in Nat
          /\ j > 1 => j - 1 \in 1 .. n /\ i - 1 = m + (j - 1) /\ i > 1
          /\ j < n => j + 1 \in 1 .. n /\ i + 1 = m + (j + 1) /\ i < m + n
      <4>1. m \in Nat /\ n \in Nat /\ i \in Nat /\ i > m /\ i <= m + n
        BY <1>1, <2>2
      <4>2. j \in 1 .. n /\ i = m + j
        BY <4>1
      <4>3. j > 1 => j - 1 \in 1 .. n /\ i - 1 = m + (j - 1) /\ i > 1
        BY <4>1
      <4>4. j < n => j + 1 \in 1 .. n /\ i + 1 = m + (j + 1) /\ i < m + n
        BY <4>1
      <4> QED BY <4>1, <4>2, <4>3, <4>4
    <3>2. /\ b[j] = "cont" => j > 1 /\ b[j - 1] = "lead"
          /\ b[j] = "lead" => j < n /\ b[j + 1] = "cont"
      BY <1>3, <3>1 DEF WellFormed, n
    <3> HIDE DEF j
    <3> QED BY <1>1, <3>1, <3>2
  <2> QED BY <1>1, <2>1, <2>2
<1>4. ASSUME WellFormed(c) PROVE WellFormed(b)
  <2> SUFFICES ASSUME NEW j \in 1 .. n
               PROVE  /\ b[j] = "cont" => j > 1 /\ b[j - 1] = "lead"
                      /\ b[j] = "lead" => j < n /\ b[j + 1] = "cont"
    BY DEF WellFormed, n
  <2> DEFINE i == m + j
  <2>1. /\ i \in 1 .. m + n /\ i \in Nat /\ c[i] = b[j]
        /\ j > 1 => j - 1 \in 1 .. n /\ i - 1 = m + (j - 1)
        /\ j < n => j + 1 \in 1 .. n /\ i + 1 = m + (j + 1)
        /\ i < m + n => j < n
        /\ j = 1 /\ i > 1 => i - 1 = m /\ m \in 1 .. m
    <3>1. m \in Nat /\ n \in Nat /\ j \in Nat /\ 1 <= j /\ j <= n
      BY <1>1
    <3>2. c[i] = b[j]
      BY <1>1
    <3>3. i \in 1 .. m + n /\ i \in Nat
      BY <3>1
    <3>4. /\ j > 1 => j - 1 \in 1 .. n /\ i - 1 = m + (j - 1)
          /\ j < n => j + 1 \in 1 .. n /\ i + 1 = m + (j + 1)
      BY <3>1
    <3>5. /\ i < m + n => j < n
          /\ j = 1 /\ i > 1 => i - 1 = m /\ m \in 1 .. m
      BY <3>1
    <3> QED BY <3>2, <3>3, <3>4, <3>5
  <2>2. /\ c[i] = "cont" => i > 1 /\ c[i - 1] = "lead"
        /\ c[i] = "lead" => i < m + n /\ c[i + 1] = "cont"
    BY <1>1, <1>4, <2>1 DEF WellFormed
  <2> HIDE DEF i
  <2>3. b[j] = "cont" => j > 1
    <3> SUFFICES ASSUME b[j] = "cont", j = 1 PROVE FALSE
      BY <1>1
    <3>1. c[m] = "lead" /\ m \in 1 .. m /\ c[m] = a[m]
      BY <1>1, <2>1, <2>2
    <3> QED BY <1>1, <1>2, <3>1
  <2> QED BY <1>1, <2>1, <2>2, <2>3
<1> QED BY <1>3, <1>4 DEF c

\* What is malformed stays so, whatever follows.
LEMMA PrefixWhole ==
  ASSUME NEW a \in Seq(Bytes), NEW b \in Seq(Bytes), WellFormed(Whole(a \o b))
  PROVE  WellFormed(Whole(a))
<1> DEFINE c == a \o b
           w == Whole(a)
           v == Whole(c)
<1>1. /\ c \in Seq(Bytes) /\ Len(c) = Len(a) + Len(b) /\ Len(a) \in Nat /\ Len(b) \in Nat
      /\ \A i \in 1 .. Len(a) : c[i] = a[i]
  BY Joined
<1> HIDE DEF c
<1>2. CASE b = <<>>
  <2>1. c = a
    BY <1>2 DEF c
  <2> QED BY <2>1 DEF c
<1>3. CASE b # <<>>
  <2>1. Len(b) > 0
    BY <1>3
  <2>2. /\ v \in Seq(Bytes) /\ Len(v) \in Nat /\ Len(v) >= Len(a)
        /\ \A i \in 1 .. Len(a) : v[i] = a[i]
    <3>1. /\ v \in Seq(Bytes) /\ Len(v) \in Nat
          /\ Len(v) = Len(c) \/ Len(v) = Len(c) - 1
          /\ \A i \in 1 .. Len(v) : v[i] = c[i]
      <4>1. CASE Half(c)
        BY <1>1, <4>1, HalfLast
      <4>2. CASE ~Half(c)
        BY <1>1, <4>2, HalfLast
      <4> QED BY <4>1, <4>2
    <3> HIDE DEF v
    <3> QED BY <1>1, <2>1, <3>1
  <2>3. /\ w \in Seq(Bytes) /\ Len(w) \in Nat /\ Len(w) <= Len(a)
        /\ \A i \in 1 .. Len(w) : w[i] = a[i]
        /\ Len(w) < Len(a) => Len(a) = Len(w) + 1 /\ a[Len(a)] = "lead"
        /\ Len(w) = Len(a) => (Len(a) > 0 => a[Len(a)] # "lead")
    <3>1. CASE Half(a)
      BY <1>1, <3>1, HalfLast
    <3>2. CASE ~Half(a)
      BY <1>1, <3>2, HalfLast
    <3> QED BY <3>1, <3>2
  <2>4. \A i \in 1 .. Len(v) : /\ v[i] = "cont" => i > 1 /\ v[i - 1] = "lead"
                               /\ v[i] = "lead" => i < Len(v) /\ v[i + 1] = "cont"
    BY DEF WellFormed, c
  <2> HIDE DEF v, w
  <2> SUFFICES ASSUME NEW i \in 1 .. Len(w)
               PROVE  /\ w[i] = "cont" => i > 1 /\ w[i - 1] = "lead"
                      /\ w[i] = "lead" => i < Len(w) /\ w[i + 1] = "cont"
    BY DEF WellFormed, w
  <2>5. /\ i \in 1 .. Len(a) /\ i \in 1 .. Len(v) /\ w[i] = v[i] /\ w[i] = a[i]
        /\ i > 1 => i - 1 \in 1 .. Len(w) /\ i - 1 \in 1 .. Len(a)
        /\ i < Len(w) => i + 1 \in 1 .. Len(w) /\ i + 1 \in 1 .. Len(a)
    BY <1>1, <2>2, <2>3
  <2>6. w[i] = "lead" => i < Len(w)
    <3> SUFFICES ASSUME w[i] = "lead", i = Len(w) PROVE FALSE
      BY <2>3
    <3>1. Len(a) = i + 1 /\ a[i + 1] = "lead" /\ i + 1 \in 1 .. Len(a)
      BY <1>1, <2>3, <2>5
    <3> QED BY <2>2, <2>4, <2>5, <3>1
  <2> QED BY <2>2, <2>3, <2>4, <2>5, <2>6
<1> QED BY <1>2, <1>3

\* Three sequences.
LEMMA JoinedThrice ==
  ASSUME NEW a \in Seq(Bytes), NEW b \in Seq(Bytes), NEW c \in Seq(Bytes)
  PROVE  (a \o b) \o c = a \o (b \o c)
  BY ConcatAssociative

\* Nothing is joined of nothing.
LEMMA JoinedEmpty ==
  ASSUME NEW a \in Seq(Bytes), NEW b \in Seq(Bytes), a \o b = <<>>
  PROVE  a = <<>> /\ b = <<>>
<1>1. Len(a) + Len(b) = 0 /\ Len(a) \in Nat /\ Len(b) \in Nat
  <2>1. Len(a \o b) = 0
    OBVIOUS
  <2> QED BY <2>1, Joined
<1>2. Len(a) = 0 /\ Len(b) = 0
  BY <1>1
<1> QED BY <1>2

\* The decoder's own half of a character and what comes next are decoded at once.
LEMMA Carried ==
  ASSUME NEW r \in Seq(Bytes), NEW x \in Seq(Bytes)
  PROVE  LET all == (IF Half(r) THEN <<"lead">> ELSE <<>>) \o x
         IN  /\ all \in Seq(Bytes) /\ Half(all) = Half(r \o x)
             /\ Whole(r \o x) = Whole(r) \o Whole(all)
<1> DEFINE half == IF Half(r) THEN <<"lead">> ELSE <<>>
           w == Whole(r)
           c == r \o x
           all == half \o x
<1>1. /\ half \in Seq(Bytes) /\ w \in Seq(Bytes) /\ r = w \o half
  <2>1. <<"lead">> \in Seq(Bytes) /\ <<>> \in Seq(Bytes)
    BY DEF Bytes
  <2>2. CASE Half(r)
    BY <2>1, <2>2, HalfLast
  <2>3. CASE ~Half(r)
    BY <2>1, <2>3, HalfLast
  <2> QED BY <2>2, <2>3
<1> HIDE DEF half, w
<1>3. all \in Seq(Bytes) /\ c \in Seq(Bytes) /\ Len(all) \in Nat /\ Len(c) \in Nat /\ Len(w) \in Nat
  BY <1>1, Joined
<1>4. c = w \o all
  <2>1. (w \o half) \o x = w \o (half \o x)
    BY <1>1, JoinedThrice
  <2> QED BY <1>1, <2>1
<1>5. Len(c) = Len(w) + Len(all) /\ \A i \in 1 .. Len(all) : c[Len(w) + i] = all[i]
  <2> HIDE DEF c, all
  <2> QED BY <1>1, <1>3, <1>4, Joined
<1>6. CASE all = <<>>
  <2>1. half = <<>> /\ x = <<>>
    BY <1>1, <1>6, JoinedEmpty
  <2>2. ~Half(r)
    BY <2>1 DEF half
  <2>3. c = r
    BY <2>1
  <2>4. ~Half(all) /\ Whole(all) = <<>>
    BY <1>6 DEF Half, Whole
  <2>5. w \o <<>> = w /\ Whole(r) = w
    BY <1>1 DEF w
  <2>6. Half(all) = Half(c) /\ Whole(c) = w \o Whole(all)
    <3>1. Half(all) = FALSE /\ Half(c) = FALSE
      BY <2>2, <2>3, <2>4 DEF Half
    <3> QED BY <2>3, <2>4, <2>5, <3>1
  <2> QED BY <1>3, <2>6 DEF half, w
<1> HIDE DEF c, all
<1>7. CASE all # <<>>
  <2>1. /\ Len(all) > 0 /\ Len(all) \in 1 .. Len(all) /\ Len(c) > 0 /\ c # <<>>
        /\ Last(c) = Last(all)
    <3>1. Len(all) > 0
      BY <1>3, <1>7
    <3>2. Len(c) > 0 /\ c # <<>> /\ Len(all) \in 1 .. Len(all)
      BY <1>3, <1>5, <3>1
    <3> QED BY <1>5, <3>1, <3>2 DEF Last
  <2>2. Half(all) = Half(c)
    BY <1>7, <2>1 DEF Half
  <2>3. CASE Half(c)
    <3> DEFINE v == Whole(all)
    <3>1. /\ v \in Seq(Bytes) /\ Len(v) = Len(all) - 1 /\ Len(v) \in Nat
          /\ all = v \o <<"lead">>
      BY <1>3, <2>1, <2>2, <2>3, HalfLast
    <3>2. /\ Whole(c) \in Seq(Bytes) /\ Len(Whole(c)) = Len(c) - 1
          /\ \A i \in 1 .. Len(c) - 1 : Whole(c)[i] = c[i]
      BY <1>3, <2>3, HalfLast
    <3>3. \A i \in 1 .. Len(all) - 1 : v[i] = all[i]
      BY <1>3, <2>2, <2>3, HalfLast
    <3> HIDE DEF v
    <3>4. /\ w \o v \in Seq(Bytes) /\ Len(w \o v) = Len(w) + Len(v)
          /\ \A i \in 1 .. Len(w) : (w \o v)[i] = w[i]
          /\ \A i \in 1 .. Len(v) : (w \o v)[Len(w) + i] = v[i]
      BY <1>1, <3>1, Joined
    <3>5. \A i \in 1 .. Len(w) : c[i] = w[i]
      BY <1>1, <1>3, <1>4, Joined
    <3> DEFINE u == w \o v
               z == Whole(c)
    <3>6. /\ Len(u) = Len(z) /\ Len(z) = Len(w) + Len(v) /\ Len(u) \in Nat
      <4>1. Len(u) = Len(w) + Len(v) /\ Len(z) = Len(c) - 1
        BY <3>2, <3>4
      <4> HIDE DEF u, z
      <4>2. Len(c) = Len(w) + Len(all)
        BY <1>5
      <4>3. Len(v) = Len(all) - 1 /\ Len(v) \in Nat /\ Len(w) \in Nat /\ Len(all) \in Nat
        BY <1>3, <3>1
      <4> QED BY <4>1, <4>2, <4>3
    <3>7. \A i \in 1 .. Len(u) : u[i] = z[i]
      <4> SUFFICES ASSUME NEW i \in 1 .. Len(u) PROVE u[i] = z[i]
        OBVIOUS
      <4>1. CASE i <= Len(w)
        <5>1. i \in 1 .. Len(w) /\ i \in 1 .. Len(c) - 1
          BY <1>3, <1>5, <3>2, <3>6, <4>1
        <5> QED BY <3>2, <3>4, <3>5, <5>1
      <4>2. CASE i > Len(w)
        <5> DEFINE j == i - Len(w)
        <5>1. j \in 1 .. Len(v) /\ j \in 1 .. Len(all) - 1 /\ j \in 1 .. Len(all) /\ i = Len(w) + j /\ i \in 1 .. Len(c) - 1
          <6>1. i \in Nat /\ i <= Len(w) + Len(v)
            BY <1>3, <3>6
          <6> HIDE DEF u, z
          <6> QED BY <1>3, <1>5, <3>1, <4>2, <6>1
        <5> HIDE DEF j
        <5>2. u[i] = v[j]
          BY <3>4, <5>1
        <5>3. z[i] = c[i] /\ c[i] = all[j] /\ v[j] = all[j]
          BY <1>5, <3>2, <3>3, <5>1
        <5> QED BY <5>2, <5>3
      <4> QED BY <1>3, <3>6, <4>1, <4>2
    <3>8. u = z
      <4> HIDE DEF u, z
      <4>1. u \in Seq(Bytes) /\ z \in Seq(Bytes)
        BY <3>2, <3>4 DEF u, z
      <4> QED BY <3>6, <3>7, <4>1, SeqEqual
    <3> QED BY <1>3, <2>2, <3>8 DEF half, w, v, c, all
  <2>4. CASE ~Half(c)
    <3>1. Whole(c) = c /\ Whole(all) = all
      BY <2>2, <2>4 DEF Whole
    <3> QED BY <1>3, <1>4, <2>2, <3>1 DEF half, w, c, all
  <2> QED BY <2>3, <2>4
<1> QED BY <1>6, <1>7

\* The beginning of a record that has not been dropped.
Fits(r) == Len(r) <= MaxRecordBytes /\ WellFormed(Whole(r))

\* The values of a decoder.
Decoders ==
  [text : Seq(Bytes), half : BOOLEAN, bytes : Nat, dropping : BOOLEAN, ended : BOOLEAN,
   lines : Seq(Seq(Bytes)), problems : Nat]

\* The decoder when it has reported lines and p problems, and has received the
\* beginning r of a record since the last line feed.
At(d, r, lines, p) ==
  /\ d \in Decoders /\ ~d.ended /\ d.lines = lines
  /\ Fits(r)  => /\ d.text = Whole(r) /\ (d.half <=> Half(r)) /\ d.bytes = Len(r)
                 /\ ~d.dropping /\ d.problems = p
  /\ ~Fits(r) => d.text = <<>> /\ ~d.half /\ d.bytes = 0 /\ d.dropping /\ d.problems = p + 1

\* What is reset.
LEMMA ResetFields ==
  ASSUME NEW d \in Decoders
  PROVE  /\ Reset(d) \in Decoders /\ Reset(d).text = <<>> /\ ~Reset(d).half /\ Reset(d).bytes = 0
         /\ Reset(d).dropping = d.dropping /\ Reset(d).ended = d.ended /\ Reset(d).lines = d.lines
         /\ Reset(d).problems = d.problems
<1>1. <<>> \in Seq(Bytes)
  OBVIOUS
<1> QED BY <1>1 DEF Reset, Decoders

\* drop: one problem more, and nothing kept.
LEMMA DropFields ==
  ASSUME NEW d \in Decoders
  PROVE  /\ Drop(d) \in Decoders /\ Drop(d).text = <<>> /\ ~Drop(d).half /\ Drop(d).bytes = 0
         /\ Drop(d).dropping /\ Drop(d).ended = d.ended /\ Drop(d).lines = d.lines
         /\ Drop(d).problems = d.problems + 1
<1> DEFINE e == Reset(d)
<1>1. /\ e \in Decoders /\ e.text = <<>> /\ ~e.half /\ e.bytes = 0
      /\ e.ended = d.ended /\ e.lines = d.lines /\ e.problems = d.problems
  BY ResetFields
<1>2. Drop(d) = [e EXCEPT !.dropping = TRUE, !.problems = e.problems + 1]
  BY DEF Drop
<1>3. e.problems + 1 \in Nat
  BY <1>1 DEF Decoders
<1> HIDE DEF e
<1> QED BY <1>1, <1>2, <1>3 DEF Decoders

\* append: what it makes of a record does not depend on where the record is cut.
LEMMA AppendAt ==
  ASSUME NEW d, NEW r \in Seq(Bytes), NEW x \in Seq(Bytes), NEW lines, NEW p \in Nat, At(d, r, lines, p)
  PROVE  At(AppendBytes(d, x), r \o x, lines, p) /\ r \o x \in Seq(Bytes)
<1> DEFINE c == r \o x
           all == (IF Half(r) THEN <<"lead">> ELSE <<>>) \o x
           n == Len(r) + Len(x)
<1>1. /\ c \in Seq(Bytes) /\ Len(c) = n /\ Len(r) \in Nat /\ Len(x) \in Nat /\ n \in Nat
  BY Joined
<1>2. Fits(c) => Fits(r)
  BY JsonlAssumption, <1>1, PrefixWhole DEF Fits
<1>3. all \in Seq(Bytes) /\ Half(all) = Half(c) /\ Whole(c) = Whole(r) \o Whole(all)
  BY Carried
<1>4. Whole(r) \in Seq(Bytes) /\ Whole(all) \in Seq(Bytes) /\ Whole(c) \in Seq(Bytes)
  BY <1>1, <1>3, HalfLast
<1> HIDE DEF c, n
<1>5. CASE ~Fits(r)
  <2>1. AppendBytes(d, x) = d
    BY <1>5 DEF AppendBytes, At
  <2>2. At(d, c, lines, p)
    BY <1>2, <1>5 DEF At
  <2> QED BY <1>1, <2>1, <2>2 DEF c
<1>6. CASE Fits(r) /\ n > MaxRecordBytes
  <2>1. ~Fits(c)
    BY JsonlAssumption, <1>1, <1>6 DEF Fits
  <2>2. AppendBytes(d, x) = Drop(d)
    <3>1. ~d.dropping /\ d.bytes + Len(x) = n
      BY <1>6 DEF At, n
    <3> QED BY <1>6, <3>1 DEF AppendBytes
  <2>3. At(Drop(d), c, lines, p)
    BY <1>6, <2>1, DropFields DEF At
  <2> QED BY <1>1, <2>2, <2>3 DEF c
<1>7. CASE Fits(r) /\ ~(n > MaxRecordBytes)
  <2> DEFINE e == [d EXCEPT !.bytes = d.bytes + Len(x)]
  <2>1. /\ e \in Decoders /\ e.text = Whole(r) /\ (e.half <=> Half(r)) /\ e.bytes = n /\ ~e.dropping
        /\ ~e.ended /\ e.lines = lines /\ e.problems = p
    <3>1. d.bytes + Len(x) = n /\ d \in Decoders
      BY <1>7 DEF At, n
    <3> QED BY <1>1, <1>7, <3>1 DEF At, Decoders
  <2>2. AppendBytes(d, x) = Decode(e, x)
    <3>1. ~d.dropping /\ d.bytes + Len(x) = n
      BY <1>7 DEF At, n
    <3> QED BY <1>7, <3>1 DEF AppendBytes
  <2> HIDE DEF e
  <2>3. Fits(c) <=> WellFormed(Whole(all))
    <3>1. WellFormed(Whole(r) \o Whole(all)) <=> WellFormed(Whole(all))
      BY <1>4, <1>7, WholeThen DEF Fits
    <3>2. Len(c) <= MaxRecordBytes
      BY JsonlAssumption, <1>1, <1>7
    <3> QED BY <1>3, <3>1, <3>2 DEF Fits
  <2>4. Decode(e, x) = IF WellFormed(Whole(all)) THEN [e EXCEPT !.text = e.text \o Whole(all), !.half = Half(all)] ELSE Drop(e)
    <3>1. (IF e.half THEN <<"lead">> ELSE <<>>) \o x = all
      BY <2>1
    <3> QED BY <3>1 DEF Decode, Half, Whole
  <2> HIDE DEF all
  <2>5. CASE Fits(c)
    <3> DEFINE t == e.text \o Whole(all)
               h == Half(all)
               f == [e EXCEPT !.text = t, !.half = h]
    <3>1. Decode(e, x) = f
      BY <2>3, <2>4, <2>5
    <3>2. t = Whole(c) /\ h \in BOOLEAN /\ h = Half(c)
      BY <1>3, <2>1 DEF Half
    <3> HIDE DEF t, h
    <3>3. /\ f \in Decoders /\ f.text = Whole(c) /\ f.half = h /\ f.bytes = n /\ ~f.dropping
          /\ ~f.ended /\ f.lines = lines /\ f.problems = p
      BY <1>4, <2>1, <3>2 DEF Decoders
    <3> HIDE DEF f
    <3>4. At(f, c, lines, p)
      BY <1>1, <2>5, <3>2, <3>3 DEF At
    <3> QED BY <1>1, <2>2, <3>1, <3>4 DEF c
  <2>6. CASE ~Fits(c)
    <3>1. Decode(e, x) = Drop(e)
      BY <2>3, <2>4, <2>6
    <3>2. At(Drop(e), c, lines, p)
      BY <2>1, <2>6, DropFields DEF At
    <3> QED BY <1>1, <2>2, <3>1, <3>2 DEF c
  <2> QED BY <2>5, <2>6
<1> QED BY <1>1, <1>5, <1>6, <1>7

\* A record that is whole.
LEMMA GoodFits ==
  ASSUME NEW r \in Seq(Bytes)
  PROVE  Good(r) <=> Fits(r) /\ ~Half(r)
<1>1. ASSUME WellFormed(r) PROVE ~Half(r)
  <2> SUFFICES ASSUME Half(r) PROVE FALSE
    OBVIOUS
  <2>1. Len(r) \in Nat /\ Len(r) > 0 /\ r[Len(r)] = "lead"
    BY HalfLast
  <2>2. Len(r) \in 1 .. Len(r)
    BY <2>1
  <2> QED BY <1>1, <2>1, <2>2 DEF WellFormed
<1> QED BY <1>1 DEF Good, Fits, Whole

\* The lines with what a record adds to them, and so the problems.
With(lines, r) == IF Good(r) /\ r # <<>> THEN Append(lines, Stripped(r)) ELSE lines
Blamed(p, r) == IF Good(r) THEN p ELSE p + 1

\* A line is a sequence of bytes.
LEMMA StrippedBytes ==
  ASSUME NEW r \in Seq(Bytes), r # <<>>
  PROVE  Stripped(r) \in Seq(Bytes)
<1>1. Len(r) - 1 \in 0 .. Len(r)
  OBVIOUS
<1> QED BY <1>1, FirstBytes DEF Stripped, Front

\* The line that is reported.
LEMMA ReportFields ==
  ASSUME NEW d \in Decoders, ~d.ended, Good(d.text)
  PROVE  /\ Report(d) \in Decoders /\ Report(d).lines = With(d.lines, d.text)
         /\ Report(d).ended = d.ended /\ Report(d).problems = d.problems
<1>1. d.text \in Seq(Bytes) /\ d.lines \in Seq(Seq(Bytes))
  BY DEF Decoders
<1>2. CASE d.text = <<>>
  BY <1>2 DEF Report, With
<1>3. CASE d.text # <<>>
  <2> DEFINE l == With(d.lines, d.text)
  <2>1. l = Append(d.lines, Stripped(d.text)) /\ l \in Seq(Seq(Bytes))
    BY <1>1, <1>3, StrippedBytes DEF With
  <2>2. Report(d) = [d EXCEPT !.lines = l]
    BY <1>3, <2>1 DEF Report, Stripped
  <2> HIDE DEF l
  <2>3. Report(d) \in Decoders /\ Report(d).lines = l /\ Report(d).ended = d.ended /\ Report(d).problems = d.problems
    BY <2>1, <2>2 DEF Decoders
  <2> QED BY <2>3 DEF l
<1> QED BY <1>2, <1>3

\* What a decoder is at the beginning of a record.
LEMMA AtStart ==
  ASSUME NEW d \in Decoders, ~d.ended, d.text = <<>>, ~d.half, d.bytes = 0, ~d.dropping
  PROVE  At(d, <<>>, d.lines, d.problems)
<1>1. Fits(<<>>) /\ ~Half(<<>>) /\ Whole(<<>>) = <<>> /\ Len(<<>>) = 0
  BY JsonlAssumption DEF Fits, Whole, Half, WellFormed
<1> QED BY <1>1 DEF At

\* finishLine: a line, a problem, or nothing.
LEMMA FinishAt ==
  ASSUME NEW d, NEW r \in Seq(Bytes), NEW lines, NEW p \in Nat, At(d, r, lines, p)
  PROVE  At(FinishLine(d), <<>>, With(lines, r), Blamed(p, r))
<1>1. d \in Decoders /\ ~d.ended /\ d.lines = lines
  BY DEF At
<1>2. Good(r) <=> Fits(r) /\ ~Half(r)
  BY GoodFits
<1>3. ASSUME NEW e \in Decoders, ~e.ended, FinishLine(d) = Reset([e EXCEPT !.dropping = FALSE]),
             e.lines = With(lines, r), e.problems = Blamed(p, r)
      PROVE  At(FinishLine(d), <<>>, With(lines, r), Blamed(p, r))
  <2> DEFINE g == [e EXCEPT !.dropping = FALSE]
  <2>1. g \in Decoders /\ ~g.ended /\ ~g.dropping /\ g.lines = e.lines /\ g.problems = e.problems
    BY <1>3 DEF Decoders
  <2> HIDE DEF g
  <2>2. /\ Reset(g) \in Decoders /\ Reset(g).text = <<>> /\ ~Reset(g).half /\ Reset(g).bytes = 0
        /\ ~Reset(g).dropping /\ ~Reset(g).ended /\ Reset(g).lines = e.lines
        /\ Reset(g).problems = e.problems
    BY <2>1, ResetFields
  <2>3. At(Reset(g), <<>>, e.lines, e.problems)
    BY <2>2, AtStart
  <2> QED BY <1>3, <2>3 DEF g
<1>4. CASE ~Fits(r)
  <2>1. d.dropping /\ d.problems = p + 1
    BY <1>4 DEF At
  <2>2. FinishLine(d) = Reset([d EXCEPT !.dropping = FALSE])
    BY <2>1 DEF FinishLine
  <2>3. With(lines, r) = lines /\ Blamed(p, r) = p + 1
    BY <1>2, <1>4 DEF With, Blamed
  <2> QED BY <1>1, <1>3, <2>1, <2>2, <2>3
<1>5. CASE Fits(r) /\ Half(r)
  <2>1. ~d.dropping /\ d.half /\ d.problems = p
    BY <1>5 DEF At
  <2>2. /\ Drop(d) \in Decoders /\ Drop(d).dropping /\ ~Drop(d).ended /\ Drop(d).lines = lines
        /\ Drop(d).problems = p + 1
    BY <1>1, <2>1, DropFields
  <2>3. FinishLine(d) = Reset([Drop(d) EXCEPT !.dropping = FALSE])
    BY <2>1, <2>2 DEF FinishLine
  <2>4. With(lines, r) = lines /\ Blamed(p, r) = p + 1
    BY <1>2, <1>5 DEF With, Blamed
  <2> QED BY <1>3, <2>2, <2>3, <2>4
<1>6. CASE Fits(r) /\ ~Half(r)
  <2>1. ~d.dropping /\ ~d.half /\ d.problems = p /\ d.text = r
    BY <1>6 DEF At, Whole
  <2>2. FinishLine(d) = Reset([Report(d) EXCEPT !.dropping = FALSE])
    BY <2>1 DEF FinishLine
  <2>3. /\ Report(d) \in Decoders /\ Report(d).lines = With(lines, r)
        /\ ~Report(d).ended /\ Report(d).problems = p
    BY <1>1, <1>2, <1>6, <2>1, ReportFields
  <2>4. Blamed(p, r) = p
    BY <1>2, <1>6 DEF Blamed
  <2> QED BY <1>3, <2>2, <2>3, <2>4
<1> QED BY <1>4, <1>5, <1>6

\* end: the rest of the output is a record too.
LEMMA EndAt ==
  ASSUME NEW d, NEW r \in Seq(Bytes), NEW lines, NEW p \in Nat, At(d, r, lines, p)
  PROVE  End(d).lines = With(lines, r) /\ End(d).problems = Blamed(p, r)
<1>0. ASSUME NEW e \in Decoders
      PROVE  Discard(e).lines = e.lines /\ Discard(e).problems = e.problems
  <2>1. Reset(e) \in Decoders /\ Reset(e).lines = e.lines /\ Reset(e).problems = e.problems
    BY <1>0, ResetFields
  <2> QED BY <2>1 DEF Discard, Decoders
<1>1. At(FinishLine(d), <<>>, With(lines, r), Blamed(p, r))
  BY FinishAt
<1>2. d \in Decoders /\ ~d.ended /\ d.lines = lines
  BY DEF At
<1>3. CASE d.bytes > 0 \/ d.dropping
  <2>1. End(d) = Discard(FinishLine(d))
    BY <1>2, <1>3 DEF End
  <2>2. /\ FinishLine(d) \in Decoders /\ FinishLine(d).lines = With(lines, r)
        /\ FinishLine(d).problems = Blamed(p, r)
    <3>1. Fits(<<>>)
      BY JsonlAssumption DEF Fits, Whole, Half, WellFormed
    <3> QED BY <1>1, <3>1 DEF At
  <2> QED BY <1>0, <2>1, <2>2
<1>4. CASE ~(d.bytes > 0 \/ d.dropping)
  <2>1. End(d) = Discard(d)
    BY <1>2, <1>4 DEF End
  <2>2. Fits(r) /\ d.problems = p /\ r = <<>>
    <3>1. Fits(r)
      BY <1>4 DEF At
    <3>2. d.bytes = Len(r) /\ d.problems = p /\ Len(r) \in Nat
      BY <3>1 DEF At
    <3>3. Len(r) = 0
      BY <1>4, <3>2
    <3> QED BY <3>1, <3>2, <3>3
  <2>3. Good(r)
    BY JsonlAssumption, <2>2 DEF Good, WellFormed
  <2> QED BY <1>0, <1>2, <2>1, <2>2, <2>3 DEF With, Blamed
<1> QED BY <1>3, <1>4

-----------------------------------------------------------------------------
(* Records of an output, byte by byte.                                     *)

\* Every set of numbers has a least one.
LEMMA Least ==
  ASSUME NEW T, T \subseteq Nat, T # {}
  PROVE  \E x \in T : \A y \in T : x <= y
<1>1. PICK x \in T : \A y \in T : ~ (<<y, x>> \in OpToRel(<, Nat))
  BY NatLessThanWellFounded, WFMin, Zenon
<1>2. \A y \in T : ~(y < x)
  BY <1>1 DEF OpToRel
<1> QED BY <1>2

\* What is in 0, and in each number after one that has it, is in all numbers.
LEMMA SetInduction ==
  ASSUME NEW S, 0 \in S, \A n \in Nat : n \in S => n + 1 \in S
  PROVE  Nat \subseteq S
<1> SUFFICES ASSUME Nat \ S # {} PROVE FALSE
  OBVIOUS
<1>1. PICK x \in Nat \ S : \A y \in Nat \ S : x <= y
  BY Least
<1>2. x # 0 /\ x - 1 \in Nat /\ x - 1 \in S
  BY <1>1
<1> QED BY <1>1, <1>2

\* The greatest of numbers that have a bound.
LEMMA MaxIs ==
  ASSUME NEW n \in Nat, NEW S, S \subseteq 0 .. n, S # {}
  PROVE  Max(S) \in S /\ \A y \in S : Max(S) >= y
<1> DEFINE T == {n - x : x \in S}
<1>1. T \subseteq Nat /\ T # {}
  <2>1. \A x \in S : x \in 0 .. n /\ n - x \in Nat
    OBVIOUS
  <2>2. PICK x \in S : TRUE
    OBVIOUS
  <2> QED BY <2>1, <2>2
<1>2. PICK t \in T : \A u \in T : t <= u
  BY <1>1, Least
<1>3. PICK x \in S : t = n - x
  BY <1>2
<1>4. \A y \in S : x >= y
  <2> SUFFICES ASSUME NEW y \in S PROVE x >= y
    OBVIOUS
  <2>1. n - x <= n - y /\ x \in 0 .. n /\ y \in 0 .. n
    BY <1>2, <1>3
  <2> QED BY <2>1
<1>5. \E z \in S : \A y \in S : z >= y
  BY <1>4
<1> QED BY <1>5, Zenon DEF Max

\* A sequence and the part of it up to one position more.
LEMMA CutLonger ==
  ASSUME NEW o \in Seq(Bytes), NEW i \in 1 .. Len(o), NEW m \in 0 .. i - 1
  PROVE  /\ SubSeq(o, m + 1, i - 1) \in Seq(Bytes)
         /\ SubSeq(o, m + 1, i) = Append(SubSeq(o, m + 1, i - 1), o[i])
<1> DEFINE s == SubSeq(o, m + 1, i - 1)
           t == SubSeq(o, m + 1, i)
           e == Append(s, o[i])
           k == i - m
<1>1. /\ m + 1 \in Int /\ i - 1 \in Int /\ i \in Int /\ m \in Nat /\ k \in Nat /\ k >= 1 /\ o[i] \in Bytes
      /\ \A j \in m + 1 .. i - 1 : o[j] \in Bytes
      /\ \A j \in m + 1 .. i : o[j] \in Bytes
  OBVIOUS
<1>2. /\ s \in Seq(Bytes)
      /\ Len(s) = IF m + 1 <= i - 1 THEN i - 1 - (m + 1) + 1 ELSE 0
      /\ \A j \in 1 .. i - 1 - (m + 1) + 1 : s[j] = o[m + 1 + j - 1]
  BY <1>1, SubSeqProperties
<1>3. /\ t \in Seq(Bytes)
      /\ Len(t) = IF m + 1 <= i THEN i - (m + 1) + 1 ELSE 0
      /\ \A j \in 1 .. i - (m + 1) + 1 : t[j] = o[m + 1 + j - 1]
  BY <1>1, SubSeqProperties
<1> HIDE DEF s, t
<1>4. Len(s) = k - 1 /\ \A j \in 1 .. k - 1 : s[j] = o[m + j]
  <2>1. k - 1 = i - 1 - (m + 1) + 1 /\ (~(m + 1 <= i - 1) => k - 1 = 0)
    BY <1>1
  <2>2. \A j \in 1 .. k - 1 : m + 1 + j - 1 = m + j
    BY <1>1
  <2> QED BY <1>2, <2>1, <2>2
<1>5. Len(t) = k /\ \A j \in 1 .. k : t[j] = o[m + j]
  <2>1. k = i - (m + 1) + 1 /\ m + 1 <= i
    BY <1>1
  <2>2. \A j \in 1 .. k : m + 1 + j - 1 = m + j
    BY <1>1
  <2> QED BY <1>3, <2>1, <2>2
<1>6. /\ e \in Seq(Bytes) /\ Len(e) = k
      /\ \A j \in 1 .. k - 1 : e[j] = s[j]
      /\ e[k] = o[i]
  BY <1>1, <1>2, <1>4, AppendProperties
<1> HIDE DEF e
<1>7. \A j \in 1 .. k : t[j] = e[j]
  <2> SUFFICES ASSUME NEW j \in 1 .. k PROVE t[j] = e[j]
    OBVIOUS
  <2>1. CASE j = k
    <3>1. m + k = i
      BY <1>1
    <3> QED BY <1>5, <1>6, <2>1, <3>1
  <2>2. CASE j # k
    <3>1. j \in 1 .. k - 1
      BY <1>1, <2>2
    <3> QED BY <1>4, <1>5, <1>6, <3>1
  <2> QED BY <2>1, <2>2
<1>8. t = e
  BY <1>1, <1>3, <1>5, <1>6, <1>7, SeqEqual
<1> QED BY <1>2, <1>8 DEF s, t, e

\* The record before a position, from the one before the last position.
LEMMA RecordStep ==
  ASSUME NEW o \in Seq(Bytes)
  PROVE  /\ RecordBefore(o, 1) = <<>>
         /\ \A i \in 1 .. Len(o) :
              /\ RecordBefore(o, i) \in Seq(Bytes)
              /\ RecordBefore(o, i + 1) =
                   IF o[i] = "lf" THEN <<>> ELSE Append(RecordBefore(o, i), o[i])
<1>1. RecordBefore(o, 1) = <<>>
  <2> DEFINE F == {0} \cup {j \in 1 .. 1 - 1 : o[j] = "lf"}
  <2>1. F \subseteq 0 .. 0 /\ F # {}
    OBVIOUS
  <2>2. Max(F) = 0
    <3> HIDE DEF F
    <3> DEFINE m == Max(F)
    <3>1. m \in F
      <4>1. 0 \in Nat
        OBVIOUS
      <4> QED BY <2>1, <4>1, MaxIs
    <3>2. m \in 0 .. 0
      BY <2>1, <3>1
    <3> HIDE DEF m
    <3>3. m = 0
      BY <3>2
    <3> QED BY <3>3 DEF m
  <2>3. RecordBefore(o, 1) = SubSeq(o, Max(F) + 1, 1 - 1)
    BY DEF RecordBefore
  <2>4. SubSeq(o, 1, 0) = <<>>
    BY SubSeqEmpty
  <2> QED BY <2>2, <2>3, <2>4
<1>2. ASSUME NEW i \in 1 .. Len(o)
      PROVE  /\ RecordBefore(o, i) \in Seq(Bytes)
             /\ RecordBefore(o, i + 1) =
                  IF o[i] = "lf" THEN <<>> ELSE Append(RecordBefore(o, i), o[i])
  <2> DEFINE F == {0} \cup {j \in 1 .. i - 1 : o[j] = "lf"}
             G == {0} \cup {j \in 1 .. (i + 1) - 1 : o[j] = "lf"}
             m == Max(F)
             k == Max(G)
  <2>1. RecordBefore(o, i) = SubSeq(o, m + 1, i - 1) /\ RecordBefore(o, i + 1) = SubSeq(o, k + 1, i)
    <3>1. (i + 1) - 1 = i
      OBVIOUS
    <3> QED BY <3>1 DEF RecordBefore
  <2>2. F \subseteq 0 .. i - 1 /\ F # {} /\ i - 1 \in Nat /\ G \subseteq 0 .. i /\ G # {} /\ i \in Nat
    OBVIOUS
  <2>3. G = IF o[i] = "lf" THEN F \cup {i} ELSE F
    OBVIOUS
  <2>4. i \notin F
    BY <2>2
  <2> HIDE DEF F, G
  <2>5. m \in F /\ k \in G /\ \A y \in G : k >= y
    BY <2>2, MaxIs
  <2>6. m \in 0 .. i - 1
    BY <2>2, <2>5
  <2> HIDE DEF m
  <2>7. /\ SubSeq(o, m + 1, i - 1) \in Seq(Bytes)
        /\ SubSeq(o, m + 1, i) = Append(SubSeq(o, m + 1, i - 1), o[i])
    BY <2>6, CutLonger
  <2>8. CASE o[i] = "lf"
    <3>1. k = i
      <4>1. i \in G
        BY <2>3, <2>8
      <4>2. k >= i /\ k <= i /\ k \in Nat
        <5>1. k >= i
          BY <2>5, <4>1
        <5>2. k \in 0 .. i
          BY <2>2, <2>5
        <5> HIDE DEF k
        <5> QED BY <5>1, <5>2
      <4> HIDE DEF k
      <4> QED BY <2>2, <4>2
    <3>2. SubSeq(o, i + 1, i) = <<>>
      <4>1. i + 1 \in Int /\ i \in Int /\ i < i + 1
        OBVIOUS
      <4> QED BY <4>1, SubSeqEmpty
    <3> QED BY <2>1, <2>7, <2>8, <3>1, <3>2
  <2>9. CASE o[i] # "lf"
    <3>1. k = m
      BY <2>3, <2>9 DEF m
    <3> QED BY <2>1, <2>7, <2>9, <3>1
  <2> QED BY <2>8, <2>9
<1> QED BY <1>1, <1>2

\* What is before a position is a sequence of bytes.
LEMMA RecordBytes ==
  ASSUME NEW o \in Seq(Bytes), NEW i \in 1 .. Len(o) + 1
  PROVE  RecordBefore(o, i) \in Seq(Bytes)
<1>1. CASE i = 1
  <2>1. RecordBefore(o, 1) = <<>>
    BY RecordStep
  <2>2. RecordBefore(o, i) = <<>>
    BY <1>1, <2>1, Zenon
  <2> QED BY <2>2
<1>2. CASE i # 1
  <2> DEFINE j == i - 1
  <2>1. j \in 1 .. Len(o) /\ i = j + 1 /\ o[j] \in Bytes
    BY <1>2
  <2> HIDE DEF j
  <2>2. /\ RecordBefore(o, j) \in Seq(Bytes)
        /\ RecordBefore(o, j + 1) = IF o[j] = "lf" THEN <<>> ELSE Append(RecordBefore(o, j), o[j])
    BY <2>1, RecordStep
  <2>3. RecordBefore(o, j + 1) \in Seq(Bytes)
    <3> DEFINE q == RecordBefore(o, j)
               e == Append(q, o[j])
    <3>1. e \in Seq(Bytes)
      BY <2>1, <2>2
    <3>2. <<>> \in Seq(Bytes)
      OBVIOUS
    <3>3. RecordBefore(o, j + 1) = IF o[j] = "lf" THEN <<>> ELSE e
      BY <2>2
    <3> HIDE DEF e
    <3> QED BY <3>1, <3>2, <3>3
  <2>4. RecordBefore(o, i) = RecordBefore(o, j + 1)
    BY <2>1, Zenon
  <2> QED BY <2>3, <2>4
<1> QED BY <1>1, <1>2

\* What is before a position does not depend on what follows.
LEMMA RecordLocal ==
  ASSUME NEW o \in Seq(Bytes), NEW x \in Seq(Bytes)
  PROVE  \A n \in 0 .. Len(o) : RecordBefore(o \o x, n + 1) = RecordBefore(o, n + 1)
<1> DEFINE w == o \o x
           S == {n \in Nat : n <= Len(o) => RecordBefore(w, n + 1) = RecordBefore(o, n + 1)}
<1>1. /\ w \in Seq(Bytes) /\ Len(w) = Len(o) + Len(x) /\ Len(o) \in Nat /\ Len(x) \in Nat
      /\ \A i \in 1 .. Len(o) : w[i] = o[i]
  BY Joined
<1> HIDE DEF w
<1>2. 0 \in S
  <2>1. RecordBefore(w, 1) = <<>> /\ RecordBefore(o, 1) = <<>>
    BY <1>1, RecordStep
  <2> QED BY <2>1
<1>3. ASSUME NEW n \in Nat, n \in S PROVE n + 1 \in S
  <2> SUFFICES ASSUME n + 1 <= Len(o)
               PROVE  RecordBefore(w, (n + 1) + 1) = RecordBefore(o, (n + 1) + 1)
    OBVIOUS
  <2> DEFINE i == n + 1
  <2>1. i \in 1 .. Len(o) /\ i \in 1 .. Len(w)
    BY <1>1
  <2>2. RecordBefore(w, i) = RecordBefore(o, i)
    BY <1>1, <1>3
  <2> HIDE DEF i
  <2>3. /\ RecordBefore(w, i + 1) = IF w[i] = "lf" THEN <<>> ELSE Append(RecordBefore(w, i), w[i])
        /\ RecordBefore(o, i + 1) = IF o[i] = "lf" THEN <<>> ELSE Append(RecordBefore(o, i), o[i])
    BY <1>1, <2>1, RecordStep
  <2>4. w[i] = o[i]
    BY <1>1, <2>1
  <2>5. RecordBefore(w, i + 1) = RecordBefore(o, i + 1)
    BY <2>2, <2>3, <2>4
  <2> QED BY <2>5 DEF i
<1> HIDE DEF S
<1>4. Nat \subseteq S
  BY <1>2, <1>3, SetInduction
<1> QED BY <1>1, <1>4 DEF S, w

-----------------------------------------------------------------------------
(* Lines and problems of an output, byte by byte.                          *)

\* The lines up to each position (the function of Lines).
LinesUpTo(bytes, N, f) ==
  f = [i \in 0 .. N |->
        IF i = 0 THEN <<>>
        ELSE IF Ends(bytes, i) /\ Good(RecordBefore(bytes, i)) /\ RecordBefore(bytes, i) # <<>>
        THEN Append(f[i - 1], Stripped(RecordBefore(bytes, i)))
        ELSE f[i - 1]]

\* Such a function exists: it is built one position after the other.
LEMMA LinesUpToExists ==
  ASSUME NEW o, NEW N \in Nat
  PROVE  \E f : LinesUpTo(o, N, f)
<1> DEFINE value(f, i) ==
             IF i = 0 THEN <<>>
             ELSE IF Ends(o, i) /\ Good(RecordBefore(o, i)) /\ RecordBefore(o, i) # <<>>
             THEN Append(f[i - 1], Stripped(RecordBefore(o, i)))
             ELSE f[i - 1]
           S == {m \in Nat : \E f : LinesUpTo(o, m, f)}
<1>1. 0 \in S
  <2>1. LinesUpTo(o, 0, [i \in 0 .. 0 |-> <<>>])
    BY DEF LinesUpTo
  <2> QED BY <2>1
<1>2. ASSUME NEW n \in Nat, n \in S PROVE n + 1 \in S
  <2>1. PICK f : LinesUpTo(o, n, f)
    BY <1>2
  <2> DEFINE last == value(f, n + 1)
             g == [i \in 0 .. n + 1 |-> IF i = n + 1 THEN last ELSE f[i]]
             h == [i \in 0 .. n + 1 |-> value(g, i)]
  <2>2. ASSUME NEW i \in 0 .. n + 1 PROVE g[i] = value(g, i)
    <3>1. CASE i = n + 1
      <4>1. g[i] = last /\ g[i - 1] = f[n] /\ i # 0 /\ i - 1 = n
        BY <3>1
      <4> HIDE DEF g
      <4> QED BY <3>1, <4>1
    <3>2. CASE i # n + 1 /\ i # 0
      <4>1. i \in 0 .. n /\ i - 1 \in 0 .. n + 1 /\ i - 1 # n + 1
        BY <3>2
      <4>2. g[i] = f[i] /\ g[i - 1] = f[i - 1]
        BY <3>2, <4>1
      <4>3. f[i] = value(f, i)
        BY <2>1, <4>1, Zenon DEF LinesUpTo
      <4> HIDE DEF g
      <4> QED BY <3>2, <4>2, <4>3
    <3>3. CASE i = 0
      <4>1. g[i] = f[0] /\ f[0] = <<>>
        BY <2>1, <3>3 DEF LinesUpTo
      <4> HIDE DEF g
      <4> QED BY <4>1, <3>3
    <3> QED BY <3>1, <3>2, <3>3
  <2>3. g = [i \in 0 .. n + 1 |-> g[i]]
    OBVIOUS
  <2>4. g = h
    <3> HIDE DEF g, value
    <3> QED BY <2>2, <2>3
  <2>5. LinesUpTo(o, n + 1, g)
    <3> HIDE DEF g
    <3> QED BY <2>4, Zenon DEF LinesUpTo
  <2> QED BY <2>5
<1> HIDE DEF S
<1>3. Nat \subseteq S
  BY <1>1, <1>2, SetInduction
<1> QED BY <1>3 DEF S

\* The lines up to each position.
LinesOf(bytes) == CHOOSE f : LinesUpTo(bytes, Len(bytes) + 1, f)

\* Lines, position by position.
LEMMA LinesStep ==
  ASSUME NEW o, Len(o) \in Nat
  PROVE  /\ Lines(o) = LinesOf(o)[Len(o) + 1] /\ LinesOf(o)[0] = <<>>
         /\ \A i \in 1 .. Len(o) + 1 :
              LinesOf(o)[i] = IF Ends(o, i) THEN With(LinesOf(o)[i - 1], RecordBefore(o, i))
                              ELSE LinesOf(o)[i - 1]
<1> DEFINE f == LinesOf(o)
<1>1. LinesUpTo(o, Len(o) + 1, f)
  <2>1. Len(o) + 1 \in Nat
    OBVIOUS
  <2> QED BY <2>1, LinesUpToExists, Zenon DEF LinesOf
<1>2. Lines(o) = f[Len(o) + 1]
  BY Zenon DEF Lines, LinesOf, LinesUpTo
<1> HIDE DEF f
<1>3. f[0] = <<>>
  BY <1>1 DEF LinesUpTo
<1>4. ASSUME NEW i \in 1 .. Len(o) + 1
      PROVE  f[i] = IF Ends(o, i) THEN With(f[i - 1], RecordBefore(o, i)) ELSE f[i - 1]
  <2>1. i \in 0 .. Len(o) + 1 /\ i # 0
    OBVIOUS
  <2>2. f[i] = IF Ends(o, i) /\ Good(RecordBefore(o, i)) /\ RecordBefore(o, i) # <<>>
               THEN Append(f[i - 1], Stripped(RecordBefore(o, i)))
               ELSE f[i - 1]
    BY <1>1, <2>1, Zenon DEF LinesUpTo
  <2> QED BY <2>2, Zenon DEF With
<1> QED BY <1>2, <1>3, <1>4 DEF f

\* Malformed and too long records that have ended within the first n bytes.
Faults(bytes, n) == {i \in 1 .. n : bytes[i] = "lf" /\ ~Good(RecordBefore(bytes, i))}

\* They are counted one byte after the other.
LEMMA FaultsStep ==
  ASSUME NEW o \in Seq(Bytes), NEW n \in Nat
  PROVE  /\ IsFiniteSet(Faults(o, n)) /\ Cardinality(Faults(o, n)) \in Nat
         /\ Cardinality(Faults(o, n + 1)) =
              IF o[n + 1] = "lf" THEN Blamed(Cardinality(Faults(o, n)), RecordBefore(o, n + 1))
              ELSE Cardinality(Faults(o, n))
<1> DEFINE F == Faults(o, n)
           G == Faults(o, n + 1)
<1>1. IsFiniteSet(F)
  <2>1. IsFiniteSet(1 .. n)
    BY FS_Interval
  <2> QED BY <2>1, FS_Subset DEF Faults
<1>2. Cardinality(F) \in Nat
  BY <1>1, FS_CardinalityType
<1>3. n + 1 \notin F
  BY DEF Faults
<1>4. CASE o[n + 1] = "lf" /\ ~Good(RecordBefore(o, n + 1))
  <2>1. G = F \cup {n + 1}
    BY <1>4 DEF Faults
  <2> HIDE DEF F, G
  <2>2. Cardinality(G) = Cardinality(F) + 1
    BY <1>1, <1>3, <2>1, FS_AddElement
  <2> QED BY <1>1, <1>2, <1>4, <2>2 DEF F, G, Blamed
<1>5. CASE ~(o[n + 1] = "lf" /\ ~Good(RecordBefore(o, n + 1)))
  <2>1. G = F
    BY <1>5 DEF Faults
  <2> HIDE DEF F, G
  <2> QED BY <1>1, <1>2, <1>5, <2>1 DEF F, G, Blamed
<1> QED BY <1>4, <1>5

\* Neither depends on what follows.
LEMMA LinesLocal ==
  ASSUME NEW o \in Seq(Bytes), NEW x \in Seq(Bytes)
  PROVE  \A n \in 0 .. Len(o) : /\ LinesOf(o \o x)[n] = LinesOf(o)[n]
                                /\ Faults(o \o x, n) = Faults(o, n)
<1> DEFINE w == o \o x
           S == {n \in Nat : n <= Len(o) => LinesOf(w)[n] = LinesOf(o)[n]}
<1>1. /\ w \in Seq(Bytes) /\ Len(w) = Len(o) + Len(x) /\ Len(o) \in Nat /\ Len(x) \in Nat
      /\ Len(w) \in Nat /\ \A i \in 1 .. Len(o) : w[i] = o[i]
  BY Joined
<1>2. \A i \in 1 .. Len(o) : RecordBefore(w, i) = RecordBefore(o, i)
  <2> SUFFICES ASSUME NEW i \in 1 .. Len(o) PROVE RecordBefore(w, i) = RecordBefore(o, i)
    OBVIOUS
  <2>1. i - 1 \in 0 .. Len(o) /\ (i - 1) + 1 = i
    OBVIOUS
  <2> QED BY <2>1, RecordLocal
<1> HIDE DEF w
<1>3. 0 \in S
  BY <1>1, LinesStep
<1>4. ASSUME NEW n \in Nat, n \in S PROVE n + 1 \in S
  <2> SUFFICES ASSUME n + 1 <= Len(o) PROVE LinesOf(w)[n + 1] = LinesOf(o)[n + 1]
    OBVIOUS
  <2> DEFINE i == n + 1
  <2>1. /\ i \in 1 .. Len(o) /\ i \in 1 .. Len(w) + 1 /\ i \in 1 .. Len(o) + 1
        /\ i # Len(w) + 1 /\ i # Len(o) + 1 /\ i - 1 = n
    BY <1>1
  <2>2. LinesOf(w)[n] = LinesOf(o)[n]
    BY <1>1, <1>4
  <2> HIDE DEF i
  <2>3. Ends(w, i) <=> Ends(o, i)
    BY <1>1, <2>1 DEF Ends
  <2>4. /\ LinesOf(w)[i] = IF Ends(w, i) THEN With(LinesOf(w)[n], RecordBefore(w, i)) ELSE LinesOf(w)[n]
        /\ LinesOf(o)[i] = IF Ends(o, i) THEN With(LinesOf(o)[n], RecordBefore(o, i)) ELSE LinesOf(o)[n]
    BY <1>1, <2>1, LinesStep
  <2>5. LinesOf(w)[i] = LinesOf(o)[i]
    BY <1>2, <2>1, <2>2, <2>3, <2>4
  <2> QED BY <2>5 DEF i
<1> HIDE DEF S
<1>5. Nat \subseteq S
  BY <1>3, <1>4, SetInduction
<1>6. ASSUME NEW n \in 0 .. Len(o) PROVE Faults(w, n) = Faults(o, n)
  <2>1. \A i \in 1 .. n : i \in 1 .. Len(o)
    BY <1>1
  <2> QED BY <1>1, <1>2, <2>1 DEF Faults
<1> QED BY <1>1, <1>5, <1>6 DEF S, w

-----------------------------------------------------------------------------
(* Chunks.                                                                 *)

\* The decoder behind each line feed of a chunk (the function of Push).
PushedUpTo(d, chunk, N, f) ==
  f = [i \in 0 .. N |->
        IF i = 0 THEN d
        ELSE IF chunk[i] = "lf" THEN FinishLine(AppendBytes(f[i - 1], RecordBefore(chunk, i)))
        ELSE f[i - 1]]

\* Such a function exists.
LEMMA PushedExists ==
  ASSUME NEW d, NEW chunk, NEW N \in Nat
  PROVE  \E f : PushedUpTo(d, chunk, N, f)
<1> DEFINE value(f, i) ==
             IF i = 0 THEN d
             ELSE IF chunk[i] = "lf" THEN FinishLine(AppendBytes(f[i - 1], RecordBefore(chunk, i)))
             ELSE f[i - 1]
           S == {m \in Nat : \E f : PushedUpTo(d, chunk, m, f)}
<1>1. 0 \in S
  <2>1. PushedUpTo(d, chunk, 0, [i \in 0 .. 0 |-> d])
    BY DEF PushedUpTo
  <2> QED BY <2>1
<1>2. ASSUME NEW n \in Nat, n \in S PROVE n + 1 \in S
  <2>1. PICK f : PushedUpTo(d, chunk, n, f)
    BY <1>2
  <2> DEFINE last == value(f, n + 1)
             g == [i \in 0 .. n + 1 |-> IF i = n + 1 THEN last ELSE f[i]]
             h == [i \in 0 .. n + 1 |-> value(g, i)]
  <2>2. ASSUME NEW i \in 0 .. n + 1 PROVE g[i] = value(g, i)
    <3>1. CASE i = n + 1
      <4>1. g[i] = last /\ g[i - 1] = f[n] /\ i # 0 /\ i - 1 = n
        BY <3>1
      <4> HIDE DEF g
      <4> QED BY <3>1, <4>1
    <3>2. CASE i # n + 1 /\ i # 0
      <4>1. i \in 0 .. n /\ i - 1 \in 0 .. n + 1 /\ i - 1 # n + 1
        BY <3>2
      <4>2. g[i] = f[i] /\ g[i - 1] = f[i - 1]
        BY <3>2, <4>1
      <4>3. f[i] = value(f, i)
        BY <2>1, <4>1, Zenon DEF PushedUpTo
      <4> HIDE DEF g
      <4> QED BY <3>2, <4>2, <4>3
    <3>3. CASE i = 0
      <4>1. g[i] = f[0] /\ f[0] = d
        BY <2>1, <3>3 DEF PushedUpTo
      <4> HIDE DEF g
      <4> QED BY <4>1, <3>3
    <3> QED BY <3>1, <3>2, <3>3
  <2>3. g = [i \in 0 .. n + 1 |-> g[i]]
    OBVIOUS
  <2>4. g = h
    <3> HIDE DEF g, value
    <3> QED BY <2>2, <2>3
  <2>5. PushedUpTo(d, chunk, n + 1, g)
    <3> HIDE DEF g
    <3> QED BY <2>4, Zenon DEF PushedUpTo
  <2> QED BY <2>5
<1> HIDE DEF S
<1>3. Nat \subseteq S
  BY <1>1, <1>2, SetInduction
<1> QED BY <1>3 DEF S

\* Push, position by position.
LEMMA PushStep ==
  ASSUME NEW d, NEW chunk, Len(chunk) \in Nat, ~d.ended
  PROVE  \E f : /\ f[0] = d
                /\ \A i \in 1 .. Len(chunk) :
                     f[i] = IF chunk[i] = "lf" THEN FinishLine(AppendBytes(f[i - 1], RecordBefore(chunk, i)))
                            ELSE f[i - 1]
                /\ Push(d, chunk) = AppendBytes(f[Len(chunk)], RecordBefore(chunk, Len(chunk) + 1))
<1> DEFINE f == CHOOSE f : PushedUpTo(d, chunk, Len(chunk), f)
<1>1. PushedUpTo(d, chunk, Len(chunk), f)
  BY PushedExists, Zenon
<1>2. Push(d, chunk) = IF d.ended THEN d ELSE AppendBytes(f[Len(chunk)], RecordBefore(chunk, Len(chunk) + 1))
  BY Zenon DEF Push, PushedUpTo
<1> HIDE DEF f
<1>3. f[0] = d
  BY <1>1 DEF PushedUpTo
<1>4. ASSUME NEW i \in 1 .. Len(chunk)
      PROVE  f[i] = IF chunk[i] = "lf" THEN FinishLine(AppendBytes(f[i - 1], RecordBefore(chunk, i)))
                    ELSE f[i - 1]
  <2>1. i \in 0 .. Len(chunk) /\ i # 0
    OBVIOUS
  <2> QED BY <1>1, <2>1, Zenon DEF PushedUpTo
<1>5. Push(d, chunk) = AppendBytes(f[Len(chunk)], RecordBefore(chunk, Len(chunk) + 1))
  BY <1>2, Zenon
<1> QED BY <1>3, <1>4, <1>5, Zenon

\* The decoder when it has received an output: lines and problems of the records
\* that have ended, and the beginning of the one that has not.
Received(d, o) ==
  At(d, RecordBefore(o, Len(o) + 1), LinesOf(o)[Len(o)], Cardinality(Faults(o, Len(o))))

\* push: what is received of a chunk follows what was received before it.
LEMMA PushReceives ==
  ASSUME NEW o \in Seq(Bytes), NEW chunk \in Seq(Bytes), NEW d, Received(d, o)
  PROVE  Received(Push(d, chunk), o \o chunk)
<1> DEFINE w == o \o chunk
           n == Len(o)
           m == Len(chunk)
<1>1. /\ w \in Seq(Bytes) /\ Len(w) = n + m /\ n \in Nat /\ m \in Nat
      /\ \A i \in 1 .. m : w[n + i] = chunk[i]
  BY Joined
<1>2. PICK f : /\ f[0] = d
               /\ \A i \in 1 .. m :
                    f[i] = IF chunk[i] = "lf" THEN FinishLine(AppendBytes(f[i - 1], RecordBefore(chunk, i)))
                           ELSE f[i - 1]
               /\ Push(d, chunk) = AppendBytes(f[m], RecordBefore(chunk, m + 1))
  <2>1. ~d.ended
    BY DEF Received, At
  <2> QED BY <1>1, <2>1, PushStep
<1> DEFINE Holds(i) ==
             \E r \in Seq(Bytes) :
               /\ At(f[i], r, LinesOf(w)[n + i], Cardinality(Faults(w, n + i)))
               /\ r \o RecordBefore(chunk, i + 1) = RecordBefore(w, n + i + 1)
           S == {i \in Nat : i <= m => Holds(i)}
<1>3. 0 \in S
  <2>1. n \in 0 .. n /\ n + 1 \in 1 .. n + 1
    BY <1>1
  <2>2. LinesOf(w)[n] = LinesOf(o)[n] /\ Faults(w, n) = Faults(o, n)
    BY <2>1, LinesLocal
  <2>3. RecordBefore(w, n + 1) = RecordBefore(o, n + 1)
    BY <2>1, RecordLocal
  <2>4. RecordBefore(chunk, 0 + 1) = <<>>
    BY RecordStep
  <2>5. RecordBefore(o, n + 1) \in Seq(Bytes)
    BY <2>1, RecordBytes
  <2> HIDE DEF w
  <2>6. n + 0 = n /\ n + 0 + 1 = n + 1
    BY <1>1
  <2>7. At(f[0], RecordBefore(o, n + 1), LinesOf(w)[n + 0], Cardinality(Faults(w, n + 0)))
    BY <1>2, <2>2, <2>6 DEF Received
  <2>8. RecordBefore(o, n + 1) \o RecordBefore(chunk, 0 + 1) = RecordBefore(w, n + 0 + 1)
    BY <2>3, <2>4, <2>5, <2>6, ConcatEmptySeq
  <2>9. Holds(0)
    BY <2>5, <2>7, <2>8
  <2> HIDE DEF Holds
  <2> QED BY <2>9
<1>4. ASSUME NEW k \in Nat, k \in S PROVE k + 1 \in S
  <2> SUFFICES ASSUME k + 1 <= m PROVE Holds(k + 1)
    OBVIOUS
  <2> DEFINE i == k + 1
             j == n + i
  <2>1. /\ i \in 1 .. m /\ i - 1 = k /\ j \in 1 .. Len(w) /\ j \in 1 .. Len(w) + 1
        /\ n + k = j - 1 /\ n + k + 1 = j /\ j # Len(w) + 1 /\ j \in Nat /\ n + k \in Nat /\ (n + k) + 1 = j
        /\ Len(w) \in Nat
    <3>1. /\ n \in Nat /\ m \in Nat /\ k \in Nat /\ k + 1 <= m /\ Len(w) = n + m
      BY <1>1
    <3> HIDE DEF w, n, m
    <3>2. i \in 1 .. m /\ i - 1 = k /\ j \in Nat /\ n + k \in Nat /\ Len(w) \in Nat
      BY <3>1
    <3>3. n + k = j - 1 /\ n + k + 1 = j /\ (n + k) + 1 = j
      BY <3>1
    <3>4. j \in 1 .. Len(w) /\ j \in 1 .. Len(w) + 1 /\ j # Len(w) + 1
      BY <3>1
    <3> QED BY <3>2, <3>3, <3>4
  <2>2. PICK r \in Seq(Bytes) :
               /\ At(f[k], r, LinesOf(w)[n + k], Cardinality(Faults(w, n + k)))
               /\ r \o RecordBefore(chunk, i) = RecordBefore(w, j)
    <3>1. Holds(k)
      <4> HIDE DEF Holds
      <4> QED BY <1>1, <1>4
    <3>2. n + k + 1 = j /\ k + 1 = i
      BY <2>1
    <3> HIDE DEF w, i, j
    <3> QED BY <3>1, <3>2
  <2> HIDE DEF w, i, j
  <2>3. w[j] = chunk[i]
    BY <1>1, <2>1 DEF j
  <2>4. RecordBefore(chunk, i) \in Seq(Bytes) /\ RecordBefore(w, j) \in Seq(Bytes)
    BY <1>1, <2>1, RecordStep
  <2>5. /\ RecordBefore(chunk, i + 1) =
             IF chunk[i] = "lf" THEN <<>> ELSE Append(RecordBefore(chunk, i), chunk[i])
        /\ RecordBefore(w, j + 1) = IF w[j] = "lf" THEN <<>> ELSE Append(RecordBefore(w, j), w[j])
    BY <1>1, <2>1, RecordStep
  <2>6. /\ Ends(w, j) <=> w[j] = "lf"
        /\ LinesOf(w)[j] = IF Ends(w, j) THEN With(LinesOf(w)[n + k], RecordBefore(w, j)) ELSE LinesOf(w)[n + k]
    <3>1. Ends(w, j) <=> w[j] = "lf"
      BY <2>1 DEF Ends
    <3>2. LinesOf(w)[j] = IF Ends(w, j) THEN With(LinesOf(w)[j - 1], RecordBefore(w, j)) ELSE LinesOf(w)[j - 1]
      BY <2>1, LinesStep
    <3> QED BY <2>1, <3>1, <3>2
  <2>7. /\ Cardinality(Faults(w, n + k)) \in Nat
        /\ Cardinality(Faults(w, j)) =
             IF w[j] = "lf" THEN Blamed(Cardinality(Faults(w, n + k)), RecordBefore(w, j))
             ELSE Cardinality(Faults(w, n + k))
    <3> DEFINE q == n + k
    <3>1. q \in Nat /\ q + 1 = j
      BY <2>1
    <3> HIDE DEF q
    <3>2. /\ Cardinality(Faults(w, q)) \in Nat
          /\ Cardinality(Faults(w, q + 1)) =
               IF w[q + 1] = "lf" THEN Blamed(Cardinality(Faults(w, q)), RecordBefore(w, q + 1))
               ELSE Cardinality(Faults(w, q))
      BY <1>1, <3>1, FaultsStep
    <3> QED BY <3>1, <3>2 DEF q
  <2>8. f[i] = IF chunk[i] = "lf" THEN FinishLine(AppendBytes(f[k], RecordBefore(chunk, i))) ELSE f[k]
    BY <1>2, <2>1
  <2>9. \E q \in Seq(Bytes) :
           /\ At(f[i], q, LinesOf(w)[j], Cardinality(Faults(w, j)))
           /\ q \o RecordBefore(chunk, i + 1) = RecordBefore(w, j + 1)
    <3>1. CASE chunk[i] = "lf"
      <4> DEFINE e == AppendBytes(f[k], RecordBefore(chunk, i))
      <4>1. At(e, RecordBefore(w, j), LinesOf(w)[n + k], Cardinality(Faults(w, n + k)))
        <5> DEFINE g == f[k]
                   x == RecordBefore(chunk, i)
                   l == LinesOf(w)[n + k]
                   p == Cardinality(Faults(w, n + k))
        <5>1. At(g, r, l, p) /\ x \in Seq(Bytes) /\ p \in Nat /\ r \o x = RecordBefore(w, j)
          BY <2>2, <2>4, <2>7
        <5> HIDE DEF g, x, l, p
        <5>2. At(AppendBytes(g, x), r \o x, l, p)
          BY <5>1, AppendAt
        <5> QED BY <5>1, <5>2 DEF g, x, l, p
      <4> HIDE DEF e
      <4>2. At(FinishLine(e), <<>>, With(LinesOf(w)[n + k], RecordBefore(w, j)),
               Blamed(Cardinality(Faults(w, n + k)), RecordBefore(w, j)))
        BY <2>4, <2>7, <4>1, FinishAt
      <4>3. f[i] = FinishLine(e)
        BY <2>8, <3>1 DEF e
      <4>4. /\ LinesOf(w)[j] = With(LinesOf(w)[n + k], RecordBefore(w, j))
            /\ Cardinality(Faults(w, j)) = Blamed(Cardinality(Faults(w, n + k)), RecordBefore(w, j))
        BY <2>3, <2>6, <2>7, <3>1
      <4>5. At(f[i], <<>>, LinesOf(w)[j], Cardinality(Faults(w, j)))
        BY <4>2, <4>3, <4>4
      <4>6. <<>> \in Seq(Bytes) /\ <<>> \o RecordBefore(chunk, i + 1) = RecordBefore(w, j + 1)
        <5>1. RecordBefore(chunk, i + 1) = <<>> /\ RecordBefore(w, j + 1) = <<>>
          BY <2>3, <2>5, <3>1
        <5>2. <<>> \in Seq(Bytes) /\ <<>> \o <<>> = <<>>
          OBVIOUS
        <5> QED BY <5>1, <5>2
      <4> QED BY <4>5, <4>6
    <3>2. CASE chunk[i] # "lf"
      <4>1. f[i] = f[k] /\ LinesOf(w)[j] = LinesOf(w)[n + k]
            /\ Cardinality(Faults(w, j)) = Cardinality(Faults(w, n + k))
        BY <2>3, <2>6, <2>7, <2>8, <3>2
      <4>2. At(f[i], r, LinesOf(w)[j], Cardinality(Faults(w, j)))
        BY <2>2, <4>1
      <4>3. r \o RecordBefore(chunk, i + 1) = RecordBefore(w, j + 1)
        <5> DEFINE a == RecordBefore(chunk, i)
                   c == chunk[i]
        <5>1. r \o a = RecordBefore(w, j)
          BY <2>2
        <5>2. RecordBefore(chunk, i + 1) = Append(a, c) /\ RecordBefore(w, j + 1) = Append(RecordBefore(w, j), c)
          BY <2>3, <2>5, <3>2
        <5>3. a \in Seq(Bytes) /\ c \in Bytes
          BY <2>1, <2>4
        <5> HIDE DEF a, c
        <5>4. r \o Append(a, c) = Append(r \o a, c)
          BY <5>3
        <5> QED BY <5>1, <5>2, <5>4
      <4> QED BY <4>2, <4>3
    <3> QED BY <3>1, <3>2
  <2>10. n + (k + 1) = j /\ n + (k + 1) + 1 = j + 1 /\ (k + 1) + 1 = i + 1 /\ k + 1 = i
    BY <2>1 DEF i, j
  <2> QED BY <2>9, <2>10
<1> HIDE DEF S
<1>5. m \in S
  BY <1>1, <1>3, <1>4, SetInduction
<1>6. PICK r \in Seq(Bytes) :
             /\ At(f[m], r, LinesOf(w)[n + m], Cardinality(Faults(w, n + m)))
             /\ r \o RecordBefore(chunk, m + 1) = RecordBefore(w, n + m + 1)
  <2>1. Holds(m)
    <3> HIDE DEF Holds
    <3> QED BY <1>1, <1>5 DEF S
  <2> QED BY <2>1
<1>7. m + 1 \in 1 .. m + 1 /\ n + m \in Nat
  BY <1>1
<1>8. RecordBefore(chunk, m + 1) \in Seq(Bytes) /\ Cardinality(Faults(w, n + m)) \in Nat
  BY <1>1, <1>7, RecordBytes, FaultsStep
<1>9. At(Push(d, chunk), RecordBefore(w, n + m + 1), LinesOf(w)[n + m], Cardinality(Faults(w, n + m)))
  <2> DEFINE e == f[m]
             x == RecordBefore(chunk, m + 1)
             l == LinesOf(w)[n + m]
             p == Cardinality(Faults(w, n + m))
             c == RecordBefore(w, n + m + 1)
  <2>1. At(e, r, l, p) /\ x \in Seq(Bytes) /\ p \in Nat /\ r \o x = c /\ Push(d, chunk) = AppendBytes(e, x)
    BY <1>2, <1>6, <1>8
  <2> HIDE DEF e, x, l, p, c
  <2>2. At(AppendBytes(e, x), r \o x, l, p)
    BY <2>1, AppendAt
  <2> QED BY <2>1, <2>2 DEF l, p, c
<1> QED BY <1>1, <1>9 DEF Received

\* What has been received is what the whole output says.
LEMMA ReceivedTells ==
  ASSUME NEW o \in Seq(Bytes), NEW d, Received(d, o)
  PROVE  End(d).lines = Lines(o) /\ End(d).problems = Problems(o)
<1> DEFINE n == Len(o)
           r == RecordBefore(o, n + 1)
           l == LinesOf(o)[n]
           p == Cardinality(Faults(o, n))
<1>1. n \in Nat /\ n + 1 \in 1 .. n + 1 /\ (n + 1) - 1 = n
  OBVIOUS
<1>2. r \in Seq(Bytes) /\ p \in Nat /\ IsFiniteSet(Faults(o, n))
  BY <1>1, RecordBytes, FaultsStep
<1>3. End(d).lines = With(l, r) /\ End(d).problems = Blamed(p, r)
  <2>1. At(d, r, l, p)
    BY DEF Received
  <2> HIDE DEF r, l, p
  <2> QED BY <1>2, <2>1, EndAt
<1>4. Lines(o) = With(l, r)
  BY <1>1, LinesStep DEF Ends
<1>5. Problems(o) = Blamed(p, r)
  <2> DEFINE F == Faults(o, n)
             G == {i \in 1 .. n + 1 : Ends(o, i) /\ ~Good(RecordBefore(o, i))}
  <2>1. Problems(o) = Cardinality(G)
    BY DEF Problems
  <2>2. \A i \in 1 .. n : Ends(o, i) <=> o[i] = "lf"
    BY <1>1 DEF Ends
  <2>3. Ends(o, n + 1)
    BY DEF Ends
  <2>4. G = IF Good(r) THEN F ELSE F \cup {n + 1}
    BY <1>1, <2>2, <2>3 DEF Faults
  <2>5. n + 1 \notin F
    BY <1>1 DEF Faults
  <2> HIDE DEF F, G, r
  <2>6. CASE Good(r)
    BY <2>1, <2>4, <2>6 DEF Blamed, F
  <2>7. CASE ~Good(r)
    <3>1. Cardinality(F \cup {n + 1}) = Cardinality(F) + 1
      BY <1>2, <2>5, FS_AddElement DEF F
    <3> QED BY <2>1, <2>4, <2>7, <3>1 DEF Blamed, F
  <2> QED BY <2>6, <2>7
<1> QED BY <1>3, <1>4, <1>5

\* The decoder has received the output.
ReceivedInv == output \in Seq(Bytes) /\ Received(decoder, output)

\* RpcJsonlDecoder: the lines and the problems of an output do not depend on how
\* it was cut into chunks; no malformed or too long record spoils its neighbours.
THEOREM LinesAnyCut == JsonlSpec => []LinesIndependentOfCuts
<1>1. JsonlInit => ReceivedInv
  <2> SUFFICES ASSUME JsonlInit PROVE ReceivedInv
    OBVIOUS
  <2>1. output = <<>> /\ decoder = New /\ <<>> \in Seq(Bytes) /\ Len(<<>>) = 0
    BY DEF JsonlInit
  <2>2. /\ New \in Decoders /\ ~New.ended /\ New.text = <<>> /\ ~New.half /\ New.bytes = 0 /\ ~New.dropping
        /\ New.lines = <<>> /\ New.problems = 0
    BY DEF New, Decoders
  <2>3. At(New, <<>>, <<>>, 0)
    BY <2>2, AtStart
  <2>4. RecordBefore(<<>>, 0 + 1) = <<>>
    <3>1. RecordBefore(<<>>, 1) = <<>>
      BY <2>1, RecordStep
    <3>2. 0 + 1 = 1
      OBVIOUS
    <3> QED BY <3>1, <3>2
  <2>5. LinesOf(<<>>)[0] = <<>>
    BY <2>1, LinesStep
  <2>6. Cardinality(Faults(<<>>, 0)) = 0
    <3>1. Faults(<<>>, 0) = {}
      BY DEF Faults
    <3> QED BY <3>1, FS_EmptySet
  <2>7. Received(New, <<>>)
    BY <2>1, <2>3, <2>4, <2>5, <2>6 DEF Received
  <2> QED BY <2>1, <2>7 DEF ReceivedInv
<1>2. ReceivedInv /\ [Receive]_jsonl => ReceivedInv'
  <2> SUFFICES ASSUME ReceivedInv, [Receive]_jsonl PROVE ReceivedInv'
    OBVIOUS
  <2>1. CASE Receive
    <3>1. PICK n \in 1 .. MaxOutput - Len(output) :
                 \E chunk \in [1 .. n -> Bytes] : output' = output \o chunk /\ decoder' = Push(decoder, chunk)
      BY <2>1 DEF Receive
    <3>2. PICK chunk \in [1 .. n -> Bytes] : output' = output \o chunk /\ decoder' = Push(decoder, chunk)
      BY <3>1
    <3>3. chunk \in Seq(Bytes)
      <4>1. Len(output) \in Nat /\ n \in Nat
        BY DEF ReceivedInv
      <4> QED BY <4>1
    <3>4. output \o chunk \in Seq(Bytes)
      BY <3>3, Joined DEF ReceivedInv
    <3>5. Received(Push(decoder, chunk), output \o chunk)
      BY <3>3, PushReceives DEF ReceivedInv
    <3> QED BY <3>2, <3>4, <3>5 DEF ReceivedInv
  <2>2. CASE UNCHANGED jsonl
    BY <2>2 DEF jsonl, ReceivedInv
  <2> QED BY <2>1, <2>2
<1>3. ReceivedInv => LinesIndependentOfCuts
  BY ReceivedTells DEF ReceivedInv, LinesIndependentOfCuts
<1> QED BY <1>1, <1>2, <1>3, PTL DEF JsonlSpec

-----------------------------------------------------------------------------
(* The client.                                                             *)

USE ClientAssumption
USE DEF queue, process, cleanup

-----------------------------------------------------------------------------
(* Sequences of distinct elements.                                         *)

Distinct(s) == \A i, j \in DOMAIN s : s[i] = s[j] => i = j

\* What enqueue does to the records that wait: one more, and still each once.
LEMMA AppendSet ==
  ASSUME NEW S, NEW s \in Seq(S), NEW e \in S
  PROVE  /\ Append(s, e) \in Seq(S)
         /\ ToSet(Append(s, e)) = ToSet(s) \cup {e}
         /\ Distinct(s) /\ e \notin ToSet(s) => Distinct(Append(s, e))
<1> DEFINE t == Append(s, e)
           n == Len(s)
<1>1. /\ t \in Seq(S) /\ n \in Nat /\ DOMAIN s = 1 .. n /\ DOMAIN t = 1 .. n + 1
      /\ \A i \in 1 .. n : t[i] = s[i]
      /\ t[n + 1] = e
  BY AppendProperties
<1> HIDE DEF t, n
<1>2. ToSet(t) = ToSet(s) \cup {e}
  <2>1. \A i \in 1 .. n + 1 : i \in 1 .. n \/ i = n + 1
    BY <1>1
  <2>2. ToSet(t) \subseteq ToSet(s) \cup {e}
    BY <1>1, <2>1 DEF ToSet
  <2>3. ToSet(s) \subseteq ToSet(t)
    BY <1>1 DEF ToSet
  <2>4. n + 1 \in DOMAIN t
    BY <1>1
  <2> QED BY <1>1, <2>2, <2>3, <2>4 DEF ToSet
<1>3. Distinct(s) /\ e \notin ToSet(s) => Distinct(t)
  <2>1. ASSUME Distinct(s), e \notin ToSet(s), NEW i \in DOMAIN t, NEW j \in DOMAIN t,
               t[i] = t[j]
        PROVE  i = j
    <3>1. \A k \in 1 .. n : s[k] # e
      BY <1>1, <2>1 DEF ToSet
    <3> QED BY <1>1, <2>1, <3>1 DEF Distinct
  <2> QED BY <2>1 DEF Distinct
<1> QED BY <1>1, <1>2, <1>3 DEF t

\* What pump does to them: the first is taken, the others stay, each once.
LEMMA TailSet ==
  ASSUME NEW S, NEW s \in Seq(S), s # <<>>
  PROVE  /\ Head(s) \in S /\ Head(s) \in ToSet(s)
         /\ Tail(s) \in Seq(S)
         /\ ToSet(Tail(s)) \cup {Head(s)} = ToSet(s)
         /\ Distinct(s) => Distinct(Tail(s)) /\ Head(s) \notin ToSet(Tail(s))
<1> DEFINE n == Len(s)
           t == Tail(s)
<1>1. /\ n \in Nat /\ n > 0 /\ DOMAIN s = 1 .. n /\ Head(s) = s[1]
      /\ t \in Seq(S) /\ DOMAIN t = 1 .. n - 1
      /\ \A i \in 1 .. n - 1 : t[i] = s[i + 1]
      /\ Head(s) \in S
  OBVIOUS
<1> HIDE DEF n, t
<1>2. /\ \A x : x \in ToSet(s) <=> \E k \in 1 .. n : x = s[k]
      /\ \A x : x \in ToSet(t) <=> \E k \in 1 .. n - 1 : x = t[k]
  BY <1>1 DEF ToSet
<1>3. ASSUME NEW x \in ToSet(t) \cup {Head(s)} PROVE x \in ToSet(s)
  <2>1. CASE x = Head(s)
    BY <1>1, <1>2, <2>1
  <2>2. ASSUME NEW k \in 1 .. n - 1, x = t[k] PROVE x \in ToSet(s)
    <3>1. k + 1 \in 1 .. n /\ x = s[k + 1]
      BY <1>1, <2>2
    <3> QED BY <1>2, <3>1
  <2> QED BY <1>2, <1>3, <2>1, <2>2
<1>4. ASSUME NEW x \in ToSet(s) PROVE x \in ToSet(t) \cup {Head(s)}
  <2>1. PICK k \in 1 .. n : x = s[k]
    BY <1>2
  <2>2. CASE k # 1
    <3>1. k - 1 \in 1 .. n - 1 /\ x = s[(k - 1) + 1]
      BY <1>1, <2>1, <2>2
    <3>2. x = t[k - 1]
      BY <1>1, <3>1
    <3> QED BY <1>2, <3>1, <3>2
  <2> QED BY <1>1, <2>1, <2>2
<1>5. ASSUME Distinct(s) PROVE Distinct(t) /\ Head(s) \notin ToSet(t)
  <2>1. \A i, j \in 1 .. n : s[i] = s[j] => i = j
    BY <1>1, <1>5 DEF Distinct
  <2>2. ASSUME NEW i \in 1 .. n - 1, NEW j \in 1 .. n - 1, t[i] = t[j] PROVE i = j
    <3>1. i + 1 \in 1 .. n /\ j + 1 \in 1 .. n /\ s[i + 1] = s[j + 1]
      BY <1>1, <2>2
    <3>2. i + 1 = j + 1
      BY <2>1, <3>1
    <3> QED BY <1>1, <3>2
  <2>3. ASSUME NEW k \in 1 .. n - 1 PROVE t[k] # Head(s)
    <3>1. k + 1 \in 1 .. n /\ k + 1 # 1 /\ 1 \in 1 .. n /\ t[k] = s[k + 1]
      BY <1>1
    <3> QED BY <1>1, <2>1, <3>1
  <2>4. Distinct(t)
    BY <1>1, <2>2 DEF Distinct
  <2> QED BY <1>2, <2>3, <2>4
<1> QED BY <1>1, <1>3, <1>4, <1>5 DEF t

\* What removeUnsent does to them: those behind that place move up by one.
LEMMA RemovePlaces ==
  ASSUME NEW S, NEW s \in Seq(S), NEW i \in DOMAIN s
  PROVE  /\ RemoveAt(s, i) \in Seq(S)
         /\ Len(s) \in Nat /\ i \in 1 .. Len(s)
         /\ Len(RemoveAt(s, i)) = Len(s) - 1
         /\ \A j \in 1 .. Len(s) - 1 :
              RemoveAt(s, i)[j] = IF j < i THEN s[j] ELSE s[j + 1]
<1> DEFINE n == Len(s)
           a == SubSeq(s, 1, i - 1)
           b == SubSeq(s, i + 1, n)
<1>1. n \in Nat /\ i \in 1 .. n /\ DOMAIN s = 1 .. n
  OBVIOUS
<1>2. /\ a \in Seq(S) /\ Len(a) = i - 1
      /\ \A j \in 1 .. i - 1 : a[j] = s[j]
  BY <1>1, SubSeqProperties
<1>3. /\ b \in Seq(S) /\ Len(b) = n - i
      /\ \A j \in 1 .. n - i : b[j] = s[i + j]
  BY <1>1, SubSeqProperties
<1> DEFINE r == RemoveAt(s, i)
<1>4. r = a \o b
  BY DEF RemoveAt
<1> HIDE DEF a, b, r
<1>5. /\ r \in Seq(S)
      /\ Len(r) = Len(a) + Len(b)
      /\ \A j \in 1 .. Len(a) + Len(b) : r[j] = IF j <= Len(a) THEN a[j] ELSE b[j - Len(a)]
  <2>1. a \in Seq(S) /\ b \in Seq(S)
    BY <1>2, <1>3
  <2> QED BY <2>1, <1>4, ConcatProperties
<1> HIDE DEF n
<1>6. Len(r) = n - 1
  BY <1>1, <1>2, <1>3, <1>5
<1>7. \A j \in 1 .. n - 1 : r[j] = IF j < i THEN s[j] ELSE s[j + 1]
  <2> SUFFICES ASSUME NEW j \in 1 .. n - 1
               PROVE  r[j] = IF j < i THEN s[j] ELSE s[j + 1]
    OBVIOUS
  <2>1. CASE j < i
    BY <2>1, <1>1, <1>2, <1>3, <1>5
  <2>2. CASE j >= i
    <3>1. r[j] = b[j - (i - 1)]
      BY <2>2, <1>1, <1>2, <1>3, <1>5
    <3>2. j - (i - 1) \in 1 .. n - i /\ i + (j - (i - 1)) = j + 1
      BY <2>2, <1>1
    <3>3. b[j - (i - 1)] = s[i + (j - (i - 1))]
      BY <3>2, <1>3
    <3> QED BY <2>2, <1>1, <3>1, <3>2, <3>3
  <2> QED BY <1>1, <2>1, <2>2
<1> QED BY <1>1, <1>5, <1>6, <1>7 DEF n, r

\* The one at that place is gone, the others stay, each once.
LEMMA RemoveSet ==
  ASSUME NEW S, NEW s \in Seq(S), NEW i \in DOMAIN s
  PROVE  /\ RemoveAt(s, i) \in Seq(S)
         /\ ToSet(RemoveAt(s, i)) \subseteq ToSet(s)
         /\ Distinct(s) => /\ Distinct(RemoveAt(s, i))
                           /\ ToSet(RemoveAt(s, i)) = ToSet(s) \ {s[i]}
<1> DEFINE n == Len(s)
           r == RemoveAt(s, i)
           from(j) == IF j < i THEN j ELSE j + 1
           to(j) == IF j < i THEN j ELSE j - 1
<1>1. /\ n \in Nat /\ i \in 1 .. n /\ r \in Seq(S) /\ Len(r) = n - 1
      /\ \A j \in 1 .. n - 1 : r[j] = s[from(j)]
  <2>1. \A j \in 1 .. n - 1 : r[j] = IF j < i THEN s[j] ELSE s[j + 1]
    BY RemovePlaces
  <2> QED BY <2>1, RemovePlaces
<1>2. DOMAIN s = 1 .. n /\ DOMAIN r = 1 .. n - 1
  BY <1>1
<1> HIDE DEF n, r
<1>3. \A j \in 1 .. n - 1 : from(j) \in 1 .. n /\ from(j) # i
  BY <1>1
<1>4. \A j, k \in 1 .. n - 1 : from(j) = from(k) => j = k
  BY <1>1
<1>5. \A k \in 1 .. n : k # i => to(k) \in 1 .. n - 1 /\ from(to(k)) = k
  BY <1>1
<1> HIDE DEF from, to
<1>6. ToSet(r) \subseteq ToSet(s)
  BY <1>1, <1>2, <1>3 DEF ToSet
<1>7. Distinct(s) => Distinct(r)
  BY <1>1, <1>2, <1>3, <1>4 DEF Distinct
<1>8. Distinct(s) => s[i] \notin ToSet(r)
  BY <1>1, <1>2, <1>3 DEF ToSet, Distinct
<1>9. ToSet(s) \ {s[i]} \subseteq ToSet(r)
  <2> SUFFICES ASSUME NEW k \in 1 .. n, s[k] # s[i] PROVE s[k] \in ToSet(r)
    BY <1>2 DEF ToSet
  <2>1. to(k) \in 1 .. n - 1 /\ from(to(k)) = k
    BY <1>5
  <2>2. r[to(k)] = s[k]
    BY <1>1, <2>1
  <2> QED BY <1>2, <2>1, <2>2 DEF ToSet
<1> QED BY <1>1, <1>6, <1>7, <1>8, <1>9 DEF r

-----------------------------------------------------------------------------
(* What the shared parts of the handlers do to the queue.                  *)

\* pump hands over at most the head of the queue, and leaves a running client
\* with queued records only while stdin is busy.
LEMMA PumpQueue ==
  ASSUME TypeOK, NEW q \in Seq(Ops), NEW active \in Ops \cup {None},
         NEW waiting \in BOOLEAN, Pump(q, active, waiting)
  PROVE  /\ writes' \in Seq(Ops) /\ wire' \in Seq(Ops)
         /\ activeWrite' \in Ops \cup {None} /\ waitingDrain' \in BOOLEAN
         /\ ToSet(writes') \subseteq ToSet(q)
         /\ ToSet(wire) \subseteq ToSet(wire')
         /\ ToSet(wire') \subseteq ToSet(wire) \cup ToSet(q)
         /\ activeWrite' = active \/ activeWrite' \in ToSet(wire')
         /\ ToSet(writes') \cup ({activeWrite'} \ {None}) = ToSet(q) \cup ({active} \ {None})
         /\ Distinct(q) => /\ Distinct(writes')
                           /\ \A o \in ToSet(writes') :
                                o \in ToSet(wire') => o \in ToSet(wire)
         /\ state = "running" /\ writes' # <<>> => activeWrite' # None \/ waitingDrain'
<1>1. CASE state = "running" /\ active = None /\ ~waiting /\ q # <<>>
  <2>1. /\ writes' = Tail(q) /\ activeWrite' = Head(q)
        /\ wire' = Append(wire, Head(q)) /\ waitingDrain' \in BOOLEAN
    BY <1>1 DEF Pump
  <2>2. /\ Head(q) \in Ops /\ Tail(q) \in Seq(Ops) /\ Head(q) \in ToSet(q)
        /\ ToSet(Tail(q)) \cup {Head(q)} = ToSet(q)
        /\ Distinct(q) => Distinct(Tail(q)) /\ Head(q) \notin ToSet(Tail(q))
    BY <1>1, TailSet
  <2>3. /\ wire' \in Seq(Ops)
        /\ ToSet(wire') = ToSet(wire) \cup {Head(q)}
    BY <2>1, <2>2, AppendSet DEF TypeOK
  <2>4. ToSet(writes') \cup ({activeWrite'} \ {None}) = ToSet(q) \cup ({active} \ {None})
    <3>1. Head(q) # None /\ active = None
      BY <1>1, <2>2
    <3>2. {activeWrite'} \ {None} = {Head(q)} /\ {active} \ {None} = {}
      BY <2>1, <3>1
    <3> QED BY <2>1, <2>2, <3>2
  <2>5. ToSet(writes') \subseteq ToSet(q) /\ activeWrite' \in ToSet(wire')
    BY <2>1, <2>2, <2>3
  <2>6. Distinct(q) => /\ Distinct(writes')
                       /\ \A o \in ToSet(writes') : o \in ToSet(wire') => o \in ToSet(wire)
    BY <2>1, <2>2, <2>3
  <2> QED BY <2>1, <2>2, <2>3, <2>4, <2>5, <2>6
<1>2. CASE ~(state = "running" /\ active = None /\ ~waiting /\ q # <<>>)
  <2>1. /\ writes' = q /\ activeWrite' = active /\ waitingDrain' = waiting
        /\ wire' = wire
    BY <1>2 DEF Pump
  <2> QED BY <1>2, <2>1 DEF TypeOK
<1> QED BY <1>1, <1>2

\* A record that is removed unsent waits no longer, and nothing is added.
LEMMA RemoveUnsentQueue ==
  ASSUME TypeOK, NEW o \in Ops, RemoveUnsent(o)
  PROVE  /\ writes' \in Seq(Ops) /\ queuedBytes' \in Int
         /\ ToSet(writes') \subseteq ToSet(writes)
         /\ Distinct(writes) => /\ Distinct(writes')
                                /\ ToSet(writes') = ToSet(writes) \ {o}
         /\ UNCHANGED <<activeWrite, waitingDrain, wire>>
         /\ writes = <<>> => writes' = <<>>
<1>1. writes \in Seq(Ops) /\ queuedBytes \in Int /\ Size[o] \in Int
  BY DEF TypeOK
<1>2. CASE \E i \in DOMAIN writes : /\ writes[i] = o
                                    /\ writes' = RemoveAt(writes, i)
                                    /\ queuedBytes' = queuedBytes - Size[o]
  <2>1. PICK i \in DOMAIN writes : /\ writes[i] = o
                                   /\ writes' = RemoveAt(writes, i)
                                   /\ queuedBytes' = queuedBytes - Size[o]
    BY <1>2
  <2>2. writes # <<>>
    BY <1>1, <2>1
  <2> QED BY <1>1, <2>1, <2>2, RemoveSet DEF RemoveUnsent
<1>3. CASE o \notin ToSet(writes) /\ UNCHANGED <<writes, queuedBytes>>
  BY <1>1, <1>3 DEF RemoveUnsent
<1> QED BY <1>2, <1>3 DEF RemoveUnsent

\* The empty sequence has no elements.
LEMMA EmptySet == ToSet(<<>>) = {} /\ Distinct(<<>>) /\ <<>> \in Seq(Ops)
BY DEF ToSet, Distinct

-----------------------------------------------------------------------------
(* Types.                                                                  *)

\* Delivery is a settled outcome.
LEMMA TypeStep == TypeOK /\ [Next]_vars => TypeOK'
<1> SUFFICES ASSUME TypeOK, [Next]_vars PROVE TypeOK'
  OBVIOUS
<1> USE DEF Settled
<1>1. CASE UNCHANGED vars
  BY <1>1 DEF TypeOK, vars
<1>2. CASE Start \/ Spawned
  BY <1>2 DEF TypeOK, Start, Spawned
<1>3. ASSUME NEW o \in Ops, Issue(o) PROVE TypeOK'
  <2>1. writes \in Seq(Ops) /\ issued \in Seq(Ops) /\ Size[o] \in Int
    BY DEF TypeOK
  <2>2. Append(writes, o) \in Seq(Ops) /\ Append(issued, o) \in Seq(Ops)
    BY <2>1, AppendSet
  <2>3. activeWrite \in Ops \cup {None} /\ waitingDrain \in BOOLEAN
    BY DEF TypeOK
  <2>4. Pump(Append(writes, o), activeWrite, waitingDrain)
    BY <1>3 DEF Issue
  <2>5. /\ writes' \in Seq(Ops) /\ wire' \in Seq(Ops)
        /\ activeWrite' \in Ops \cup {None} /\ waitingDrain' \in BOOLEAN
    BY <2>2, <2>3, <2>4, PumpQueue
  <2> QED BY <1>3, <2>1, <2>2, <2>5 DEF TypeOK, Issue, Settle
<1>4. CASE Flush
  <2>1. /\ writes \in Seq(Ops) /\ None \in Ops \cup {None} /\ waitingDrain \in BOOLEAN
        /\ activeWrite \in Ops /\ Size[activeWrite] \in Int
    BY <1>4 DEF TypeOK, Flush
  <2>2. Pump(writes, None, waitingDrain)
    BY <1>4 DEF Flush
  <2>3. /\ writes' \in Seq(Ops) /\ wire' \in Seq(Ops)
        /\ activeWrite' \in Ops \cup {None} /\ waitingDrain' \in BOOLEAN
    BY <2>1, <2>2, PumpQueue
  <2> QED
    <3>1. queuedBytes' \in Int
      BY <1>4, <2>1 DEF TypeOK, Flush
    <3>2. outcome' \in [Ops -> {"none", "open"} \cup Settled]
      BY <1>4, <2>1 DEF TypeOK, Flush, Settle
    <3> QED BY <1>4, <2>3, <3>1, <3>2 DEF TypeOK, Flush
<1>5. CASE Drain
  <2>1. writes \in Seq(Ops) /\ activeWrite \in Ops \cup {None} /\ FALSE \in BOOLEAN
    BY DEF TypeOK
  <2>2. Pump(writes, activeWrite, FALSE)
    BY <1>5 DEF Drain
  <2>3. /\ writes' \in Seq(Ops) /\ wire' \in Seq(Ops)
        /\ activeWrite' \in Ops \cup {None} /\ waitingDrain' \in BOOLEAN
    BY <2>1, <2>2, PumpQueue
  <2> QED BY <1>5, <2>3 DEF TypeOK, Drain
<1>6. ASSUME NEW o \in Ops, Timeout(o) PROVE TypeOK'
  <2>1. RemoveUnsent(o)
    BY <1>6 DEF Timeout
  <2> QED BY <1>6, <2>1, RemoveUnsentQueue DEF TypeOK, Timeout, Settle, Delivery
<1>7. ASSUME NEW r \in Requests, Response(r) PROVE TypeOK'
  BY <1>7 DEF TypeOK, Response, Settle, Ops
<1>8. ASSUME NEW r \in Requests, BadResponse(r) PROVE TypeOK'
  <2>1. r \in Ops /\ RemoveUnsent(r)
    BY <1>8 DEF BadResponse, Ops
  <2> QED BY <1>8, <2>1, RemoveUnsentQueue DEF TypeOK, BadResponse, Settle, Delivery
<1>9. ASSUME RejectOperations
      PROVE  /\ outcome' \in [Ops -> {"none", "open"} \cup Settled]
             /\ writes' \in Seq(Ops) /\ activeWrite' \in Ops \cup {None}
             /\ waitingDrain' \in BOOLEAN /\ queuedBytes' \in Int /\ wire' \in Seq(Ops)
  <2>1. outcome' \in [Ops -> {"none", "open"} \cup Settled]
    BY <1>9 DEF RejectOperations, TypeOK, Delivery
  <2>2. writes' \in Seq(Ops) /\ wire' \in Seq(Ops)
    BY <1>9, EmptySet DEF RejectOperations, TypeOK
  <2>3. queuedBytes' \in Int
    BY <1>9 DEF RejectOperations
  <2>4. activeWrite' \in Ops \cup {None} /\ waitingDrain' \in BOOLEAN
    BY <1>9 DEF RejectOperations
  <2> QED BY <2>1, <2>2, <2>3, <2>4
<1>10. CASE Fail
  BY <1>9, <1>10 DEF TypeOK, Fail, Failing, RejectStarting, CleanupOwnedTree
<1>11. ASSUME NEW done, NEW open, NEW q \in Seq(Ops), PumpFails(done, open, q)
       PROVE  /\ outcome' \in [Ops -> {"none", "open"} \cup Settled]
              /\ writes' \in Seq(Ops) /\ activeWrite' \in Ops \cup {None}
              /\ waitingDrain' \in BOOLEAN /\ queuedBytes' \in Int /\ wire' \in Seq(Ops)
              /\ state' = "stopping" /\ flight' \in BOOLEAN /\ ownedChild' \in BOOLEAN
              /\ UNCHANGED <<disposed, starting, process, disposal>>
  <2>1. q # <<>> /\ wire' \in {wire, Append(wire, Head(q))}
    BY <1>11 DEF PumpFails
  <2>2. Head(q) \in Ops /\ wire \in Seq(Ops)
    BY <2>1, TailSet DEF TypeOK
  <2>3. wire' \in Seq(Ops)
    <3>1. Append(wire, Head(q)) \in Seq(Ops)
      BY <2>2, AppendSet
    <3> QED BY <2>1, <2>2, <3>1
  <2>4. outcome' \in [Ops -> {"none", "open"} \cup Settled]
    BY <1>11 DEF PumpFails, Delivery, TypeOK
  <2>5. writes' \in Seq(Ops)
    BY <1>11, EmptySet DEF PumpFails
  <2>6. queuedBytes' \in Int
    BY <1>11 DEF PumpFails
  <2>7. activeWrite' \in Ops \cup {None} /\ waitingDrain' \in BOOLEAN
    BY <1>11 DEF PumpFails
  <2>8. /\ state' = "stopping" /\ flight' \in BOOLEAN /\ ownedChild' \in BOOLEAN
        /\ UNCHANGED <<disposed, starting, process, disposal>>
    BY <1>11 DEF PumpFails, TypeOK, CleanupOwnedTree
  <2> QED BY <2>3, <2>4, <2>5, <2>6, <2>7, <2>8
<1>12. ASSUME NEW o \in Ops, IssueFails(o) PROVE TypeOK'
  <2>1. Append(writes, o) \in Seq(Ops) /\ Append(issued, o) \in Seq(Ops)
    BY AppendSet DEF TypeOK
  <2>2. PumpFails({}, Open \cup {o}, Append(writes, o)) /\ issued' = Append(issued, o)
    BY <1>12 DEF IssueFails
  <2> QED BY <2>1, <2>2, <1>11 DEF TypeOK
<1>13. CASE FlushFails \/ DrainFails
  <2>1. writes \in Seq(Ops)
    BY DEF TypeOK
  <2>2. UNCHANGED issued /\ \E done, open : PumpFails(done, open, writes)
    BY <1>13 DEF FlushFails, DrainFails
  <2> QED BY <2>1, <2>2, <1>11 DEF TypeOK
<1>14. CASE Exit
  BY <1>14 DEF TypeOK, Exit, RejectStarting, CleanupOwnedTree
<1>15. CASE Close \/ DrainWindowEnds
  BY <1>9, <1>15 DEF TypeOK, Close, DrainWindowEnds, FinishClose, RejectStarting
<1>16. CASE Dispose
  BY <1>9, <1>16 DEF TypeOK, Dispose, RejectStarting, CleanupOwnedTree
<1>17. CASE CleanupDone \/ CleanupFails \/ Disposed
  <2>1. CASE CleanupDone
    BY <2>1 DEF TypeOK, CleanupDone
  <2>2. CASE CleanupFails
    BY <2>2 DEF TypeOK, CleanupFails
  <2>3. CASE Disposed
    BY <2>3 DEF TypeOK, Disposed
  <2> QED BY <1>17, <2>1, <2>2, <2>3
<1>18. CASE ToolStarts \/ \E p \in {"root", "tool"} : ProcessEnds(p)
  <2>1. CASE ToolStarts
    BY <2>1 DEF TypeOK, ToolStarts
  <2>2. ASSUME NEW p \in {"root", "tool"}, ProcessEnds(p) PROVE TypeOK'
    BY <2>2 DEF TypeOK, ProcessEnds
  <2> QED BY <1>18, <2>1, <2>2
<1> QED BY <1>1, <1>2, <1>3, <1>4, <1>5, <1>6, <1>7, <1>8, <1>10, <1>12, <1>13, <1>14,
           <1>15, <1>16, <1>17, <1>18 DEF Next

\* The variables of the client keep their types.
THEOREM ClientTypeCorrect == Spec => []TypeOK
<1>1. Init => TypeOK
  <2>1. Init => outcome \in [Ops -> {"none", "open"} \cup Settled]
    BY DEF Init
  <2>2. Init => issued \in Seq(Ops) /\ writes \in Seq(Ops) /\ wire \in Seq(Ops)
    BY EmptySet DEF Init
  <2>3. Init => queuedBytes \in Int
    BY DEF Init
  <2>4. Init => activeWrite \in Ops \cup {None} /\ waitingDrain \in BOOLEAN
    BY DEF Init
  <2>5. Init => /\ disposed \in BOOLEAN /\ ownedChild \in BOOLEAN /\ flight \in BOOLEAN
                /\ state = "new" /\ starting = "none" /\ disposal = "none"
                /\ child = "none" /\ tree = {}
    BY DEF Init
  <2> QED BY <2>1, <2>2, <2>3, <2>4, <2>5 DEF TypeOK
<1> QED BY <1>1, TypeStep, PTL DEF Spec

-----------------------------------------------------------------------------
(* The queue and the outcomes.                                             *)

QueueInv ==
  /\ Distinct(writes)
  /\ QueuedIsOpen
  /\ \A o \in ToSet(writes) : ~Started(o)
  /\ activeWrite # None => Started(activeWrite)
  /\ \A o \in Ops : outcome[o] = "none" => ~Started(o)
  /\ NotSentIsTrue

\* A pump from a queue of open, unstarted records.
LEMMA QueuePump ==
  ASSUME TypeOK, QueueInv, NEW q \in Seq(Ops), NEW active \in Ops \cup {None},
         NEW waiting \in BOOLEAN, Pump(q, active, waiting),
         Distinct(q), active # None => Started(active),
         \A o \in ToSet(q) : o \in Ops /\ ~Started(o) /\ outcome'[o] = "open",
         \A o \in Ops : outcome'[o] = outcome[o] \/ outcome'[o] \in {"open", "ok"}
  PROVE  QueueInv'
<1>1. /\ ToSet(writes') \subseteq ToSet(q) /\ ToSet(wire) \subseteq ToSet(wire')
      /\ ToSet(wire') \subseteq ToSet(wire) \cup ToSet(q)
      /\ activeWrite' = active \/ activeWrite' \in ToSet(wire')
      /\ Distinct(writes')
      /\ \A o \in ToSet(writes') : o \in ToSet(wire') => o \in ToSet(wire)
  BY PumpQueue
<1> QED BY <1>1 DEF QueueInv, QueuedIsOpen, NotSentIsTrue, Started, Open, Distinct

\* A step that empties the queue and settles what was open as the wire says.
LEMMA QueueEmptied ==
  ASSUME TypeOK, QueueInv, writes' = <<>>, activeWrite' = None,
         \A o \in Ops : o \in ToSet(wire') => o \in ToSet(wire) \/ outcome[o] = "open"
                                                 \/ outcome'[o] # outcome[o],
         \A o \in Ops : /\ outcome'[o] = "none" => outcome[o] = "none"
                        /\ outcome'[o] = "not-sent" =>
                             outcome[o] = "not-sent" \/ o \notin ToSet(wire')
  PROVE  QueueInv'
<1>1. ToSet(writes') = {} /\ Distinct(writes')
  BY EmptySet
<1> QED BY <1>1 DEF QueueInv, QueuedIsOpen, NotSentIsTrue, Started, Open, Distinct

\* rejectOperations empties the queue and tells each operation what was sent.
LEMMA QueueRejected == ASSUME TypeOK, QueueInv, RejectOperations PROVE QueueInv'
<1>1. /\ writes' = <<>> /\ activeWrite' = None /\ wire' = wire
      /\ \A o \in Ops : outcome'[o] = IF o \in Open THEN Delivery(o) ELSE outcome[o]
  BY DEF RejectOperations
<1> QED BY <1>1, QueueEmptied DEF Delivery, Started, Open

\* A write that pump makes on a broken pipe ends the operations it had taken.
LEMMA QueuePumpFails ==
  ASSUME TypeOK, QueueInv, NEW done, NEW open, NEW q \in Seq(Ops),
         PumpFails(done, open, q), ToSet(q) \subseteq open
  PROVE  QueueInv'
<1>1. /\ writes' = <<>> /\ activeWrite' = None /\ q # <<>>
      /\ wire' \in {wire, Append(wire, Head(q))}
      /\ \A o \in Ops : outcome'[o] = CASE o \in done -> "ok"
                                         [] o \in open \ done -> Delivery(o)'
                                         [] OTHER -> outcome[o]
  BY DEF PumpFails
<1>2. Head(q) \in Ops /\ Head(q) \in open /\ wire \in Seq(Ops)
  BY <1>1, TailSet DEF TypeOK
<1>3. ToSet(wire') \subseteq ToSet(wire) \cup {Head(q)}
  <2>1. ToSet(Append(wire, Head(q))) = ToSet(wire) \cup {Head(q)}
    BY <1>2, AppendSet
  <2> QED BY <1>1, <2>1
<1>4. \A o \in Ops : o \in open => outcome'[o] \in {"ok", "unknown", "not-sent"}
  BY <1>1 DEF Delivery
<1>5. \A o \in Ops : outcome'[o] = "none" => outcome[o] = "none" /\ o \notin open
  BY <1>1, <1>4 DEF Delivery
<1>6. \A o \in Ops : outcome'[o] = "not-sent" =>
                       o \notin ToSet(wire') \/ (outcome[o] = "not-sent" /\ o \notin open)
  BY <1>1 DEF Delivery, Started
<1>7. ToSet(writes') = {} /\ Distinct(writes')
  BY <1>1, EmptySet
<1>8. QueuedIsOpen' /\ \A o \in ToSet(writes') : ~Started(o)'
  BY <1>7 DEF QueuedIsOpen
<1>9. \A o \in Ops : outcome'[o] = "none" => o \notin ToSet(wire')
  BY <1>2, <1>3, <1>5 DEF QueueInv, Started
<1>10. \A o \in Ops : outcome'[o] = "not-sent" => o \notin ToSet(wire')
  BY <1>2, <1>3, <1>6 DEF QueueInv, NotSentIsTrue, Started
<1> QED BY <1>1, <1>7, <1>8, <1>9, <1>10 DEF QueueInv, NotSentIsTrue, Started, Distinct

\* A timeout or a bad response.
LEMMA QueueRemoved ==
  ASSUME TypeOK, QueueInv, NEW o \in Ops, RemoveUnsent(o), Settle(o, Delivery(o))
  PROVE  QueueInv'
<1>1. /\ ToSet(writes') \subseteq ToSet(writes) /\ Distinct(writes')
      /\ o \notin ToSet(writes')
      /\ activeWrite' = activeWrite /\ wire' = wire
  BY RemoveUnsentQueue DEF QueueInv
<1>2. /\ \A p \in Ops : p # o => outcome'[p] = outcome[p]
      /\ outcome'[o] = Delivery(o)
  BY DEF Settle, TypeOK
<1>3. ToSet(writes) \subseteq Ops
  BY DEF TypeOK, ToSet
<1>4. \A p \in ToSet(writes') : outcome'[p] = "open" /\ p \in Ops
  BY <1>1, <1>2, <1>3 DEF QueueInv, QueuedIsOpen, Open
<1>5. \A p \in Ops : outcome'[p] \in {"none", "not-sent"} => p \notin ToSet(wire)
  BY <1>2 DEF QueueInv, NotSentIsTrue, Started, Delivery
<1> QED BY <1>1, <1>4, <1>5
        DEF QueueInv, QueuedIsOpen, NotSentIsTrue, Started, Open, Distinct

\* Every step keeps a record that waits open and unsent, and what the callers
\* were told about it true.
LEMMA QueueStep == TypeOK /\ QueueInv /\ [Next]_vars => QueueInv'
<1> SUFFICES ASSUME TypeOK, QueueInv, [Next]_vars PROVE QueueInv'
  OBVIOUS
<1> DEFINE Same == UNCHANGED <<writes, activeWrite, wire>>
<1>0. ToSet(writes) \subseteq Ops /\ writes \in Seq(Ops)
  BY DEF TypeOK, ToSet
<1>1. ASSUME Same, UNCHANGED outcome PROVE QueueInv'
  BY <1>1 DEF QueueInv, QueuedIsOpen, NotSentIsTrue, Started, Open, Distinct
<1>2. ASSUME NEW o \in Ops, Issue(o) PROVE QueueInv'
  <2> DEFINE q == Append(writes, o)
  <2>1. /\ Pump(q, activeWrite, waitingDrain) /\ outcome[o] = "none"
        /\ outcome' = [outcome EXCEPT ![o] = "open"]
    BY <1>2 DEF Issue, Accepts, Settle
  <2>2. o \notin ToSet(writes) /\ ~Started(o)
    BY <2>1 DEF QueueInv, QueuedIsOpen, Open
  <2>3. q \in Seq(Ops) /\ ToSet(q) = ToSet(writes) \cup {o} /\ Distinct(q)
    BY <1>0, <2>2, AppendSet DEF QueueInv
  <2>4. \A p \in ToSet(q) : p \in Ops /\ ~Started(p) /\ outcome'[p] = "open"
    BY <1>0, <2>1, <2>2, <2>3 DEF QueueInv, QueuedIsOpen, Open, TypeOK
  <2>5. \A p \in Ops : outcome'[p] = outcome[p] \/ outcome'[p] \in {"open", "ok"}
    BY <2>1 DEF TypeOK
  <2>6. /\ activeWrite \in Ops \cup {None} /\ waitingDrain \in BOOLEAN
        /\ activeWrite # None => Started(activeWrite)
    BY DEF TypeOK, QueueInv
  <2> HIDE DEF q
  <2> QED BY <2>1, <2>3, <2>4, <2>5, <2>6, QueuePump
<1>3. CASE Flush
  <2>1. /\ Pump(writes, None, waitingDrain) /\ activeWrite \in Ops
        /\ outcome' = outcome \/ outcome' = [outcome EXCEPT ![activeWrite] = "ok"]
        /\ Started(activeWrite)
    BY <1>3 DEF Flush, Settle, TypeOK, QueueInv
  <2>2. \A p \in ToSet(writes) : p \in Ops /\ ~Started(p) /\ p # activeWrite
    BY <1>0, <2>1 DEF QueueInv
  <2>3. \A p \in ToSet(writes) : outcome'[p] = "open"
    BY <2>1, <2>2 DEF QueueInv, QueuedIsOpen, Open, TypeOK
  <2>4. \A p \in Ops : outcome'[p] = outcome[p] \/ outcome'[p] \in {"open", "ok"}
    BY <2>1 DEF TypeOK
  <2>5. None \in Ops \cup {None} /\ waitingDrain \in BOOLEAN /\ Distinct(writes)
    BY DEF TypeOK, QueueInv
  <2> QED BY <1>0, <2>1, <2>2, <2>3, <2>4, <2>5, QueuePump
<1>4. CASE Drain
  <2>1. Pump(writes, activeWrite, FALSE) /\ outcome' = outcome
    BY <1>4 DEF Drain
  <2>2. \A p \in ToSet(writes) : p \in Ops /\ ~Started(p) /\ outcome'[p] = "open"
    BY <1>0, <2>1 DEF QueueInv, QueuedIsOpen, Open
  <2>3. /\ activeWrite \in Ops \cup {None} /\ FALSE \in BOOLEAN /\ Distinct(writes)
        /\ activeWrite # None => Started(activeWrite)
    BY DEF TypeOK, QueueInv
  <2> QED BY <1>0, <2>1, <2>2, <2>3, QueuePump
<1>5. ASSUME NEW o \in Ops, Timeout(o) PROVE QueueInv'
  BY <1>5, QueueRemoved DEF Timeout
<1>6. ASSUME NEW r \in Requests, BadResponse(r) PROVE QueueInv'
  BY <1>6, QueueRemoved DEF BadResponse, Ops
<1>7. ASSUME NEW r \in Requests, Response(r) PROVE QueueInv'
  <2>1. /\ Same /\ Started(r) /\ r \in Ops
        /\ outcome' = [outcome EXCEPT ![r] = "ok"]
    BY <1>7 DEF Response, Settle, Ops
  <2>2. \A p \in Ops : outcome'[p] = outcome[p] \/ (p = r /\ outcome'[p] = "ok")
    BY <2>1 DEF TypeOK
  <2>3. r \notin ToSet(writes)
    BY <2>1 DEF QueueInv
  <2> QED BY <1>0, <2>1, <2>2, <2>3
          DEF QueueInv, QueuedIsOpen, NotSentIsTrue, Started, Open, Distinct
<1>8. CASE Fail \/ Close \/ DrainWindowEnds \/ Dispose
  BY <1>8, QueueRejected DEF Fail, Failing, Close, DrainWindowEnds, FinishClose, Dispose
<1>9. ASSUME NEW o \in Ops, IssueFails(o) PROVE QueueInv'
  <2>1. PumpFails({}, Open \cup {o}, Append(writes, o))
    BY <1>9 DEF IssueFails
  <2>2. /\ Append(writes, o) \in Seq(Ops)
        /\ ToSet(Append(writes, o)) = ToSet(writes) \cup {o}
    BY <1>0, AppendSet
  <2>3. ToSet(writes) \subseteq Open
    BY DEF QueueInv, QueuedIsOpen
  <2>4. ToSet(Append(writes, o)) \subseteq Open \cup {o}
    BY <2>2, <2>3
  <2> QED BY <2>1, <2>2, <2>4, QueuePumpFails
<1>10. CASE FlushFails \/ DrainFails
  <2>1. \E done : PumpFails(done, Open, writes)
    BY <1>10 DEF FlushFails, DrainFails
  <2>2. ToSet(writes) \subseteq Open
    BY DEF QueueInv, QueuedIsOpen
  <2> QED BY <1>0, <2>1, <2>2, QueuePumpFails
<1>11. CASE Start \/ Spawned \/ Exit \/ CleanupDone \/ CleanupFails \/ Disposed
            \/ ToolStarts \/ (\E p \in {"root", "tool"} : ProcessEnds(p))
  BY <1>1, <1>11 DEF Start, Spawned, Exit, CleanupDone, CleanupFails, Disposed,
                     ToolStarts, ProcessEnds
<1>12. CASE UNCHANGED vars
  BY <1>1, <1>12 DEF vars
<1> QED BY <1>2, <1>3, <1>4, <1>5, <1>6, <1>7, <1>8, <1>9, <1>10, <1>11, <1>12 DEF Next

\* The queue holds, each once, the open records that stdin has not been given.
LEMMA QueueInvariant == Spec => [](TypeOK /\ QueueInv)
<1>1. Init => QueueInv
  BY EmptySet DEF Init, QueueInv, QueuedIsOpen, NotSentIsTrue, Started, Distinct
<1> QED BY <1>1, ClientTypeCorrect, QueueStep, PTL DEF Spec

\* A record reported as not sent was never handed to Pi and never will be.
THEOREM NotSentHonest == Spec => []NotSentIsTrue
<1>1. QueueInv => NotSentIsTrue
  BY DEF QueueInv
<1> QED BY <1>1, QueueInvariant, PTL

\* What is still queued has a caller that still waits.
THEOREM QueuedWaited == Spec => []QueuedIsOpen
<1>1. QueueInv => QueuedIsOpen
  BY DEF QueueInv
<1> QED BY <1>1, QueueInvariant, PTL

-----------------------------------------------------------------------------
(* The order of the records.                                               *)

\* Among the calls, that of a came before that of b.
Before(calls, a, b) == \E m, n \in DOMAIN calls : m < n /\ calls[m] = a /\ calls[n] = b

Ascending(calls, s) == \A i, j \in DOMAIN s : i < j => Before(calls, s[i], s[j])

\* What was handed over is in the order of the calls, and so is what waits,
\* all of it behind what was handed over.
InLine(calls, handed, waiting) ==
  /\ Ascending(calls, handed) /\ Ascending(calls, waiting)
  /\ \A a \in ToSet(handed), b \in ToSet(waiting) : Before(calls, a, b)
  /\ ToSet(handed) \cup ToSet(waiting) \subseteq ToSet(calls)

\* A call keeps the order of those before it, and comes after each.
LEMMA CallsGrow ==
  ASSUME NEW calls \in Seq(Ops), NEW o \in Ops
  PROVE  /\ ToSet(Append(calls, o)) = ToSet(calls) \cup {o}
         /\ \A a, b : Before(calls, a, b) => Before(Append(calls, o), a, b)
         /\ \A a \in ToSet(calls) : Before(Append(calls, o), a, o)
<1> DEFINE n == Len(calls)
           more == Append(calls, o)
<1>1. /\ n \in Nat /\ DOMAIN calls = 1 .. n /\ DOMAIN more = 1 .. n + 1
      /\ \A i \in 1 .. n : more[i] = calls[i]
      /\ more[n + 1] = o
  BY AppendProperties
<1>2. ToSet(more) = ToSet(calls) \cup {o}
  BY AppendSet
<1> HIDE DEF n, more
<1>3. ASSUME NEW a, NEW b, Before(calls, a, b) PROVE Before(more, a, b)
  <2>1. PICK i, j \in 1 .. n : i < j /\ calls[i] = a /\ calls[j] = b
    BY <1>1, <1>3 DEF Before
  <2>2. i \in 1 .. n + 1 /\ j \in 1 .. n + 1 /\ more[i] = a /\ more[j] = b
    BY <1>1, <2>1
  <2> QED BY <1>1, <2>1, <2>2 DEF Before
<1>4. ASSUME NEW a \in ToSet(calls) PROVE Before(more, a, o)
  <2>1. PICK i \in 1 .. n : calls[i] = a
    BY <1>1 DEF ToSet
  <2>2. i \in 1 .. n + 1 /\ n + 1 \in 1 .. n + 1 /\ i < n + 1 /\ more[i] = a
    BY <1>1, <2>1
  <2> QED BY <1>1, <2>2 DEF Before
<1> QED BY <1>2, <1>3, <1>4 DEF more

\* A record that comes after all others may be put behind them.
LEMMA AppendAscends ==
  ASSUME NEW calls, NEW s \in Seq(Ops), NEW e \in Ops, Ascending(calls, s),
         \A a \in ToSet(s) : Before(calls, a, e)
  PROVE  Ascending(calls, Append(s, e))
<1> DEFINE t == Append(s, e)
           n == Len(s)
<1>1. /\ n \in Nat /\ DOMAIN s = 1 .. n /\ DOMAIN t = 1 .. n + 1
      /\ \A i \in 1 .. n : t[i] = s[i]
      /\ t[n + 1] = e
  BY AppendProperties
<1> HIDE DEF t, n
<1>2. ASSUME NEW i \in 1 .. n + 1, NEW j \in 1 .. n + 1, i < j
      PROVE  Before(calls, t[i], t[j])
  <2>1. i \in 1 .. n /\ t[i] = s[i]
    BY <1>1, <1>2
  <2>2. CASE j = n + 1
    <3>1. s[i] \in ToSet(s)
      BY <1>1, <2>1 DEF ToSet
    <3> QED BY <1>1, <2>1, <2>2, <3>1
  <2>3. CASE j # n + 1
    <3>1. j \in 1 .. n /\ t[j] = s[j]
      BY <1>1, <2>3
    <3> QED BY <1>1, <1>2, <2>1, <3>1 DEF Ascending
  <2> QED BY <2>2, <2>3
<1>3. Ascending(calls, t)
  BY <1>1, <1>2 DEF Ascending
<1> QED BY <1>3 DEF t

\* The first record is before those that are left.
LEMMA TailAscends ==
  ASSUME NEW calls, NEW s \in Seq(Ops), s # <<>>, Ascending(calls, s)
  PROVE  /\ Ascending(calls, Tail(s))
         /\ \A b \in ToSet(Tail(s)) : Before(calls, Head(s), b)
<1> DEFINE n == Len(s)
           t == Tail(s)
<1>1. /\ n \in Nat /\ n > 0 /\ DOMAIN s = 1 .. n /\ Head(s) = s[1]
      /\ DOMAIN t = 1 .. n - 1
      /\ \A i \in 1 .. n - 1 : t[i] = s[i + 1]
  OBVIOUS
<1> HIDE DEF n, t
<1>2. ASSUME NEW i \in 1 .. n - 1, NEW j \in 1 .. n - 1, i < j
      PROVE  Before(calls, t[i], t[j])
  <2>1. /\ i + 1 \in 1 .. n /\ j + 1 \in 1 .. n /\ i + 1 < j + 1
        /\ t[i] = s[i + 1] /\ t[j] = s[j + 1]
    BY <1>1, <1>2
  <2> QED BY <1>1, <2>1 DEF Ascending
<1>3. ASSUME NEW k \in 1 .. n - 1 PROVE Before(calls, Head(s), t[k])
  <2>1. k + 1 \in 1 .. n /\ 1 \in 1 .. n /\ 1 < k + 1 /\ t[k] = s[k + 1]
    BY <1>1
  <2>2. \A i, j \in 1 .. n : i < j => Before(calls, s[i], s[j])
    BY <1>1 DEF Ascending
  <2>3. Before(calls, s[1], s[k + 1])
    BY <2>1, <2>2
  <2> QED BY <1>1, <2>1, <2>3
<1>4. Ascending(calls, t)
  BY <1>1, <1>2 DEF Ascending
<1>5. \A b \in ToSet(t) : Before(calls, Head(s), b)
  BY <1>1, <1>3 DEF ToSet
<1> QED BY <1>4, <1>5 DEF t

\* A removal keeps the order of the others.
LEMMA RemoveAscends ==
  ASSUME NEW calls, NEW s \in Seq(Ops), NEW i \in DOMAIN s, Ascending(calls, s)
  PROVE  Ascending(calls, RemoveAt(s, i))
<1> DEFINE n == Len(s)
           r == RemoveAt(s, i)
           from(j) == IF j < i THEN j ELSE j + 1
<1>1. /\ n \in Nat /\ i \in 1 .. n /\ r \in Seq(Ops) /\ Len(r) = n - 1
      /\ \A j \in 1 .. n - 1 : r[j] = s[from(j)]
  <2>1. \A j \in 1 .. n - 1 : r[j] = IF j < i THEN s[j] ELSE s[j + 1]
    BY RemovePlaces
  <2> QED BY <2>1, RemovePlaces
<1>2. DOMAIN s = 1 .. n /\ DOMAIN r = 1 .. n - 1
  BY <1>1
<1> HIDE DEF n, r
<1>3. ASSUME NEW j \in 1 .. n - 1, NEW k \in 1 .. n - 1, j < k
      PROVE  Before(calls, r[j], r[k])
  <2>1. from(j) \in 1 .. n /\ from(k) \in 1 .. n /\ from(j) < from(k)
    BY <1>1, <1>3
  <2> HIDE DEF from
  <2>2. Before(calls, s[from(j)], s[from(k)])
    BY <1>2, <2>1 DEF Ascending
  <2> QED BY <1>1, <2>2
<1>4. Ascending(calls, r)
  BY <1>2, <1>3 DEF Ascending
<1> QED BY <1>4 DEF r

\* A call puts its record at the end of the line.
LEMMA LineUp ==
  ASSUME NEW calls \in Seq(Ops), NEW handed \in Seq(Ops), NEW waiting \in Seq(Ops),
         NEW o \in Ops, InLine(calls, handed, waiting)
  PROVE  InLine(Append(calls, o), handed, Append(waiting, o))
<1> DEFINE more == Append(calls, o)
<1>1. /\ ToSet(more) = ToSet(calls) \cup {o}
      /\ \A a, b : Before(calls, a, b) => Before(more, a, b)
      /\ \A a \in ToSet(calls) : Before(more, a, o)
  BY CallsGrow
<1> HIDE DEF more
<1>2. Ascending(more, handed) /\ Ascending(more, waiting)
  BY <1>1 DEF InLine, Ascending
<1>3. Ascending(more, Append(waiting, o))
  BY <1>1, <1>2, AppendAscends DEF InLine
<1>4. ToSet(Append(waiting, o)) = ToSet(waiting) \cup {o}
  BY AppendSet
<1>5. InLine(more, handed, Append(waiting, o))
  BY <1>1, <1>2, <1>3, <1>4 DEF InLine
<1> QED BY <1>5 DEF more

\* The first of the line may be handed over.
LEMMA LineMoves ==
  ASSUME NEW calls \in Seq(Ops), NEW handed \in Seq(Ops), NEW waiting \in Seq(Ops),
         waiting # <<>>, InLine(calls, handed, waiting)
  PROVE  InLine(calls, Append(handed, Head(waiting)), Tail(waiting))
<1>1. /\ Head(waiting) \in Ops /\ Head(waiting) \in ToSet(waiting)
      /\ ToSet(Tail(waiting)) \cup {Head(waiting)} = ToSet(waiting)
  BY TailSet
<1>2. ToSet(Append(handed, Head(waiting))) = ToSet(handed) \cup {Head(waiting)}
  BY <1>1, AppendSet
<1>3. /\ Ascending(calls, Tail(waiting))
      /\ \A b \in ToSet(Tail(waiting)) : Before(calls, Head(waiting), b)
  BY TailAscends DEF InLine
<1>4. Ascending(calls, Append(handed, Head(waiting)))
  BY <1>1, AppendAscends DEF InLine
<1> QED BY <1>1, <1>2, <1>3, <1>4 DEF InLine

\* A record may leave the line.
LEMMA LineLeft ==
  ASSUME NEW calls, NEW handed, NEW waiting \in Seq(Ops), NEW i \in DOMAIN waiting,
         InLine(calls, handed, waiting)
  PROVE  InLine(calls, handed, RemoveAt(waiting, i))
BY RemoveAscends, RemoveSet DEF InLine

\* All may.
LEMMA LineDropped ==
  ASSUME NEW calls, NEW handed, NEW waiting, InLine(calls, handed, waiting)
  PROVE  InLine(calls, handed, <<>>)
BY EmptySet DEF InLine, Ascending

-----------------------------------------------------------------------------
(* The bytes of the queue.                                                 *)

Queued == ToSet(writes) \cup ({activeWrite} \ {None})

\* A record adds its size to the bytes of the others.
LEMMA BytesGrow ==
  ASSUME NEW S \in SUBSET Ops, NEW o \in Ops, o \notin S, IsFiniteSet(BytesOf(S))
  PROVE  /\ IsFiniteSet(BytesOf(S \cup {o}))
         /\ Cardinality(BytesOf(S)) \in Nat
         /\ Cardinality(BytesOf(S \cup {o})) = Cardinality(BytesOf(S)) + Size[o]
<1> DEFINE own == {o} \X (1 .. Size[o])
<1>1. Size[o] \in Nat
  OBVIOUS
<1>2. IsFiniteSet(own) /\ Cardinality(own) = Size[o]
  <2>1. IsFiniteSet(1 .. Size[o]) /\ Cardinality(1 .. Size[o]) = Size[o]
    BY <1>1, FS_Interval
  <2>2. IsFiniteSet({o}) /\ Cardinality({o}) = 1
    BY FS_Singleton
  <2>3. IsFiniteSet(own) /\ Cardinality(own) = 1 * Size[o]
    BY <2>1, <2>2, FS_Product
  <2> QED BY <1>1, <2>3
<1>3. BytesOf(S \cup {o}) = BytesOf(S) \cup own
  BY DEF BytesOf
<1>4. BytesOf(S) \cap own = {}
  BY DEF BytesOf
<1> HIDE DEF own
<1>5. Cardinality(BytesOf(S)) \in Nat /\ Cardinality({}) = 0
  BY FS_CardinalityType, FS_EmptySet
<1>6. /\ IsFiniteSet(BytesOf(S) \cup own)
      /\ Cardinality(BytesOf(S) \cup own) =
           Cardinality(BytesOf(S)) + Cardinality(own) - Cardinality(BytesOf(S) \cap own)
  BY <1>2, FS_Union
<1>7. Cardinality(BytesOf(S) \cap own) = 0
  BY <1>4, <1>5
<1>8. Cardinality(BytesOf(S) \cup own) = Cardinality(BytesOf(S)) + Size[o]
  BY <1>1, <1>2, <1>5, <1>6, <1>7
<1> QED BY <1>3, <1>5, <1>6, <1>8

\* A record takes its size with it.
LEMMA BytesShrink ==
  ASSUME NEW S \in SUBSET Ops, NEW o \in S, IsFiniteSet(BytesOf(S))
  PROVE  /\ IsFiniteSet(BytesOf(S \ {o}))
         /\ Cardinality(BytesOf(S \ {o})) = Cardinality(BytesOf(S)) - Size[o]
<1>1. BytesOf(S \ {o}) \subseteq BytesOf(S)
  BY DEF BytesOf
<1>2. IsFiniteSet(BytesOf(S \ {o}))
  BY <1>1, FS_Subset
<1>3. (S \ {o}) \cup {o} = S /\ S \ {o} \in SUBSET Ops /\ o \in Ops /\ o \notin S \ {o}
  OBVIOUS
<1>4. /\ Cardinality(BytesOf(S \ {o})) \in Nat
      /\ Cardinality(BytesOf(S)) = Cardinality(BytesOf(S \ {o})) + Size[o]
  BY <1>2, <1>3, BytesGrow
<1>5. Size[o] \in Nat
  BY <1>3
<1> QED BY <1>2, <1>4, <1>5

\* No record has no bytes.
LEMMA NoBytes == IsFiniteSet(BytesOf({})) /\ Cardinality(BytesOf({})) = 0
<1>1. BytesOf({}) = {}
  BY DEF BytesOf
<1> QED BY <1>1, FS_EmptySet

-----------------------------------------------------------------------------
(* Both, step by step.                                                     *)

\* The line is in order, and the count is that of its bytes.
KeptInv ==
  /\ InLine(issued, wire, writes)
  /\ IsFiniteSet(BytesOf(Queued))
  /\ queuedBytes = Cardinality(BytesOf(Queued))

\* pump moves the line and changes nothing that is counted.
LEMMA KeptPump ==
  ASSUME TypeOK, NEW calls \in Seq(Ops), NEW q \in Seq(Ops),
         NEW active \in Ops \cup {None}, NEW waiting \in BOOLEAN,
         Pump(q, active, waiting), InLine(calls, wire, q)
  PROVE  /\ InLine(calls, wire', writes')
         /\ Queued' = ToSet(q) \cup ({active} \ {None})
<1>1. Queued' = ToSet(q) \cup ({active} \ {None})
  BY PumpQueue DEF Queued
<1>2. wire \in Seq(Ops)
  BY DEF TypeOK
<1>3. CASE state = "running" /\ active = None /\ ~waiting /\ q # <<>>
  <2>1. writes' = Tail(q) /\ wire' = Append(wire, Head(q))
    BY <1>3 DEF Pump
  <2> QED BY <1>1, <1>2, <1>3, <2>1, LineMoves
<1>4. CASE ~(state = "running" /\ active = None /\ ~waiting /\ q # <<>>)
  <2>1. writes' = q /\ wire' = wire
    BY <1>4 DEF Pump
  <2> QED BY <1>1, <2>1
<1> QED BY <1>3, <1>4

\* A step that empties the queue, perhaps after one more record of the line.
LEMMA KeptEmptied ==
  ASSUME TypeOK, NEW q \in Seq(Ops), issued' \in Seq(Ops), InLine(issued', wire, q),
         writes' = <<>>, activeWrite' = None, queuedBytes' = 0,
         wire' = wire \/ (q # <<>> /\ wire' = Append(wire, Head(q)))
  PROVE  KeptInv'
<1>1. Queued' = {}
  BY EmptySet DEF Queued
<1>2. IsFiniteSet(BytesOf(Queued')) /\ Cardinality(BytesOf(Queued')) = 0
  BY <1>1, NoBytes
<1>3. InLine(issued', wire', <<>>)
  <2>1. CASE wire' = wire
    BY <2>1, LineDropped
  <2>2. CASE q # <<>> /\ wire' = Append(wire, Head(q))
    <3>1. InLine(issued', wire', Tail(q))
      BY <2>2, LineMoves DEF TypeOK
    <3> QED BY <3>1, LineDropped
  <2> QED BY <2>1, <2>2
<1> QED BY <1>2, <1>3 DEF KeptInv

\* A record that is removed unsent leaves the line with its bytes.
LEMMA KeptRemoved ==
  ASSUME TypeOK, QueueInv, KeptInv, NEW o \in Ops, RemoveUnsent(o), UNCHANGED issued
  PROVE  KeptInv'
<1>1. writes \in Seq(Ops) /\ ToSet(writes) \subseteq Ops /\ Distinct(writes)
  BY DEF TypeOK, ToSet, QueueInv
<1>2. /\ ToSet(writes') = ToSet(writes) \ {o}
      /\ activeWrite' = activeWrite /\ wire' = wire
  BY <1>1, RemoveUnsentQueue
<1>3. CASE o \notin ToSet(writes)
  <2>1. UNCHANGED <<writes, queuedBytes>>
    <3>1. ~ \E i \in DOMAIN writes : writes[i] = o
      BY <1>3 DEF ToSet
    <3> QED BY <3>1 DEF RemoveUnsent
  <2> QED BY <1>2, <2>1 DEF KeptInv, Queued
<1>4. CASE o \in ToSet(writes)
  <2>1. PICK i \in DOMAIN writes : /\ writes[i] = o
                                   /\ writes' = RemoveAt(writes, i)
                                   /\ queuedBytes' = queuedBytes - Size[o]
    BY <1>4 DEF RemoveUnsent
  <2>2. InLine(issued', wire', writes')
    BY <1>1, <1>2, <2>1, LineLeft DEF KeptInv
  <2>3. o # activeWrite
    BY <1>4 DEF QueueInv, Started
  <2>4. Queued' = Queued \ {o} /\ o \in Queued /\ Queued \subseteq Ops
    BY <1>1, <1>2, <1>4, <2>3 DEF Queued, TypeOK
  <2>5. /\ IsFiniteSet(BytesOf(Queued'))
        /\ Cardinality(BytesOf(Queued')) = Cardinality(BytesOf(Queued)) - Size[o]
    BY <2>4, BytesShrink DEF KeptInv
  <2> QED BY <2>1, <2>2, <2>5 DEF KeptInv
<1> QED BY <1>3, <1>4

\* Every step keeps the line in order and counts what it does to it.
LEMMA KeptStep == TypeOK /\ QueueInv /\ KeptInv /\ [Next]_vars => KeptInv'
<1> SUFFICES ASSUME TypeOK, QueueInv, KeptInv, [Next]_vars PROVE KeptInv'
  OBVIOUS
<1>0. /\ writes \in Seq(Ops) /\ wire \in Seq(Ops) /\ issued \in Seq(Ops)
      /\ ToSet(writes) \subseteq Ops /\ InLine(issued, wire, writes)
      /\ activeWrite \in Ops \cup {None} /\ waitingDrain \in BOOLEAN /\ issued' \in Seq(Ops)
  BY TypeStep DEF TypeOK, ToSet, KeptInv
<1>1. ASSUME UNCHANGED <<issued, queue>> PROVE KeptInv'
  BY <1>1 DEF KeptInv, Queued
<1>2. ASSUME NEW o \in Ops, Accepts(o), issued' = Append(issued, o)
      PROVE  /\ Append(writes, o) \in Seq(Ops)
             /\ ToSet(Append(writes, o)) = ToSet(writes) \cup {o}
             /\ InLine(issued', wire, Append(writes, o))
  BY <1>0, <1>2, LineUp, AppendSet
<1>3. ASSUME NEW o \in Ops, Issue(o) PROVE KeptInv'
  <2> DEFINE q == Append(writes, o)
  <2>1. /\ Pump(q, activeWrite, waitingDrain) /\ queuedBytes' = queuedBytes + Size[o]
        /\ issued' = Append(issued, o) /\ Accepts(o)
    BY <1>3 DEF Issue
  <2>2. /\ q \in Seq(Ops) /\ ToSet(q) = ToSet(writes) \cup {o}
        /\ InLine(issued', wire, q)
    BY <1>2, <2>1
  <2> HIDE DEF q
  <2>3. /\ InLine(issued', wire', writes')
        /\ Queued' = ToSet(q) \cup ({activeWrite} \ {None})
    <3> DEFINE calls == issued'
    <3>1. calls \in Seq(Ops) /\ InLine(calls, wire, q)
      BY <1>0, <2>2
    <3> HIDE DEF calls
    <3>2. /\ InLine(calls, wire', writes')
          /\ Queued' = ToSet(q) \cup ({activeWrite} \ {None})
      BY <1>0, <2>1, <2>2, <3>1, KeptPump
    <3> QED BY <3>2 DEF calls
  <2>4. o \notin Queued /\ Queued' = Queued \cup {o} /\ Queued \in SUBSET Ops
    <3>1. outcome[o] = "none"
      BY <2>1 DEF Accepts
    <3>2. o \notin ToSet(writes)
      BY <3>1 DEF QueueInv, QueuedIsOpen, Open
    <3>3. o # activeWrite
      BY <3>1 DEF QueueInv, Started
    <3> QED BY <1>0, <2>2, <2>3, <3>2, <3>3 DEF Queued
  <2>5. /\ IsFiniteSet(BytesOf(Queued'))
        /\ Cardinality(BytesOf(Queued')) = Cardinality(BytesOf(Queued)) + Size[o]
    BY <2>4, BytesGrow DEF KeptInv
  <2> QED BY <2>1, <2>3, <2>5 DEF KeptInv
<1>4. CASE Flush
  <2>1. /\ Pump(writes, None, waitingDrain) /\ activeWrite \in Ops
        /\ queuedBytes' = queuedBytes - Size[activeWrite] /\ issued' = issued
    BY <1>0, <1>4 DEF Flush
  <2>2. /\ InLine(issued', wire', writes')
        /\ Queued' = ToSet(writes) \cup ({None} \ {None})
    BY <1>0, <2>1, KeptPump
  <2>3. activeWrite # None /\ activeWrite \notin ToSet(writes)
    BY <1>4 DEF Flush, QueueInv
  <2>4. Queued' = Queued \ {activeWrite} /\ activeWrite \in Queued /\ Queued \in SUBSET Ops
    BY <1>0, <2>1, <2>2, <2>3 DEF Queued
  <2>5. /\ IsFiniteSet(BytesOf(Queued'))
        /\ Cardinality(BytesOf(Queued')) = Cardinality(BytesOf(Queued)) - Size[activeWrite]
    BY <2>4, BytesShrink DEF KeptInv
  <2> QED BY <2>1, <2>2, <2>5 DEF KeptInv
<1>5. CASE Drain
  <2>1. /\ Pump(writes, activeWrite, FALSE) /\ FALSE \in BOOLEAN
        /\ issued' = issued /\ queuedBytes' = queuedBytes
    BY <1>5 DEF Drain
  <2>2. InLine(issued', wire', writes') /\ Queued' = Queued
    BY <1>0, <2>1, KeptPump DEF Queued
  <2> QED BY <2>1, <2>2 DEF KeptInv
<1>6. ASSUME NEW o \in Ops, Timeout(o) PROVE KeptInv'
  BY <1>6, KeptRemoved DEF Timeout
<1>7. ASSUME NEW r \in Requests, BadResponse(r) PROVE KeptInv'
  BY <1>7, KeptRemoved DEF BadResponse, Ops
<1>8. CASE Fail \/ Close \/ DrainWindowEnds \/ Dispose
  <2>1. RejectOperations /\ issued' = issued
    BY <1>8 DEF Fail, Failing, Close, DrainWindowEnds, FinishClose, Dispose
  <2>2. /\ writes' = <<>> /\ activeWrite' = None /\ queuedBytes' = 0 /\ wire' = wire
    BY <2>1 DEF RejectOperations
  <2> QED BY <1>0, <2>1, <2>2, KeptEmptied
<1>9. ASSUME NEW done, NEW open, NEW q \in Seq(Ops), PumpFails(done, open, q),
             InLine(issued', wire, q)
      PROVE  KeptInv'
  BY <1>0, <1>9, KeptEmptied DEF PumpFails
<1>10. ASSUME NEW o \in Ops, IssueFails(o) PROVE KeptInv'
  <2>1. PumpFails({}, Open \cup {o}, Append(writes, o))
    BY <1>10 DEF IssueFails
  <2>2. Append(writes, o) \in Seq(Ops) /\ InLine(issued', wire, Append(writes, o))
    BY <1>2, <1>10 DEF IssueFails
  <2> QED BY <1>9, <2>1, <2>2
<1>11. CASE FlushFails \/ DrainFails
  <2>1. issued' = issued /\ \E done : PumpFails(done, Open, writes)
    BY <1>11 DEF FlushFails, DrainFails
  <2>2. InLine(issued', wire, writes)
    BY <1>0, <2>1
  <2> QED BY <1>0, <1>9, <2>1, <2>2
<1>12. CASE \/ Start \/ Spawned \/ Exit \/ CleanupDone \/ CleanupFails \/ Disposed
            \/ ToolStarts \/ (\E p \in {"root", "tool"} : ProcessEnds(p))
            \/ (\E r \in Requests : Response(r))
  BY <1>1, <1>12 DEF Start, Spawned, Exit, CleanupDone, CleanupFails, Disposed,
                     ToolStarts, ProcessEnds, Response
<1>13. CASE UNCHANGED vars
  BY <1>1, <1>13 DEF vars
<1> QED BY <1>3, <1>4, <1>5, <1>6, <1>7, <1>8, <1>10, <1>11, <1>12, <1>13 DEF Next

\* Whatever times out, fails or closes meanwhile, records are handed to Pi in
\* the order of the calls, and the bytes counted are those of the records
\* that are queued or at stdin.
THEOREM QueueIsKept == Spec => []QueueKept
<1>1. Init => KeptInv
  <2>1. ASSUME Init PROVE InLine(issued, wire, writes) /\ Queued = {}
    BY <2>1, EmptySet DEF Init, InLine, Ascending, Queued
  <2> QED BY <2>1, NoBytes DEF Init, KeptInv
<1>2. KeptInv => QueueKept
  BY DEF KeptInv, InLine, Ascending, Before, QueueKept, WireInOrder, QueuedBytesExact, Queued
<1> QED BY <1>1, <1>2, QueueInvariant, KeptStep, PTL DEF Spec

-----------------------------------------------------------------------------
(* The client's life.                                                      *)

\* The child, its tree and the client's state agree.
ChildLife ==
  /\ state = "new" => child = "none" /\ ~disposed /\ starting = "none"
  /\ child = "none" => state \in {"new", "closed"}
  /\ child \in {"none", "unborn"} => tree = {}
  /\ child = "exited" => "root" \notin tree /\ state \in {"stopping", "closed"}

\* A tree that is not owned is empty, and a disposal past its cleanup owns none.
TreeOwned ==
  /\ ~ownedChild => tree = {}
  /\ flight => ownedChild
  /\ disposal \in {"closed", "resolved"} => ~ownedChild
  /\ disposal # "none" => disposed

\* start is answered when the client leaves 'starting'; before it runs there is
\* nothing to write.
StartLife ==
  /\ starting = "open" => state = "starting"
  /\ state \in {"new", "starting"} => Open = {} /\ writes = <<>> /\ activeWrite = None

LifeInv == ChildLife /\ TreeOwned /\ StartLife /\ QuietAfterEnd /\ NothingStranded

\* After rejectOperations nothing is open and nothing waits.
LEMMA RejectedAll ==
  ASSUME TypeOK, RejectOperations
  PROVE  Open' = {} /\ writes' = <<>> /\ activeWrite' = None
BY DEF RejectOperations, Open, Delivery

\* Every step keeps the lifetime of the child, of its tree and of the client in
\* agreement.
LEMMA LifeStep == TypeOK /\ LifeInv /\ [Next]_vars => LifeInv'
<1> SUFFICES ASSUME TypeOK, LifeInv, [Next]_vars PROVE LifeInv'
  OBVIOUS
<1> USE DEF LifeInv
<1>1. CASE UNCHANGED vars
  BY <1>1 DEF vars, ChildLife, TreeOwned, StartLife, QuietAfterEnd, NothingStranded, Open
<1>2. CASE Start
  <2>1. /\ state = "new" /\ ~disposed /\ child = "none" /\ tree = {}
        /\ Open = {} /\ writes = <<>> /\ activeWrite = None
        /\ ~flight \/ ownedChild
        /\ disposal = "none"
    BY <1>2 DEF Start, TypeOK, ChildLife, TreeOwned, StartLife
  <2>2. /\ Open' = {} /\ writes' = <<>> /\ activeWrite' = None
        /\ UNCHANGED <<disposed, flight, disposal>>
    BY <1>2, <2>1 DEF Start, Open
  <2>3. \/ /\ child' = "born" /\ tree' = {"root"} /\ ownedChild' = TRUE
           /\ state' = "starting" /\ starting' = "open"
        \/ /\ child' = "unborn" /\ UNCHANGED <<tree, ownedChild>>
           /\ state' = "starting" /\ starting' = "open"
        \/ /\ state' = "closed" /\ starting' = "failed"
           /\ UNCHANGED <<child, tree, ownedChild>>
    BY <1>2 DEF Start
  <2>4. ChildLife' /\ StartLife' /\ QuietAfterEnd' /\ NothingStranded'
    BY <2>1, <2>2, <2>3 DEF ChildLife, StartLife, QuietAfterEnd, NothingStranded
  <2>5. TreeOwned'
    BY <2>1, <2>2, <2>3 DEF TreeOwned
  <2> QED BY <2>4, <2>5
<1>3. CASE Spawned
  BY <1>3 DEF Spawned, ChildLife, TreeOwned, StartLife, QuietAfterEnd,
              NothingStranded, Open
<1>4. ASSUME UNCHANGED <<state, disposed, starting, process, cleanup, disposal>>,
             state = "running", NothingStranded'
      PROVE  LifeInv'
  BY <1>4 DEF ChildLife, TreeOwned, StartLife, QuietAfterEnd
<1>5. ASSUME UNCHANGED <<state, disposed, starting, process, cleanup, disposal>>,
             Open' \subseteq Open, writes = <<>> => writes' = <<>>,
             activeWrite = None => activeWrite' = None, NothingStranded'
      PROVE  LifeInv'
  BY <1>5 DEF ChildLife, TreeOwned, StartLife, QuietAfterEnd
<1>6. ASSUME NEW o \in Ops, Issue(o) PROVE LifeInv'
  <2>1. /\ Pump(Append(writes, o), activeWrite, waitingDrain)
        /\ Append(writes, o) \in Seq(Ops)
        /\ activeWrite \in Ops \cup {None} /\ waitingDrain \in BOOLEAN
    BY <1>6, AppendSet DEF Issue, TypeOK
  <2>2. state = "running" => (writes' # <<>> => activeWrite' # None \/ waitingDrain')
    BY <2>1, PumpQueue
  <2> QED BY <1>4, <1>6, <2>2 DEF Issue, Accepts, NothingStranded
<1>7. CASE Flush
  <2>1. /\ Pump(writes, None, waitingDrain) /\ activeWrite # None
        /\ writes \in Seq(Ops) /\ None \in Ops \cup {None} /\ waitingDrain \in BOOLEAN
        /\ UNCHANGED <<state, disposed, starting, process, cleanup, disposal>>
    BY <1>7 DEF Flush, TypeOK
  <2>2. state = "running" => (writes' # <<>> => activeWrite' # None \/ waitingDrain')
    BY <2>1, PumpQueue
  <2>3. CASE state = "running"
    BY <1>4, <2>1, <2>2, <2>3 DEF NothingStranded
  <2>4. CASE state # "running"
    <3>1. writes' = writes /\ activeWrite' = None
      BY <2>1, <2>4 DEF Pump
    <3>2. Open' \subseteq Open
      BY <1>7 DEF Flush, Settle, Open, TypeOK
    <3> QED BY <1>5, <2>1, <2>4, <3>1, <3>2 DEF NothingStranded
  <2> QED BY <2>3, <2>4
<1>8. CASE Drain
  <2>1. /\ Pump(writes, activeWrite, FALSE)
        /\ writes \in Seq(Ops) /\ activeWrite \in Ops \cup {None} /\ FALSE \in BOOLEAN
        /\ UNCHANGED <<state, disposed, starting, process, cleanup, disposal>>
        /\ UNCHANGED outcome
    BY <1>8 DEF Drain, TypeOK
  <2>2. state = "running" => (writes' # <<>> => activeWrite' # None \/ waitingDrain')
    BY <2>1, PumpQueue
  <2>3. CASE state = "running"
    BY <1>4, <2>1, <2>2, <2>3 DEF NothingStranded
  <2>4. CASE state # "running"
    <3>1. writes' = writes /\ activeWrite' = activeWrite
      BY <2>1, <2>4 DEF Pump
    <3> QED BY <1>5, <2>1, <2>4, <3>1 DEF NothingStranded, Open
  <2> QED BY <2>3, <2>4
<1>9. ASSUME NEW o \in Ops, RemoveUnsent(o), Settle(o, Delivery(o)),
             UNCHANGED <<state, disposed, starting, process, cleanup, disposal>>
      PROVE  LifeInv'
  <2>1. /\ UNCHANGED <<activeWrite, waitingDrain>>
        /\ writes = <<>> => writes' = <<>>
    BY <1>9, RemoveUnsentQueue
  <2>2. Open' \subseteq Open
    BY <1>9 DEF Settle, Delivery, Open, TypeOK
  <2> QED BY <1>5, <1>9, <2>1, <2>2 DEF NothingStranded
<1>10. ASSUME NEW o \in Ops, Timeout(o) PROVE LifeInv'
  BY <1>9, <1>10 DEF Timeout
<1>11. ASSUME NEW r \in Requests, BadResponse(r) PROVE LifeInv'
  BY <1>9, <1>11 DEF BadResponse, Ops
<1>12. ASSUME NEW r \in Requests, Response(r) PROVE LifeInv'
  <2>1. Open' \subseteq Open
    BY <1>12 DEF Response, Settle, Open, TypeOK
  <2> QED BY <1>5, <1>12, <2>1 DEF Response, NothingStranded
<1>13. ASSUME Open' = {}, writes' = <<>>, activeWrite' = None,
              state' = "stopping", starting' # "open",
              flight' = ownedChild, child # "none", child # "exited" => child' = child,
              UNCHANGED <<disposed, tree, ownedChild, disposal>>,
              child' = child \/ (child' = "exited" /\ "root" \notin tree)
       PROVE  LifeInv'
  BY <1>13 DEF ChildLife, TreeOwned, StartLife, QuietAfterEnd, NothingStranded
<1>14. CASE Fail
  <2>1. /\ RejectOperations /\ RejectStarting /\ CleanupOwnedTree /\ state' = "stopping"
        /\ child # "none" /\ UNCHANGED <<disposed, issued, process, disposal>>
    BY <1>14 DEF Fail, Failing
  <2>2. Open' = {} /\ writes' = <<>> /\ activeWrite' = None
    BY <2>1, RejectedAll
  <2> QED BY <1>13, <2>1, <2>2 DEF RejectStarting, CleanupOwnedTree
<1>15. ASSUME NEW done, NEW open, NEW q, PumpFails(done, open, q), Open \subseteq open
       PROVE  LifeInv'
  <2>1. /\ state = "running" /\ state' = "stopping" /\ writes' = <<>> /\ activeWrite' = None
        /\ CleanupOwnedTree /\ UNCHANGED <<disposed, starting, process, disposal>>
    BY <1>15 DEF PumpFails
  <2>2. Open' = {}
    BY <1>15 DEF PumpFails, Open, Delivery
  <2>3. starting # "open" /\ child # "none"
    BY <2>1 DEF StartLife, ChildLife
  <2> QED BY <1>13, <2>1, <2>2, <2>3 DEF CleanupOwnedTree
<1>16. ASSUME NEW o \in Ops, IssueFails(o) PROVE LifeInv'
  BY <1>15, <1>16 DEF IssueFails
<1>17. CASE FlushFails \/ DrainFails
  BY <1>15, <1>17 DEF FlushFails, DrainFails
<1>18. CASE Exit
  BY <1>18 DEF Exit, RejectStarting, CleanupOwnedTree, ChildLife, TreeOwned, StartLife,
               QuietAfterEnd, NothingStranded, Open
<1>19. CASE Close \/ DrainWindowEnds
  <2>1. /\ RejectOperations /\ RejectStarting /\ state' = "closed"
        /\ UNCHANGED <<disposed, issued, process, cleanup, disposal>>
    BY <1>19 DEF Close, DrainWindowEnds, FinishClose
  <2>2. Open' = {} /\ writes' = <<>> /\ activeWrite' = None
    BY <2>1, RejectedAll
  <2> QED BY <2>1, <2>2 DEF RejectStarting, ChildLife, TreeOwned, StartLife,
                            QuietAfterEnd, NothingStranded
<1>20. CASE Dispose
  <2>1. /\ RejectOperations /\ RejectStarting /\ CleanupOwnedTree /\ disposed' = TRUE
        /\ state' = IF state \in {"new", "closed"} THEN "closed" ELSE "stopping"
        /\ disposal' = IF ownedChild THEN "tree" ELSE "closed"
        /\ UNCHANGED <<issued, process>>
    BY <1>20 DEF Dispose
  <2>2. Open' = {} /\ writes' = <<>> /\ activeWrite' = None
    BY <2>1, RejectedAll
  <2>3. (starting # "open")'
    BY <2>1 DEF RejectStarting
  <2> QED BY <2>1, <2>2, <2>3 DEF CleanupOwnedTree, ChildLife, TreeOwned, StartLife,
                                  QuietAfterEnd, NothingStranded
<1>21. CASE CleanupDone
  BY <1>21 DEF CleanupDone, ChildLife, TreeOwned, StartLife, QuietAfterEnd,
               NothingStranded, Open
<1>22. CASE CleanupFails
  BY <1>22 DEF CleanupFails, ChildLife, TreeOwned, StartLife, QuietAfterEnd,
               NothingStranded, Open
<1>23. CASE Disposed
  BY <1>23 DEF Disposed, ChildLife, TreeOwned, StartLife, QuietAfterEnd,
               NothingStranded, Open
<1>24. CASE ToolStarts
  BY <1>24 DEF ToolStarts, ChildLife, TreeOwned, StartLife, QuietAfterEnd,
               NothingStranded, Open
<1>25. ASSUME NEW p \in {"root", "tool"}, ProcessEnds(p) PROVE LifeInv'
  BY <1>25 DEF ProcessEnds, ChildLife, TreeOwned, StartLife, QuietAfterEnd,
               NothingStranded, Open
<1> QED BY <1>1, <1>2, <1>3, <1>6, <1>7, <1>8, <1>10, <1>11, <1>12, <1>14, <1>16, <1>17,
           <1>18, <1>19, <1>20, <1>21, <1>22, <1>23, <1>24, <1>25 DEF Next

\* The state of the client follows the lifetime of the child it owns.
LEMMA LifeInvariant == Spec => []LifeInv
<1>1. Init => LifeInv
  BY DEF Init, LifeInv, ChildLife, TreeOwned, StartLife, QuietAfterEnd,
         NothingStranded, Open
<1> QED BY <1>1, ClientTypeCorrect, LifeStep, PTL DEF Spec

\* The end of a client is final: no caller waits, no event revives it, and when
\* dispose has resolved no process of its tree is left (dispose, finish).
THEOREM ClientEnds == Spec => []EndIsFinal
<1>1. LifeInv => EndIsFinal
  BY DEF LifeInv, TreeOwned, DisposedTreeEmpty, EndIsFinal
<1> QED BY <1>1, LifeInvariant, PTL

\* No event leaves a running client's queue without an event to come.
THEOREM QueueMoves == Spec => []NothingStranded
<1>1. LifeInv => NothingStranded
  BY DEF LifeInv
<1> QED BY <1>1, LifeInvariant, PTL

=============================================================================
