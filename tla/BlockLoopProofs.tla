-------------------------- MODULE BlockLoopProofs --------------------------
(***************************************************************************)
(* What the block loops compute, for data and blocks of every length.  The *)
(* proofs about both programs that have these loops rest on it.            *)
(***************************************************************************)
EXTENDS BlockLoop, SequenceTheorems, TLAPS

(***************************************************************************)
(* Arithmetic of blocks.  Where the i-th block starts has a name, so that  *)
(* the products are met here only.                                         *)
(***************************************************************************)
Place(i) == i * Block

LEMMA PlaceNat ==
    ASSUME Block \in Nat \ {0}, NEW i \in Nat
    PROVE  /\ Place(i) \in Nat
           /\ i = 0 => Place(i) = 0
           /\ i > 0 => Block <= Place(i)
    BY DEF Place

LEMMA PlaceNext ==
    ASSUME Block \in Nat \ {0}, NEW i \in Nat
    PROVE  Place(i + 1) = Place(i) + Block
    BY DEF Place

LEMMA PlaceBefore ==
    ASSUME Block \in Nat \ {0}, NEW i \in Nat
    PROVE  Place(i - 1) = Place(i) - Block
    BY DEF Place

LEMMA PlacesInOrder ==
    ASSUME Block \in Nat \ {0}, NEW i \in Nat, NEW j \in Nat, i < j
    PROVE  Place(i) + Block <= Place(j)
    BY DEF Place

LEMMA Division ==
    ASSUME Block \in Nat \ {0}, NEW n \in Nat
    PROVE  /\ n \div Block \in Nat
           /\ n % Block \in Nat
           /\ n % Block < Block
           /\ n = Place(n \div Block) + (n % Block)
    BY DEF Place

(***************************************************************************)
(* The operators on streams and buffers.                                   *)
(***************************************************************************)
LEMMA FunctionIsSeq ==
    ASSUME NEW S, NEW n \in Nat, NEW f \in [1 .. n -> S]
    PROVE  f \in Seq(S) /\ Len(f) = n
    <1>1. f \in Seq(S)
        BY SeqDef
    <1> QED
        BY <1>1, LenProperties

LEMMA FreshProperties ==
    ASSUME NEW S, Junk \in S, NEW n \in Nat
    PROVE  /\ Fresh(n) \in Seq(S)
           /\ Len(Fresh(n)) = n
           /\ DOMAIN Fresh(n) = 1 .. n
           /\ \A k \in 1 .. n : Fresh(n)[k] = Junk
    <1>1. Fresh(n) \in [1 .. n -> S]
        BY DEF Fresh
    <1>2. Fresh(n) \in Seq(S)
        BY <1>1, SeqDef
    <1> QED
        BY <1>1, <1>2, LenProperties DEF Fresh

\* new is buf with part in it, after place at.
Replaced(new, buf, at, part) ==
    /\ Len(new) = Len(buf)
    /\ \A j \in 1 .. Len(part) : at + j \in 1 .. Len(buf) => new[at + j] = part[j]
    /\ \A k \in 1 .. Len(buf) : k <= at \/ k > at + Len(part) => new[k] = buf[k]

\* A received part replaces the bytes it comes to, and the buffer stays as
\* long as it was, wherever the part is put.
LEMMA StoredProperties ==
    ASSUME NEW S, NEW buf \in Seq(S), NEW part \in Seq(S), NEW i, Place(i) \in Int
    PROVE  /\ Stored(buf, i, part) \in Seq(S)
           /\ Replaced(Stored(buf, i, part), buf, Place(i), part)
    <1> DEFINE n == Len(buf)
               g == Stored(buf, i, part)
    <1>1. /\ n \in Nat /\ DOMAIN buf = 1 .. n
          /\ Len(part) \in Nat /\ DOMAIN part = 1 .. Len(part)
          /\ \A k \in 1 .. n : buf[k] \in S
          /\ \A k \in 1 .. Len(part) : part[k] \in S
        BY LenProperties
    <1>2. g = [k \in DOMAIN buf |-> IF k - Place(i) \in DOMAIN part
                                       THEN part[k - Place(i)] ELSE buf[k]]
        BY Zenon DEF Stored, Place
    <1>3. g = [k \in 1 .. n |-> IF k - Place(i) \in 1 .. Len(part)
                                   THEN part[k - Place(i)] ELSE buf[k]]
        BY <1>1, <1>2
    <1> HIDE DEF g
    <1>4. g \in [1 .. n -> S]
        BY <1>1, <1>3
    <1>5. g \in Seq(S) /\ Len(g) = n
        BY <1>1, <1>4, FunctionIsSeq
    <1>6. ASSUME NEW j \in 1 .. Len(part), Place(i) + j \in 1 .. n
          PROVE  g[Place(i) + j] = part[j]
        <2>1. (Place(i) + j) - Place(i) = j
            OBVIOUS
        <2> QED
            BY <1>3, <1>6, <2>1
    <1>7. ASSUME NEW k \in 1 .. n, k <= Place(i) \/ k > Place(i) + Len(part)
          PROVE  g[k] = buf[k]
        <2>1. k - Place(i) \notin 1 .. Len(part)
            BY <1>1, <1>7
        <2> QED
            BY <1>3, <2>1
    <1> QED
        BY <1>5, <1>6, <1>7 DEF g, Replaced

LEMMA AfterProperties ==
    ASSUME NEW S, NEW s \in Seq(S), NEW m \in Nat, m <= Len(s)
    PROVE  /\ After(s, m) \in Seq(S)
           /\ Len(After(s, m)) = Len(s) - m
           /\ \A k \in 1 .. Len(s) - m : After(s, m)[k] = s[m + k]
    <1>1. \A k \in m + 1 .. Len(s) : s[k] \in S
        BY LenProperties
    <1>2. Len(s) \in Nat
        BY LenProperties
    <1> QED
        BY <1>1, <1>2, SubSeqProperties DEF After

LEMMA FirstProperties ==
    ASSUME NEW S, NEW s \in Seq(S), NEW m \in Nat, m <= Len(s)
    PROVE  /\ SubSeq(s, 1, m) \in Seq(S)
           /\ Len(SubSeq(s, 1, m)) = m
           /\ \A k \in 1 .. m : SubSeq(s, 1, m)[k] = s[k]
    <1>1. \A k \in 1 .. m : s[k] \in S
        BY LenProperties
    <1> QED
        BY <1>1, SubSeqProperties

\* The part of a stream that is received, when all of it has one type.
LEMMA PartProperties ==
    ASSUME NEW S, NEW T, NEW s \in Seq(S), NEW m \in Nat, m <= Len(s),
           \A k \in 1 .. m : s[k] \in T
    PROVE  /\ SubSeq(s, 1, m) \in Seq(T)
           /\ Len(SubSeq(s, 1, m)) = m
           /\ \A k \in 1 .. m : SubSeq(s, 1, m)[k] = s[k]
    BY SubSeqProperties

LEMMA LengthsProperties ==
    ASSUME NEW S, NEW s \in Seq(S), NEW n \in Nat, NEW ended \in BOOLEAN,
           NEW m \in Lengths(s, n, ended)
    PROVE  m \in Nat /\ m <= n /\ m <= Len(s)
    BY LenProperties, EmptySeq DEF Lengths

\* What is sent of a file: the whole blocks as they are, and for the rest the
\* bytes of one block before.
LEMMA SentProperties ==
    ASSUME Block \in Nat \ {0}, NEW S, Junk \in S, NEW data \in Seq(S)
    PROVE  /\ Sent(data) \in Seq(S)
           /\ Len(Sent(data)) = Len(data)
           /\ \A k \in 1 .. Place(Blocks(data)) : Sent(data)[k] = data[k]
           /\ \A k \in 1 .. Rest(data) :
                  Sent(data)[Place(Blocks(data)) + k] =
                      IF Blocks(data) = 0 THEN Junk ELSE data[Place(Blocks(data) - 1) + k]
    <1> DEFINE n == Len(data)
               b == Blocks(data)
               r == Rest(data)
               w == Place(b)
               whole == SubSeq(data, 1, w)
               tail == [k \in 1 .. r |-> IF b = 0 THEN Junk ELSE data[Place(b - 1) + k]]
    <1>1. n \in Nat /\ \A k \in 1 .. n : data[k] \in S
        BY LenProperties
    <1>2. b \in Nat /\ r \in Nat /\ r < Block /\ n = w + r
        BY <1>1, Division DEF Blocks, Rest
    <1>3. Sent(data) = whole \o tail
        BY DEF Sent, Place
    <1>4. \A k \in 1 .. r : tail[k] = IF b = 0 THEN Junk ELSE data[Place(b - 1) + k]
        OBVIOUS
    <1> HIDE DEF n, b, r
    <1>5. w \in Nat /\ w <= n
        BY <1>1, <1>2, PlaceNat
    <1>6. b # 0 => Place(b - 1) = w - Block /\ w - Block \in Nat
        BY <1>2, <1>5, PlaceNat, PlaceBefore
    <1>7. \A k \in 1 .. r : b # 0 => Place(b - 1) + k \in 1 .. n
        BY <1>2, <1>5, <1>6
    <1>8. tail \in [1 .. r -> S]
        BY <1>1, <1>7
    <1> HIDE DEF w
    <1>9. whole \in Seq(S) /\ Len(whole) = w
          /\ \A k \in 1 .. w : whole[k] = data[k]
        BY <1>1, <1>5, FirstProperties DEF n
    <1> HIDE DEF whole, tail
    <1>10. tail \in Seq(S) /\ Len(tail) = r
        BY <1>2, <1>8, FunctionIsSeq
    <1>11. /\ Sent(data) \in Seq(S)
           /\ Len(Sent(data)) = w + r
           /\ \A k \in 1 .. w + r :
                  Sent(data)[k] = IF k <= w THEN whole[k] ELSE tail[k - w]
        BY <1>3, <1>9, <1>10, ConcatProperties
    <1>12. Len(Sent(data)) = Len(data)
        BY <1>2, <1>11 DEF n
    <1>13. \A k \in 1 .. w : Sent(data)[k] = data[k]
        BY <1>2, <1>5, <1>9, <1>11
    <1>14. ASSUME NEW k \in 1 .. r
           PROVE  Sent(data)[w + k] = IF b = 0 THEN Junk ELSE data[Place(b - 1) + k]
        <2>1. w + k \in 1 .. w + r /\ ~(w + k <= w) /\ (w + k) - w = k
            BY <1>2, <1>5
        <2>2. Sent(data)[w + k] = tail[k]
            BY <2>1, <1>11
        <2> QED
            BY <2>2, <1>4
    <1> QED
        BY <1>11, <1>12, <1>13, <1>14 DEF b, r, w

(***************************************************************************)
(* What a stream holds.                                                    *)
(***************************************************************************)
\* A stream's units are bytes and headers.
Kinds(U, B, H) ==
    /\ U = B \cup H
    /\ Junk \in B
    /\ \A u \in B : ~IsHeader(u)
    /\ \A u \in H : IsHeader(u) /\ DataSize(u) \in Nat

\* The k-th of the n bytes that are sent of f.
Carries(f, n, k, u) ==
    /\ k <= Place(n \div Block) => u = <<f, k>>
    /\ k > Place(n \div Block) /\ n \div Block > 0 => u = <<f, k - Block>>

\* u comes k units after the header h: a byte of its data, and, if all that
\* was announced is sent, the next header where the data is at its end.  The
\* bytes are "exactly" those the loops send of a file, or those of the message
\* that is "told".
Follows(how, h, k, u) ==
    /\ k <= DataSize(h) => ~IsHeader(u)
    /\ how # "somehow" /\ k > DataSize(h) => IsHeader(u)
    /\ how = "exactly" /\ k <= DataSize(h) => Carries(FileName(h), DataSize(h), k, u)
    /\ how = "told" /\ Command(h) = "SENDMSG" /\ k <= DataSize(h) => u = <<FileName(h), k>>

\* What comes after place i of s is what follows h when "from" of its bytes
\* are there.
Continues(how, h, from, s, i) ==
    \A k \in 1 .. DataSize(h) + 1 - from :
        i + k <= Len(s) => Follows(how, h, from + k, s[i + k])

Frames(how, s) == \A p \in 1 .. Len(s) : IsHeader(s[p]) => Continues(how, s[p], 0, s, p)

\* The data of every header is there, but for what is owed.
Complete(s, owed) ==
    \A p \in 1 .. Len(s) : IsHeader(s[p]) => p + DataSize(s[p]) <= Len(s) + owed

\* The first n bytes of data are those of f.
Whole(f, data, n) == \A k \in 1 .. n : data[k] = <<f, k>>

LEMMA KindsProperties ==
    ASSUME NEW U, NEW B, NEW H, Kinds(U, B, H)
    PROVE  /\ Junk \in B
           /\ \A u \in B : ~IsHeader(u) /\ u \in U
           /\ \A u \in H : IsHeader(u) /\ DataSize(u) \in Nat /\ u \in U
           /\ \A u \in U : /\ IsHeader(u) => u \in H
                           /\ ~IsHeader(u) => u \in B
           /\ B \subseteq U
    BY DEF Kinds

LEMMA InStream ==
    ASSUME NEW U, NEW B, NEW H, Kinds(U, B, H),
           NEW s \in Seq(U)
    PROVE  /\ Len(s) \in Nat
           /\ \A p \in 1 .. Len(s) : s[p] \in U
           /\ \A p \in 1 .. Len(s) : IsHeader(s[p]) => s[p] \in H /\ DataSize(s[p]) \in Nat
    <1>1. Len(s) \in Nat /\ \A p \in 1 .. Len(s) : s[p] \in U
        BY LenProperties
    <1> QED
        BY <1>1, KindsProperties

LEMMA ContinuesAfter ==
    ASSUME NEW U,
           NEW how, NEW h, DataSize(h) \in Nat, NEW from \in Nat, NEW s \in Seq(U),
           NEW m \in Nat, m <= Len(s), NEW i \in Nat,
           Continues(how, h, from, s, m + i)
    PROVE  Continues(how, h, from, After(s, m), i)
    <1> DEFINE t == After(s, m)
    <1>1. /\ Len(s) \in Nat /\ Len(t) = Len(s) - m
          /\ \A k \in 1 .. Len(s) - m : t[k] = s[m + k]
        BY AfterProperties, LenProperties
    <1> HIDE DEF t
    <1>2. SUFFICES ASSUME NEW k \in 1 .. DataSize(h) + 1 - from, i + k <= Len(t)
                   PROVE  Follows(how, h, from + k, t[i + k])
        BY DEF Continues, t
    <1>3. /\ (m + i) + k <= Len(s)
          /\ m + (i + k) = (m + i) + k
          /\ i + k \in 1 .. Len(s) - m
        BY <1>1, <1>2
    <1>4. Follows(how, h, from + k, s[(m + i) + k])
        BY <1>3 DEF Continues
    <1>5. t[i + k] = s[(m + i) + k]
        BY <1>1, <1>3
    <1> QED
        BY <1>4, <1>5

LEMMA ContinuesOn ==
    ASSUME NEW U,
           NEW how, NEW h, DataSize(h) \in Nat, NEW from \in Nat, NEW s \in Seq(U),
           NEW m \in Nat, m <= Len(s),
           Continues(how, h, from, s, 0)
    PROVE  Continues(how, h, from + m, After(s, m), 0)
    <1> DEFINE t == After(s, m)
    <1>1. /\ Len(s) \in Nat /\ Len(t) = Len(s) - m
          /\ \A k \in 1 .. Len(s) - m : t[k] = s[m + k]
        BY AfterProperties, LenProperties
    <1> HIDE DEF t
    <1>2. SUFFICES ASSUME NEW k \in 1 .. DataSize(h) + 1 - (from + m), 0 + k <= Len(t)
                   PROVE  Follows(how, h, (from + m) + k, t[0 + k])
        BY DEF Continues, t
    <1>3. /\ m + k \in 1 .. DataSize(h) + 1 - from
          /\ 0 + (m + k) <= Len(s)
          /\ 0 + (m + k) = m + k /\ 0 + k = k
          /\ from + (m + k) = (from + m) + k
          /\ k \in 1 .. Len(s) - m
        BY <1>1, <1>2
    <1>4. Follows(how, h, from + (m + k), s[0 + (m + k)])
        BY <1>3 DEF Continues
    <1> QED
        BY <1>1, <1>3, <1>4

\* A recv that takes less than the b bytes it asked for loses the place, but
\* what comes is still data.
LEMMA ContinuesShort ==
    ASSUME NEW U,
           NEW h, DataSize(h) \in Nat, NEW from \in Nat, NEW s \in Seq(U),
           NEW b \in Nat, NEW m \in Nat, m <= b, m <= Len(s),
           Continues("somehow", h, from, s, 0)
    PROVE  Continues("somehow", h, from + b, After(s, m), 0)
    <1> DEFINE t == After(s, m)
    <1>1. /\ Len(s) \in Nat /\ Len(t) = Len(s) - m
          /\ \A k \in 1 .. Len(s) - m : t[k] = s[m + k]
        BY AfterProperties, LenProperties
    <1> HIDE DEF t
    <1>2. SUFFICES ASSUME NEW k \in 1 .. DataSize(h) + 1 - (from + b), 0 + k <= Len(t),
                          (from + b) + k <= DataSize(h)
                   PROVE  ~IsHeader(t[0 + k])
        BY DEF Continues, Follows, t
    <1>3. /\ m + k \in 1 .. DataSize(h) + 1 - from
          /\ 0 + (m + k) <= Len(s)
          /\ 0 + (m + k) = m + k /\ 0 + k = k
          /\ from + (m + k) <= DataSize(h)
          /\ k \in 1 .. Len(s) - m
        BY <1>1, <1>2
    <1>4. Follows("somehow", h, from + (m + k), s[0 + (m + k)])
        BY <1>3 DEF Continues
    <1>5. ~IsHeader(s[0 + (m + k)])
        BY <1>3, <1>4 DEF Follows
    <1> QED
        BY <1>1, <1>3, <1>5

\* More is put into the stream: what concerns h must follow it.
LEMMA ContinuesConcat ==
    ASSUME NEW U,
           NEW how, NEW h, DataSize(h) \in Nat, NEW from \in Nat,
           NEW s \in Seq(U), NEW t \in Seq(U), NEW i \in Nat, i <= Len(s),
           Continues(how, h, from, s, i),
           \A j \in 1 .. Len(t) :
               (Len(s) - i) + j <= DataSize(h) + 1 - from =>
                   Follows(how, h, from + ((Len(s) - i) + j), t[j])
    PROVE  Continues(how, h, from, s \o t, i)
    <1> DEFINE st == s \o t
    <1>1. /\ Len(s) \in Nat /\ Len(t) \in Nat /\ Len(st) = Len(s) + Len(t)
          /\ \A k \in 1 .. Len(s) + Len(t) :
                 st[k] = IF k <= Len(s) THEN s[k] ELSE t[k - Len(s)]
        BY ConcatProperties, LenProperties
    <1> HIDE DEF st
    <1>2. SUFFICES ASSUME NEW k \in 1 .. DataSize(h) + 1 - from, i + k <= Len(st)
                   PROVE  Follows(how, h, from + k, st[i + k])
        BY DEF Continues, st
    <1>3. i + k \in 1 .. Len(s) + Len(t)
        BY <1>1, <1>2
    <1>4. CASE i + k <= Len(s)
        <2>1. st[i + k] = s[i + k]
            BY <1>1, <1>3, <1>4
        <2> QED
            BY <2>1, <1>4 DEF Continues
    <1>5. CASE ~(i + k <= Len(s))
        <2> DEFINE j == (i + k) - Len(s)
        <2>1. /\ j \in 1 .. Len(t)
              /\ (Len(s) - i) + j = k
            BY <1>1, <1>3, <1>5
        <2>2. st[i + k] = t[j]
            BY <1>1, <1>3, <1>5
        <2> HIDE DEF j
        <2> QED
            BY <2>1, <2>2
    <1> QED
        BY <1>4, <1>5

LEMMA ContinuesShifted ==
    ASSUME NEW U,
           NEW how, NEW h, DataSize(h) \in Nat, NEW from \in Nat,
           NEW s \in Seq(U), NEW t \in Seq(U), NEW i \in Nat,
           Continues(how, h, from, t, i)
    PROVE  Continues(how, h, from, s \o t, Len(s) + i)
    <1> DEFINE st == s \o t
    <1>1. /\ Len(s) \in Nat /\ Len(t) \in Nat /\ Len(st) = Len(s) + Len(t)
          /\ \A k \in 1 .. Len(s) + Len(t) :
                 st[k] = IF k <= Len(s) THEN s[k] ELSE t[k - Len(s)]
        BY ConcatProperties, LenProperties
    <1> HIDE DEF st
    <1>2. SUFFICES ASSUME NEW k \in 1 .. DataSize(h) + 1 - from, (Len(s) + i) + k <= Len(st)
                   PROVE  Follows(how, h, from + k, st[(Len(s) + i) + k])
        BY DEF Continues, st
    <1>3. /\ (Len(s) + i) + k \in 1 .. Len(s) + Len(t)
          /\ ~((Len(s) + i) + k <= Len(s))
          /\ ((Len(s) + i) + k) - Len(s) = i + k
          /\ i + k <= Len(t)
        BY <1>1, <1>2
    <1>4. st[(Len(s) + i) + k] = t[i + k]
        BY <1>1, <1>3
    <1> QED
        BY <1>3, <1>4 DEF Continues

LEMMA FramesAfter ==
    ASSUME NEW U, NEW B, NEW H, Kinds(U, B, H),
           NEW how, NEW s \in Seq(U), Frames(how, s), NEW m \in Nat, m <= Len(s)
    PROVE  Frames(how, After(s, m))
    <1> DEFINE t == After(s, m)
    <1>1. /\ Len(s) \in Nat /\ Len(t) = Len(s) - m
          /\ \A k \in 1 .. Len(s) - m : t[k] = s[m + k]
        BY AfterProperties, LenProperties
    <1> HIDE DEF t
    <1>2. SUFFICES ASSUME NEW p \in 1 .. Len(t), IsHeader(t[p])
                   PROVE  Continues(how, t[p], 0, t, p)
        BY DEF Frames, t
    <1>3. m + p \in 1 .. Len(s) /\ t[p] = s[m + p] /\ p \in Nat
        BY <1>1
    <1>4. Continues(how, s[m + p], 0, s, m + p) /\ DataSize(s[m + p]) \in Nat
        BY <1>2, <1>3, InStream DEF Frames
    <1> QED
        BY <1>3, <1>4, ContinuesAfter DEF t

LEMMA FramesConcat ==
    ASSUME NEW U, NEW B, NEW H, Kinds(U, B, H),
           NEW how, NEW s \in Seq(U), NEW t \in Seq(U), Frames(how, s), Frames(how, t),
           \A p \in 1 .. Len(s) : IsHeader(s[p]) =>
               \A j \in 1 .. Len(t) :
                   (Len(s) - p) + j <= DataSize(s[p]) + 1 =>
                       Follows(how, s[p], (Len(s) - p) + j, t[j])
    PROVE  Frames(how, s \o t)
    <1> DEFINE st == s \o t
    <1>1. /\ Len(s) \in Nat /\ Len(t) \in Nat /\ Len(st) = Len(s) + Len(t)
          /\ \A k \in 1 .. Len(s) + Len(t) :
                 st[k] = IF k <= Len(s) THEN s[k] ELSE t[k - Len(s)]
        BY ConcatProperties, LenProperties
    <1> HIDE DEF st
    <1>2. SUFFICES ASSUME NEW p \in 1 .. Len(st), IsHeader(st[p])
                   PROVE  Continues(how, st[p], 0, st, p)
        BY DEF Frames, st
    <1>3. CASE p <= Len(s)
        <2>1. p \in 1 .. Len(s) /\ st[p] = s[p] /\ p \in Nat
            BY <1>1, <1>3
        <2>2. Continues(how, s[p], 0, s, p) /\ DataSize(s[p]) \in Nat
            BY <1>2, <2>1, InStream DEF Frames
        <2>3. \A j \in 1 .. Len(t) :
                 /\ ((Len(s) - p) + j <= DataSize(s[p]) + 1) <=>
                    ((Len(s) - p) + j <= DataSize(s[p]) + 1 - 0)
                 /\ (Len(s) - p) + j = 0 + ((Len(s) - p) + j)
            BY <1>1, <2>1, <2>2
        <2>4. \A j \in 1 .. Len(t) :
                 (Len(s) - p) + j <= DataSize(s[p]) + 1 - 0 =>
                     Follows(how, s[p], 0 + ((Len(s) - p) + j), t[j])
            BY <1>2, <2>1, <2>3
        <2>5. 0 \in Nat
            OBVIOUS
        <2> QED
            BY <1>3, <2>1, <2>2, <2>4, <2>5, ContinuesConcat DEF st
    <1>4. CASE ~(p <= Len(s))
        <2> DEFINE q == p - Len(s)
        <2>1. q \in 1 .. Len(t) /\ st[p] = t[q] /\ Len(s) + q = p /\ q \in Nat
            BY <1>1, <1>4
        <2> HIDE DEF q
        <2>2. Continues(how, t[q], 0, t, q) /\ DataSize(t[q]) \in Nat
            BY <1>2, <2>1, InStream DEF Frames
        <2>3. Continues(how, t[q], 0, s \o t, Len(s) + q)
            BY <2>1, <2>2, ContinuesShifted
        <2> QED
            BY <2>1, <2>3 DEF st
    <1> QED
        BY <1>3, <1>4

LEMMA OneUnit ==
    ASSUME NEW U, NEW B, NEW H, Kinds(U, B, H),
           NEW u \in U
    PROVE  /\ <<u>> \in Seq(U) /\ Len(<<u>>) = 1 /\ <<u>>[1] = u
           /\ \A how : Frames(how, <<u>>)
    <1>1. <<u>> \in Seq(U) /\ Len(<<u>>) = 1 /\ <<u>>[1] = u
        OBVIOUS
    <1>2. ASSUME NEW how, NEW p \in 1 .. Len(<<u>>), IsHeader(<<u>>[p])
          PROVE  Continues(how, <<u>>[p], 0, <<u>>, p)
        <2>1. p = 1
            BY <1>1
        <2> QED
            BY <1>1, <2>1 DEF Continues
    <1> QED
        BY <1>1, <1>2 DEF Frames

LEMMA DataOnly ==
    ASSUME NEW U, NEW B, NEW H, Kinds(U, B, H),
           NEW t \in Seq(B)
    PROVE  /\ t \in Seq(U)
           /\ Len(t) \in Nat
           /\ \A j \in 1 .. Len(t) : t[j] \in B /\ ~IsHeader(t[j])
           /\ \A how : Frames(how, t)
    <1>1. Len(t) \in Nat /\ \A j \in 1 .. Len(t) : t[j] \in B /\ ~IsHeader(t[j])
        BY LenProperties, KindsProperties
    <1>2. t \in Seq(U)
        BY KindsProperties, SeqMonotonic
    <1> QED
        BY <1>1, <1>2 DEF Frames

LEMMA HeaderAppended ==
    ASSUME NEW U, NEW B, NEW H, Kinds(U, B, H),
           NEW how, NEW s \in Seq(U), Frames(how, s), Complete(s, 0), NEW h \in H
    PROVE  /\ Append(s, h) \in Seq(U)
           /\ Append(s, h) = s \o <<h>>
           /\ Frames(how, Append(s, h))
           /\ Complete(Append(s, h), DataSize(h))
    <1>1. h \in U /\ IsHeader(h) /\ DataSize(h) \in Nat
        BY KindsProperties
    <1>2. /\ Append(s, h) \in Seq(U) /\ Len(Append(s, h)) = Len(s) + 1
          /\ \A i \in 1 .. Len(s) : Append(s, h)[i] = s[i]
          /\ Append(s, h)[Len(s) + 1] = h
        BY <1>1, AppendProperties
    <1>3. Append(s, h) = s \o <<h>>
        BY <1>1, AppendIsConcat
    <1>4. ASSUME NEW p \in 1 .. Len(s), IsHeader(s[p]), NEW j \in 1 .. Len(<<h>>)
          PROVE  Follows(how, s[p], (Len(s) - p) + j, <<h>>[j])
        <2>1. j = 1 /\ <<h>>[j] = h
            BY <1>1, OneUnit
        <2>2. DataSize(s[p]) \in Nat /\ p + DataSize(s[p]) <= Len(s) + 0 /\ Len(s) \in Nat
            BY <1>4, InStream DEF Complete
        <2>3. (Len(s) - p) + 1 > DataSize(s[p]) /\ ~((Len(s) - p) + 1 <= DataSize(s[p]))
            BY <2>2
        <2> QED
            BY <1>1, <2>1, <2>3 DEF Follows
    <1>5. Frames(how, s \o <<h>>)
        BY <1>1, <1>4, OneUnit, FramesConcat
    <1>6. ASSUME NEW p \in 1 .. Len(s) + 1, IsHeader(Append(s, h)[p])
          PROVE  p + DataSize(Append(s, h)[p]) <= (Len(s) + 1) + DataSize(h)
        <2>1. CASE p = Len(s) + 1
            <3>1. Append(s, h)[p] = h
                BY <1>2, <2>1
            <3> QED
                BY <1>1, <2>1, <3>1, InStream
        <2>2. CASE p # Len(s) + 1
            <3>1. p \in 1 .. Len(s) /\ Append(s, h)[p] = s[p]
                BY <1>2, <2>2, InStream
            <3>2. DataSize(s[p]) \in Nat /\ p + DataSize(s[p]) <= Len(s) + 0 /\ Len(s) \in Nat
                BY <1>6, <3>1, InStream DEF Complete
            <3> QED
                BY <1>1, <3>1, <3>2
        <2> QED
            BY <2>1, <2>2
    <1> QED
        BY <1>2, <1>3, <1>5, <1>6 DEF Complete

LEMMA DataAppended ==
    ASSUME NEW U, NEW B, NEW H, Kinds(U, B, H),
           NEW s \in Seq(U), Frames("somehow", s), NEW t \in Seq(B)
    PROVE  /\ s \o t \in Seq(U) /\ Len(s \o t) = Len(s) + Len(t)
           /\ Frames("somehow", s \o t)
           /\ Complete(s, Len(t)) => Complete(s \o t, 0)
    <1>1. s \o t \in Seq(U) /\ Len(s \o t) = Len(s) + Len(t)
          /\ \A k \in 1 .. Len(s) + Len(t) :
                 (s \o t)[k] = IF k <= Len(s) THEN s[k] ELSE t[k - Len(s)]
        BY DataOnly, ConcatProperties
    <1>2. Len(s) \in Nat /\ Len(t) \in Nat
        BY InStream, DataOnly
    <1>3. \A h, k : \A j \in 1 .. Len(t) : Follows("somehow", h, k, t[j])
        BY DataOnly DEF Follows
    <1>4. Frames("somehow", s \o t)
        BY <1>3, DataOnly, FramesConcat
    <1>5. ASSUME Complete(s, Len(t)),
                 NEW p \in 1 .. Len(s) + Len(t), IsHeader((s \o t)[p])
          PROVE  p + DataSize((s \o t)[p]) <= Len(s) + Len(t) + 0
        <2>1. CASE p <= Len(s)
            <3>1. p \in 1 .. Len(s) /\ (s \o t)[p] = s[p]
                BY <1>1, <1>2, <2>1
            <3>2. DataSize(s[p]) \in Nat /\ p + DataSize(s[p]) <= Len(s) + Len(t)
                BY <1>5, <3>1, InStream DEF Complete
            <3> QED
                BY <1>2, <3>1, <3>2
        <2>2. CASE ~(p <= Len(s))
            <3>1. p - Len(s) \in 1 .. Len(t) /\ (s \o t)[p] = t[p - Len(s)]
                BY <1>1, <1>2, <2>2
            <3> QED
                BY <1>5, <3>1, DataOnly
        <2> QED
            BY <2>1, <2>2
    <1> QED
        BY <1>1, <1>4, <1>5 DEF Complete

\* A header with all of its data.
LEMMA FrameAppended ==
    ASSUME NEW U, NEW B, NEW H, Kinds(U, B, H),
           NEW how, NEW s \in Seq(U), Frames(how, s), Complete(s, 0),
           NEW h \in H, NEW t \in Seq(B), Len(t) = DataSize(h),
           \A j \in 1 .. Len(t) : Follows(how, h, j, t[j])
    PROVE  Frames(how, (s \o <<h>>) \o t)
    <1> DEFINE a == Append(s, h)
    <1>1. h \in U /\ IsHeader(h) /\ DataSize(h) \in Nat
        BY KindsProperties
    <1>2. /\ a \in Seq(U) /\ Len(a) = Len(s) + 1
          /\ \A i \in 1 .. Len(s) : a[i] = s[i]
          /\ a[Len(s) + 1] = h
        BY <1>1, AppendProperties
    <1>3. a = s \o <<h>> /\ Frames(how, a)
        BY HeaderAppended
    <1>4. Len(s) \in Nat
        BY InStream
    <1> HIDE DEF a
    <1>5. ASSUME NEW p \in 1 .. Len(a), IsHeader(a[p]), NEW j \in 1 .. Len(t),
                 (Len(a) - p) + j <= DataSize(a[p]) + 1
          PROVE  Follows(how, a[p], (Len(a) - p) + j, t[j])
        <2>1. CASE p = Len(s) + 1
            <3>1. a[p] = h /\ (Len(a) - p) + j = j
                BY <1>2, <1>4, <2>1
            <3> QED
                BY <3>1
        <2>2. CASE p # Len(s) + 1
            <3>1. p \in 1 .. Len(s) /\ a[p] = s[p]
                BY <1>2, <1>4, <2>2
            <3>2. DataSize(s[p]) \in Nat /\ p + DataSize(s[p]) <= Len(s) + 0
                BY <1>5, <3>1, InStream DEF Complete
            <3>3. FALSE
                BY <1>2, <1>4, <1>5, <3>1, <3>2
            <3> QED
                BY <3>3
        <2> QED
            BY <2>1, <2>2
    <1>6. Frames(how, a \o t)
        BY <1>2, <1>3, <1>5, DataOnly, FramesConcat
    <1> QED
        BY <1>3, <1>6

LEMMA CompleteAfter ==
    ASSUME NEW U, NEW B, NEW H, Kinds(U, B, H),
           NEW s \in Seq(U), NEW owed \in Nat, Complete(s, owed), NEW m \in Nat, m <= Len(s)
    PROVE  Complete(After(s, m), owed)
    <1> DEFINE t == After(s, m)
    <1>1. /\ Len(s) \in Nat /\ Len(t) = Len(s) - m
          /\ \A k \in 1 .. Len(s) - m : t[k] = s[m + k]
        BY AfterProperties, LenProperties
    <1> HIDE DEF t
    <1>2. SUFFICES ASSUME NEW p \in 1 .. Len(t), IsHeader(t[p])
                   PROVE  p + DataSize(t[p]) <= Len(t) + owed
        BY DEF Complete, t
    <1>3. m + p \in 1 .. Len(s) /\ t[p] = s[m + p]
        BY <1>1
    <1>4. DataSize(s[m + p]) \in Nat /\ (m + p) + DataSize(s[m + p]) <= Len(s) + owed
        BY <1>2, <1>3, InStream DEF Complete
    <1> QED
        BY <1>1, <1>3, <1>4

(***************************************************************************)
(* Whole blocks on their way.                                              *)
(***************************************************************************)
LEMMA BlocksOf ==
    ASSUME NEW B, Block \in Nat \ {0},
           NEW data \in Seq(B)
    PROVE  /\ Len(data) \in Nat
           /\ Blocks(data) \in Nat /\ Rest(data) \in Nat /\ Rest(data) < Block
           /\ Place(Blocks(data)) \in Nat
           /\ Place(Blocks(data)) <= Len(data)
           /\ Len(data) = Place(Blocks(data)) + Rest(data)
           /\ Blocks(data) = Len(data) \div Block
           /\ Blocks(data) > 0 => Block <= Place(Blocks(data))
    <1>1. Len(data) \in Nat
        BY LenProperties
    <1>2. Blocks(data) \in Nat /\ Rest(data) \in Nat /\ Rest(data) < Block
          /\ Len(data) = Place(Blocks(data)) + Rest(data)
        BY <1>1, Division DEF Blocks, Rest
    <1>3. Place(Blocks(data)) \in Nat /\ Place(Blocks(data)) <= Len(data)
        BY <1>1, <1>2, PlaceNat
    <1> QED
        BY <1>1, <1>2, <1>3, PlaceNat DEF Blocks

LEMMA SentFollows ==
    ASSUME NEW U, NEW B, NEW H, Kinds(U, B, H), Block \in Nat \ {0},
           NEW c, NEW f, NEW data \in Seq(B),
           NEW h, h = <<c, f, Len(data)>>
    PROVE  /\ Sent(data) \in Seq(B) /\ Len(Sent(data)) = Len(data)
           /\ \A j \in 1 .. Len(data) : Follows("somehow", h, j, Sent(data)[j])
           /\ Whole(f, data, Place(Blocks(data))) =>
                  \A j \in 1 .. Len(data) : Follows("exactly", h, j, Sent(data)[j])
    <1> DEFINE b == Blocks(data)
               w == Place(b)
    <1>1. /\ Sent(data) \in Seq(B) /\ Len(Sent(data)) = Len(data)
          /\ \A k \in 1 .. w : Sent(data)[k] = data[k]
          /\ \A k \in 1 .. Rest(data) :
                 Sent(data)[w + k] = IF b = 0 THEN Junk ELSE data[Place(b - 1) + k]
        BY KindsProperties, SentProperties
    <1>2. Len(data) \in Nat /\ b \in Nat /\ Rest(data) \in Nat /\ Rest(data) < Block
          /\ w \in Nat /\ Len(data) = w + Rest(data) /\ (b > 0 => Block <= w)
          /\ Len(data) \div Block = b
        BY BlocksOf
    <1>3. DataSize(h) = Len(data) /\ FileName(h) = f
        BY DEF DataSize, FileName
    <1>4. \A j \in 1 .. Len(data) : ~IsHeader(Sent(data)[j])
        BY <1>1, DataOnly
    <1>5. \A j \in 1 .. Len(data) : Follows("somehow", h, j, Sent(data)[j])
        BY <1>4 DEF Follows
    <1>6. b > 0 => Place(b - 1) = w - Block
        BY <1>2, PlaceBefore
    <1> HIDE DEF b, w
    <1>7. ASSUME Whole(f, data, w), NEW j \in 1 .. Len(data)
          PROVE  Follows("exactly", h, j, Sent(data)[j])
        <2>1. j <= w => Sent(data)[j] = <<f, j>>
            BY <1>1, <1>2, <1>7 DEF Whole
        <2>2. ASSUME j > w, b > 0
              PROVE  Sent(data)[j] = <<f, j - Block>>
            <3>1. j - w \in 1 .. Rest(data) /\ w + (j - w) = j
                BY <1>2, <2>2
            <3>2. Place(b - 1) + (j - w) = j - Block /\ j - Block \in 1 .. w
                BY <1>2, <1>6, <2>2, <3>1
            <3>3. Sent(data)[j] = data[Place(b - 1) + (j - w)]
                BY <1>1, <1>2, <2>2, <3>1
            <3> QED
                BY <1>7, <3>2, <3>3 DEF Whole
        <2>3. Carries(f, Len(data), j, Sent(data)[j])
            BY <1>2, <2>1, <2>2 DEF Carries, w
        <2> QED
            BY <1>2, <1>3, <1>4, <2>3 DEF Follows
    <1> QED
        BY <1>1, <1>5, <1>7 DEF w, b

\* What recv got is data, whatever it took.
LEMMA PartIsData ==
    ASSUME NEW U, NEW B, NEW H, Kinds(U, B, H),
           NEW how, NEW h, DataSize(h) \in Nat, NEW from \in Nat, NEW s \in Seq(U),
           NEW m \in Nat, m <= Len(s), from + m <= DataSize(h),
           Continues(how, h, from, s, 0)
    PROVE  /\ \A k \in 1 .. m : s[k] \in B /\ Follows(how, h, from + k, s[k])
           /\ SubSeq(s, 1, m) \in Seq(B)
           /\ Len(SubSeq(s, 1, m)) = m
           /\ \A k \in 1 .. m : SubSeq(s, 1, m)[k] = s[k]
    <1>1. \A k \in 1 .. m : k \in 1 .. DataSize(h) + 1 - from /\ 0 + k <= Len(s) /\ 0 + k = k
                            /\ from + k <= DataSize(h) /\ k \in 1 .. Len(s)
        BY InStream
    <1>2. \A k \in 1 .. m : Follows(how, h, from + k, s[k])
        BY <1>1 DEF Continues
    <1>3. \A k \in 1 .. m : s[k] \in B
        BY <1>1, <1>2, InStream, KindsProperties DEF Follows
    <1> QED
        BY <1>2, <1>3, PartProperties

\* A block that is received whole and in its place.
LEMMA BlockRight ==
    ASSUME NEW U, NEW B, NEW H, Kinds(U, B, H), Block \in Nat \ {0},
           NEW c, NEW f, NEW buf \in Seq(B),
           NEW h, h = <<c, f, Len(buf)>>,
           NEW i \in Nat, i < Blocks(buf), NEW s \in Seq(U), Block <= Len(s),
           Continues("exactly", h, Place(i), s, 0), Whole(f, buf, Place(i))
    PROVE  Whole(f, Stored(buf, i, SubSeq(s, 1, Block)), Place(i + 1))
    <1> DEFINE part == SubSeq(s, 1, Block)
               new == Stored(buf, i, part)
               w == Place(Blocks(buf))
    <1>1. w \in Nat /\ w <= Len(buf) /\ Len(buf) \in Nat /\ Blocks(buf) \in Nat
          /\ Blocks(buf) = Len(buf) \div Block
        <2>1. /\ w \in Nat /\ Len(buf) \in Nat /\ Blocks(buf) \in Nat /\ Rest(buf) \in Nat
              /\ Len(buf) = w + Rest(buf) /\ Blocks(buf) = Len(buf) \div Block
            BY BlocksOf
        <2> QED
            BY <2>1
    <1>2. /\ Place(i) \in Nat /\ Place(i) \in Int
          /\ Place(i) + Block <= w /\ Place(i + 1) = Place(i) + Block
        BY <1>1, PlaceNat, PlaceNext, PlacesInOrder
    <1>3. DataSize(h) = Len(buf) /\ FileName(h) = f
        BY DEF DataSize, FileName
    <1>4. Place(i) + Block <= DataSize(h)
        BY <1>1, <1>2, <1>3
    <1>5. /\ part \in Seq(B) /\ Len(part) = Block
          /\ \A k \in 1 .. Block : part[k] = s[k] /\ Follows("exactly", h, Place(i) + k, s[k])
        BY <1>1, <1>2, <1>3, <1>4, PartIsData
    <1> HIDE DEF part
    <1>6. Replaced(new, buf, Place(i), part)
        <2>1. Place(i) \in Int /\ part \in Seq(B)
            BY <1>2, <1>5
        <2> HIDE DEF part
        <2> QED
            BY <2>1, StoredProperties
    <1> HIDE DEF new, w
    <1>7. ASSUME NEW k \in 1 .. Block
          PROVE  s[k] = <<f, Place(i) + k>>
        <2>1. Place(i) + k <= DataSize(h) /\ Place(i) + k <= w
            BY <1>1, <1>2, <1>4, <1>3
        <2>2. Carries(f, Len(buf), Place(i) + k, s[k])
            BY <1>3, <1>5, <2>1 DEF Follows
        <2> QED
            BY <1>1, <2>1, <2>2 DEF Carries, w
    <1>8. ASSUME NEW k \in 1 .. Place(i) + Block
          PROVE  new[k] = <<f, k>>
        <2>1. k \in 1 .. Len(buf)
            BY <1>1, <1>2
        <2>2. CASE k <= Place(i)
            <3>1. k \in 1 .. Place(i)
                BY <1>2, <2>2
            <3> QED
                BY <1>6, <2>1, <2>2, <3>1 DEF Whole, Replaced
        <2>3. CASE k > Place(i)
            <3>1. PICK j \in 1 .. Block : Place(i) + j = k
                <4>1. k - Place(i) \in 1 .. Block /\ Place(i) + (k - Place(i)) = k
                    BY <1>2, <2>3
                <4> QED
                    BY <4>1
            <3>2. new[Place(i) + j] = part[j]
                BY <1>5, <1>6, <2>1, <3>1 DEF Replaced
            <3> QED
                BY <1>5, <1>7, <3>1, <3>2
        <2> QED
            BY <1>2, <2>2, <2>3
    <1> QED
        BY <1>2, <1>8 DEF Whole, new, part

\* The rest that is received into the block before it is the start of that
\* block over again.
LEMMA RestRight ==
    ASSUME NEW U, NEW B, NEW H, Kinds(U, B, H), Block \in Nat \ {0},
           NEW c, NEW f, NEW buf \in Seq(B),
           NEW h, h = <<c, f, Len(buf)>>,
           NEW s \in Seq(U), NEW m \in Nat, m <= Len(s), m <= Rest(buf),
           Continues("exactly", h, Place(Blocks(buf)), s, 0),
           Whole(f, buf, Place(Blocks(buf)))
    PROVE  LET new == Stored(buf, Blocks(buf) - 1, SubSeq(s, 1, m))
           IN  Whole(f, new, Place(Blocks(new)))
    <1> DEFINE b == Blocks(buf)
               part == SubSeq(s, 1, m)
               w == Place(b)
               new == Stored(buf, b - 1, part)
    <1>1. /\ b \in Nat /\ w \in Nat
          /\ Rest(buf) \in Nat /\ Rest(buf) < Block
          /\ Len(buf) \in Nat /\ Len(buf) = w + Rest(buf)
          /\ b = Len(buf) \div Block
          /\ b > 0 => Block <= w
        BY BlocksOf
    <1>2. Place(b - 1) = w - Block /\ w - Block \in Int /\ Place(b - 1) \in Int
        <2>1. Place(b - 1) = w - Block
            BY <1>1, PlaceBefore, Zenon
        <2> QED
            BY <1>1, <2>1
    <1>3. b = 0 => w = 0
        BY PlaceNat
    <1>4. DataSize(h) = Len(buf) /\ FileName(h) = f
        BY DEF DataSize, FileName
    <1>5. w + m <= DataSize(h)
        BY <1>1, <1>4
    <1>6. /\ part \in Seq(B) /\ Len(part) = m
          /\ \A k \in 1 .. m : part[k] = s[k] /\ Follows("exactly", h, w + k, s[k])
        BY <1>1, <1>4, <1>5, PartIsData
    <1> HIDE DEF part
    <1>7. Replaced(new, buf, Place(b - 1), part)
        <2>1. Place(b - 1) \in Int /\ part \in Seq(B)
            BY <1>2, <1>6
        <2> HIDE DEF part
        <2> QED
            BY <2>1, StoredProperties
    <1>8. Blocks(new) = b
        BY <1>1, <1>7 DEF Blocks, Replaced
    <1> HIDE DEF new, w, b
    <1>9. ASSUME b > 0, NEW k \in 1 .. w
          PROVE  new[k] = <<f, k>>
        <2>1. k \in 1 .. Len(buf)
            BY <1>1
        <2>2. PICK j \in Int : k = Place(b - 1) + j /\ k = (w - Block) + j
            <3>1. w - Block \in Int /\ k \in Int
                BY <1>1, <1>2
            <3>2. k = (w - Block) + (k - (w - Block)) /\ k - (w - Block) \in Int
                BY <3>1
            <3> QED
                BY <1>2, <3>2
        <2>3. CASE j \in 1 .. m
            <3>1. (w + j) - Block = k /\ w + j > w /\ w + j <= Len(buf) /\ ~(w + j <= w)
                <4>1. w \in Nat /\ Rest(buf) \in Nat /\ Len(buf) = w + Rest(buf)
                    BY <1>1
                <4>2. k = (w - Block) + j /\ Block \in Nat
                    BY <2>2
                <4>3. j \in Nat /\ j >= 1 /\ j <= Rest(buf)
                    BY <2>3, <4>1
                <4> QED
                    BY <4>1, <4>2, <4>3
            <3>2. Carries(f, Len(buf), w + j, s[j])
                BY <1>4, <1>6, <2>3, <3>1 DEF Follows
            <3>3. s[j] = <<f, (w + j) - Block>>
                BY <1>1, <1>9, <3>1, <3>2 DEF Carries, w
            <3> QED
                BY <1>6, <1>7, <2>1, <2>2, <2>3, <3>1, <3>3 DEF Replaced
        <2>4. CASE j \notin 1 .. m
            <3>1. k <= Place(b - 1) \/ k > Place(b - 1) + m
                BY <1>2, <2>2, <2>4
            <3>2. new[k] = buf[k]
                BY <1>6, <1>7, <2>1, <3>1 DEF Replaced
            <3> QED
                BY <3>2 DEF Whole, w, b
        <2> QED
            BY <2>3, <2>4
    <1>10. b = 0 \/ b > 0
        BY <1>1
    <1>11. \A k \in 1 .. w : new[k] = <<f, k>>
        BY <1>3, <1>9, <1>10
    <1> QED
        BY <1>8, <1>11 DEF Whole, new, part, w, b

\* Storing a part of a stream leaves as many blocks as there were.
LEMMA StoredType ==
    ASSUME NEW B,
           NEW buf \in Seq(B), NEW part \in Seq(B), NEW i \in Int, Place(i) \in Int
    PROVE  /\ Stored(buf, i, part) \in Seq(B)
           /\ Len(Stored(buf, i, part)) = Len(buf)
           /\ Blocks(Stored(buf, i, part)) = Blocks(buf)
    <1>1. Stored(buf, i, part) \in Seq(B) /\ Replaced(Stored(buf, i, part), buf, Place(i), part)
        BY StoredProperties
    <1> QED
        BY <1>1 DEF Replaced, Blocks

LEMMA HeadProperties ==
    ASSUME NEW U,
           NEW s \in Seq(U), s # <<>>
    PROVE  /\ Len(s) \in Nat /\ Len(s) >= 1 /\ 1 \in 1 .. Len(s)
           /\ Head(s) = s[1] /\ Head(s) \in U
           /\ Tail(s) = After(s, 1) /\ Tail(s) \in Seq(U) /\ Len(Tail(s)) = Len(s) - 1
    <1>1. Len(s) \in Nat /\ Len(s) >= 1 /\ 1 \in 1 .. Len(s)
        BY EmptySeq, LenProperties
    <1>2. Head(s) = s[1] /\ Head(s) \in U
        BY HeadTailProperties
    <1>3. Tail(s) \in Seq(U) /\ Len(Tail(s)) = Len(s) - 1
          /\ \A k \in 1 .. Len(Tail(s)) : Tail(s)[k] = s[k + 1]
        BY HeadTailProperties
    <1>4. After(s, 1) \in Seq(U) /\ Len(After(s, 1)) = Len(s) - 1
          /\ \A k \in 1 .. Len(s) - 1 : After(s, 1)[k] = s[1 + k]
        BY <1>1, AfterProperties
    <1>5. \A k \in 1 .. Len(s) - 1 : Tail(s)[k] = After(s, 1)[k]
        BY <1>1, <1>3, <1>4
    <1>6. Tail(s) = After(s, 1)
        BY <1>1, <1>3, <1>4, <1>5, SeqEqual
    <1> QED
        BY <1>1, <1>2, <1>3, <1>6

(***************************************************************************)
(* The steps that receive data.                                            *)
(***************************************************************************)
LEMMA BlockReceived ==
    ASSUME NEW U, NEW B, NEW H, Kinds(U, B, H), Block \in Nat \ {0},
           NEW buf \in Seq(B), NEW h, DataSize(h) = Len(buf),
           NEW i \in Nat, i < Blocks(buf), NEW s \in Seq(U), NEW ended \in BOOLEAN,
           NEW m \in Lengths(s, Block, ended), Continues("somehow", h, Place(i), s, 0)
    PROVE  /\ m \in Nat /\ m <= Block /\ m <= Len(s)
           /\ Stored(buf, i, SubSeq(s, 1, m)) \in Seq(B)
           /\ Len(Stored(buf, i, SubSeq(s, 1, m))) = Len(buf)
           /\ Blocks(Stored(buf, i, SubSeq(s, 1, m))) = Blocks(buf)
           /\ i + 1 <= Blocks(buf) /\ Place(i + 1) = Place(i) + Block /\ Place(i) \in Nat
           /\ Place(i) + Block <= Len(buf)
           /\ Continues("somehow", h, Place(i + 1), After(s, m), 0)
    <1>1. m \in Nat /\ m <= Block /\ m <= Len(s)
        BY LengthsProperties
    <1>2. /\ Len(buf) \in Nat /\ Blocks(buf) \in Nat /\ Place(Blocks(buf)) \in Nat
          /\ Place(Blocks(buf)) <= Len(buf)
        <2>1. /\ Place(Blocks(buf)) \in Nat /\ Len(buf) \in Nat /\ Blocks(buf) \in Nat
              /\ Rest(buf) \in Nat /\ Len(buf) = Place(Blocks(buf)) + Rest(buf)
            BY BlocksOf
        <2> QED
            BY <2>1
    <1>3. Place(i) \in Nat /\ Place(i) + Block <= Place(Blocks(buf)) /\ Place(i + 1) = Place(i) + Block
        BY <1>2, PlaceNat, PlaceNext, PlacesInOrder
    <1>4. i + 1 <= Blocks(buf)
        BY <1>2
    <1>5. DataSize(h) = Len(buf)
        OBVIOUS
    <1>6. Place(i) + m <= DataSize(h) /\ Place(i) + Block <= Len(buf)
        BY <1>1, <1>2, <1>3, <1>5
    <1>7. SubSeq(s, 1, m) \in Seq(B)
        BY <1>1, <1>2, <1>3, <1>5, <1>6, PartIsData
    <1>8. /\ Stored(buf, i, SubSeq(s, 1, m)) \in Seq(B)
          /\ Len(Stored(buf, i, SubSeq(s, 1, m))) = Len(buf)
          /\ Blocks(Stored(buf, i, SubSeq(s, 1, m))) = Blocks(buf)
        <2>1. i \in Int /\ Place(i) \in Int
            BY <1>3
        <2> QED
            BY <1>7, <2>1, StoredType
    <1>9. Continues("somehow", h, Place(i) + Block, After(s, m), 0)
        BY <1>1, <1>2, <1>3, <1>5, ContinuesShort
    <1> QED
        BY <1>1, <1>3, <1>4, <1>6, <1>8, <1>9

LEMMA RestReceived ==
    ASSUME NEW U, NEW B, NEW H, Kinds(U, B, H), Block \in Nat \ {0},
           NEW buf \in Seq(B), NEW h, DataSize(h) = Len(buf),
           NEW s \in Seq(U), NEW ended \in BOOLEAN,
           NEW m \in Lengths(s, Rest(buf), ended),
           Continues("somehow", h, Place(Blocks(buf)), s, 0)
    PROVE  /\ m \in Nat /\ m <= Rest(buf) /\ m <= Len(s)
           /\ Rest(buf) \in Nat /\ Place(Blocks(buf)) \in Nat
           /\ Len(buf) = Place(Blocks(buf)) + Rest(buf)
           /\ Stored(buf, Blocks(buf) - 1, SubSeq(s, 1, m)) \in Seq(B)
    <1>1. /\ Len(buf) \in Nat /\ Blocks(buf) \in Nat /\ Place(Blocks(buf)) \in Nat
          /\ Rest(buf) \in Nat /\ Len(buf) = Place(Blocks(buf)) + Rest(buf)
        BY BlocksOf
    <1>2. m \in Nat /\ m <= Rest(buf) /\ m <= Len(s)
        BY <1>1, LengthsProperties
    <1>3. DataSize(h) = Len(buf)
        OBVIOUS
    <1>4. Place(Blocks(buf)) + m <= DataSize(h)
        BY <1>1, <1>2, <1>3
    <1>5. SubSeq(s, 1, m) \in Seq(B)
        BY <1>1, <1>2, <1>3, <1>4, PartIsData
    <1>6. Blocks(buf) - 1 \in Int /\ Place(Blocks(buf) - 1) \in Int
        <2>1. Place(Blocks(buf) - 1) = Place(Blocks(buf)) - Block
            BY <1>1, PlaceBefore, Zenon
        <2> QED
            BY <1>1, <2>1
    <1>7. Stored(buf, Blocks(buf) - 1, SubSeq(s, 1, m)) \in Seq(B)
        BY <1>5, <1>6, StoredType
    <1> QED
        BY <1>1, <1>2, <1>7

LEMMA BytesReceived ==
    ASSUME NEW U, NEW B, NEW H, Kinds(U, B, H), Block \in Nat \ {0},
           NEW buf \in Seq(B), NEW s \in Seq(U), NEW n \in Nat, NEW ended \in BOOLEAN,
           NEW m \in Lengths(s, n, ended), ~MeetsHeader(s, m)
    PROVE  /\ m \in Nat /\ m <= Len(s)
           /\ \A k \in 1 .. m : ~IsHeader(s[k])
           /\ Stored(buf, Blocks(buf) - 1, SubSeq(s, 1, m)) \in Seq(B)
    <1>1. m \in Nat /\ m <= Len(s) /\ Len(s) \in Nat
        BY LengthsProperties, LenProperties
    <1>2. \A k \in 1 .. m : k <= Len(s) /\ k \in 1 .. Len(s)
        BY <1>1
    <1>3. \A k \in 1 .. m : ~IsHeader(s[k])
        BY <1>2 DEF MeetsHeader
    <1>4. \A k \in 1 .. m : s[k] \in B
        BY <1>2, <1>3, InStream, KindsProperties
    <1>5. SubSeq(s, 1, m) \in Seq(B)
        BY <1>1, <1>4, PartProperties
    <1>6. Blocks(buf) - 1 \in Int /\ Place(Blocks(buf) - 1) \in Int
        <2>1. Blocks(buf) \in Nat /\ Place(Blocks(buf)) \in Nat
            BY BlocksOf
        <2>2. Place(Blocks(buf) - 1) = Place(Blocks(buf)) - Block
            BY <2>1, PlaceBefore, Zenon
        <2> QED
            BY <2>1, <2>2
    <1>7. Stored(buf, Blocks(buf) - 1, SubSeq(s, 1, m)) \in Seq(B)
        BY <1>5, <1>6, StoredType
    <1> QED
        BY <1>1, <1>3, <1>7
=============================================================================
