-------------------------- MODULE ChatClientProofs --------------------------
(***************************************************************************)
(* Theorems about ChatClient: for any files, messages, sizes, block length *)
(* and number of commands.                                                 *)
(***************************************************************************)
EXTENDS ChatClient, BlockLoopProofs

Unit == Byte \cup Header

\* get_handler has something to send until it returns.
Sending == spc = "send" => out # <<>>

(***************************************************************************)
(* Units of a stream, names and files.                                     *)
(***************************************************************************)
LEMMA ByteProperties ==
    /\ Junk \in Byte
    /\ \A u \in Byte : ~IsHeader(u)
    /\ \A x \in Name, k \in Nat : <<x, k>> \in Byte
    <1>1. Junk \in Byte /\ \A u \in Byte : ~IsHeader(u)
        BY DEF Byte, Junk, IsHeader
    <1>2. \A x \in Name, k \in Nat : <<x, k>> \in Byte
        BY DEF Byte
    <1> QED
        BY <1>1, <1>2

LEMMA HeaderProperties ==
    \A u \in Header :
        /\ IsHeader(u)
        /\ Command(u) \in {"PUT", "GET", "SENDMSG", "ERROR"}
        /\ FileName(u) \in Name
        /\ DataSize(u) \in Nat
        /\ u = <<Command(u), FileName(u), DataSize(u)>>
    BY DEF Header, IsHeader, Command, FileName, DataSize

LEMMA MadeHeader ==
    ASSUME NEW c \in {"PUT", "GET", "SENDMSG", "ERROR"}, NEW x \in Name, NEW n \in Nat
    PROVE  /\ <<c, x, n>> \in Header /\ <<c, x, n>> \in Unit
           /\ IsHeader(<<c, x, n>>)
           /\ Command(<<c, x, n>>) = c
           /\ FileName(<<c, x, n>>) = x
           /\ DataSize(<<c, x, n>>) = n
    BY DEF Header, Unit, IsHeader, Command, FileName, DataSize

LEMMA UnitProperties ==
    \A u \in Unit : /\ IsHeader(u) => u \in Header
                    /\ ~IsHeader(u) => u \in Byte
    BY ByteProperties, HeaderProperties DEF Unit

LEMMA UnitKinds == Kinds(Unit, Byte, Header)
    BY ByteProperties, HeaderProperties DEF Unit, Kinds

LEMMA BlockNat == Block \in Nat /\ Block > 0 /\ Block \in Nat \ {0}
    BY ClientAssumption

LEMMA Names ==
    /\ \A f \in File : f \in Name
    /\ \A x \in Text : x \in Name /\ Size[x] < Block
    /\ \A x \in Peer : x \in Name /\ Size[x] < Block
    /\ \A x \in Name : Size[x] \in Nat
    BY ClientAssumption DEF Name

LEMMA NoHeaderProperties ==
    /\ NoHeader \in Header /\ IsHeader(NoHeader)
    /\ Command(NoHeader) = "ERROR" /\ FileName(NoHeader) \in File /\ DataSize(NoHeader) = 0
    <1>1. (CHOOSE f \in File : TRUE) \in File
        BY ClientAssumption
    <1> DEFINE g == CHOOSE f \in File : TRUE
    <1>2. g \in Name
        BY <1>1, Names
    <1>3. NoHeader = <<"ERROR", g, 0>> /\ 0 \in Nat
        BY DEF NoHeader
    <1> HIDE DEF g
    <1>4. FileName(NoHeader) = g
        BY <1>3 DEF FileName
    <1>5. NoHeader \in Header /\ IsHeader(NoHeader) /\ Command(NoHeader) = "ERROR"
          /\ DataSize(NoHeader) = 0
        BY <1>2, <1>3, MadeHeader
    <1> QED
        BY <1>1, <1>4, <1>5 DEF g

LEMMA OriginalProperties ==
    ASSUME NEW x \in Name
    PROVE  /\ Original(x) \in Seq(Byte) /\ Len(Original(x)) = Size[x]
           /\ \A k \in 1 .. Size[x] : Original(x)[k] = <<x, k>>
    <1>1. Size[x] \in Nat
        BY Names
    <1>2. Original(x) \in [1 .. Size[x] -> Byte]
        BY ByteProperties DEF Original
    <1> QED
        BY <1>1, <1>2, FunctionIsSeq DEF Original

\* What follows a text in memory does not disturb it.
LEMMA TailType ==
    ASSUME NEW tail \in Tails
    PROVE  tail \in Seq(Byte)
    <1>1. \A b \in Byte : <<b>> \in Seq(Byte)
        OBVIOUS
    <1>2. Junk \in Byte /\ <<>> \in Seq(Byte)
        BY DEF Byte
    <1> QED
        BY <1>1, <1>2 DEF Tails

LEMMA TailFollows ==
    ASSUME NEW S, NEW a \in Seq(S), NEW t \in Seq(S)
    PROVE  SubSeq(a \o t, 1, Len(a)) = a
    <1>1. /\ a \o t \in Seq(S) /\ Len(a) \in Nat /\ Len(t) \in Nat
          /\ Len(a \o t) = Len(a) + Len(t)
          /\ \A k \in 1 .. Len(a) : (a \o t)[k] = a[k]
        BY LenProperties, ConcatProperties
    <1> DEFINE c == a \o t
    <1> HIDE DEF c
    <1>2. /\ SubSeq(c, 1, Len(a)) \in Seq(S) /\ Len(SubSeq(c, 1, Len(a))) = Len(a)
          /\ \A k \in 1 .. Len(a) : SubSeq(c, 1, Len(a))[k] = c[k]
        BY <1>1, SubSeqProperties DEF c
    <1>3. SubSeq(c, 1, Len(a)) = a
        BY <1>1, <1>2, SeqEqual DEF c
    <1> QED
        BY <1>3 DEF c

LEMMA Types ==
    ASSUME TypeOK
    PROVE  /\ c2s \in Seq(Unit) /\ s2c \in Seq(Unit)
           /\ Len(c2s) \in Nat /\ Len(s2c) \in Nat
           /\ cname \in Name /\ cbuf \in Seq(Byte) /\ ci \in Nat
           /\ smsg \in Header /\ sbuf \in Seq(Byte) /\ si \in Nat
           /\ wmsg \in Header
           /\ Len(cbuf) \in Nat /\ Len(sbuf) \in Nat
           /\ Place(ci) \in Nat /\ Place(si) \in Nat
           /\ ClientGone \in BOOLEAN /\ ServerGone \in BOOLEAN
    <1>1. /\ c2s \in Seq(Unit) /\ s2c \in Seq(Unit)
          /\ cname \in Name /\ cbuf \in Seq(Byte) /\ ci \in Nat
          /\ smsg \in Header /\ sbuf \in Seq(Byte) /\ si \in Nat
          /\ wmsg \in Header
        BY DEF TypeOK, Unit
    <1>2. Len(c2s) \in Nat /\ Len(s2c) \in Nat /\ Len(cbuf) \in Nat /\ Len(sbuf) \in Nat
        BY <1>1, LenProperties
    <1>3. Place(ci) \in Nat /\ Place(si) \in Nat
        BY <1>1, BlockNat, PlaceNat
    <1> QED
        BY <1>1, <1>2, <1>3 DEF ClientGone, ServerGone

LEMMA DiskType ==
    ASSUME TypeOK, NEW h \in Host, NEW x \in Name
    PROVE  disk[h][x] \in Seq(Byte) /\ Len(disk[h][x]) \in Nat
    <1>1. disk[h][x] \in Seq(Byte)
        BY DEF TypeOK
    <1> QED
        BY <1>1, LenProperties

LEMMA Hosts == "client" \in Host /\ "server" \in Host /\ "client" # "server"
    BY DEF Host

LEMMA SaveFileDoes ==
    ASSUME TypeOK, NEW h \in Host, NEW x \in Name, NEW data \in Seq(Byte), SaveFile(h, x, data)
    PROVE  /\ stored' \in [Host -> SUBSET Name]
           /\ disk' \in [Host -> [Name -> Seq(Byte)]]
           /\ disk'[h][x] = data
           /\ \A g \in Host, y \in Name : <<g, y>> # <<h, x>> => disk'[g][y] = disk[g][y]
    BY DEF TypeOK, SaveFile

LEMMA EmptyData ==
    /\ <<>> \in Seq(Byte) /\ Len(<<>>) = 0 /\ Blocks(<<>>) = 0
    /\ Place(0) = 0
    /\ <<>> \in Seq(Unit)
    <1>1. <<>> \in Seq(Byte) /\ Len(<<>>) = 0 /\ <<>> \in Seq(Unit)
        BY EmptySeq
    <1>2. Place(0) = 0
        BY BlockNat, PlaceNat
    <1>3. 0 \div Block = 0
        BY BlockNat
    <1> QED
        BY <1>1, <1>2, <1>3 DEF Blocks

LEMMA FreshType ==
    ASSUME NEW h \in Header
    PROVE  /\ Fresh(DataSize(h)) \in Seq(Byte) /\ Len(Fresh(DataSize(h))) = DataSize(h)
           /\ Blocks(Fresh(DataSize(h))) \in Nat
           /\ 0 \in 0 .. Blocks(Fresh(DataSize(h)))
    <1>1. DataSize(h) \in Nat
        BY HeaderProperties
    <1>2. Fresh(DataSize(h)) \in Seq(Byte) /\ Len(Fresh(DataSize(h))) = DataSize(h)
        BY <1>1, ByteProperties, FreshProperties
    <1>3. Blocks(Fresh(DataSize(h))) \in Nat
        BY <1>2, BlockNat, BlocksOf
    <1> QED
        BY <1>2, <1>3

\* What a recv does to the history variable short.
LEMMA AskedDoes ==
    ASSUME NEW h \in Host, NEW n \in Nat, NEW m \in Nat, short \subseteq Host, Asked(h, n, m)
    PROVE  /\ short' \subseteq Host
           /\ short \subseteq short'
           /\ h \notin short' => h \notin short /\ m >= n
           /\ \A g \in Host : g # h => (g \in short' <=> g \in short)
    <1>1. CASE m < n
        BY <1>1 DEF Asked
    <1>2. CASE ~(m < n)
        BY <1>2 DEF Asked
    <1> QED
        BY <1>1, <1>2

(***************************************************************************)
(* What is sent and received has the types of streams and buffers.         *)
(***************************************************************************)
LEMMA HeaderSent ==
    ASSUME NEW s \in Seq(Unit), NEW h \in Header
    PROVE  Append(s, h) \in Seq(Unit)
    BY AppendProperties DEF Unit

LEMMA FrameSent ==
    ASSUME NEW s \in Seq(Unit), NEW h \in Header, NEW t \in Seq(Byte)
    PROVE  (s \o <<h>>) \o t \in Seq(Unit)
    <1>1. h \in Unit
        BY DEF Unit
    <1>2. s \o <<h>> \in Seq(Unit)
        BY <1>1, ConcatProperties
    <1>3. t \in Seq(Unit)
        BY UnitKinds, DataOnly
    <1> QED
        BY <1>2, <1>3, ConcatProperties

LEMMA StreamTaken ==
    ASSUME NEW s \in Seq(Unit), s # <<>>
    PROVE  /\ Len(s) \in Nat /\ Len(s) >= 1 /\ 1 \in 1 .. Len(s)
           /\ Head(s) = s[1] /\ Head(s) \in Unit
           /\ IsHeader(Head(s)) => Head(s) \in Header
           /\ Tail(s) = After(s, 1) /\ Tail(s) \in Seq(Unit) /\ Len(Tail(s)) = Len(s) - 1
    BY HeadProperties, UnitProperties

\* A recv takes bytes, and changes neither the length of the buffer they go to
\* nor its number of blocks.
LEMMA Received ==
    ASSUME NEW buf \in Seq(Byte), NEW s \in Seq(Unit), NEW n \in Nat, NEW ended \in BOOLEAN,
           NEW m \in Lengths(s, n, ended), ~MeetsHeader(s, m),
           NEW i \in Int, Place(i) \in Int
    PROVE  /\ m \in Nat /\ m <= n /\ m <= Len(s)
           /\ \A k \in 1 .. m : k \in 1 .. Len(s) /\ s[k] \in Byte /\ ~IsHeader(s[k])
           /\ SubSeq(s, 1, m) \in Seq(Byte)
           /\ Len(SubSeq(s, 1, m)) = m
           /\ \A k \in 1 .. m : SubSeq(s, 1, m)[k] = s[k]
           /\ Stored(buf, i, SubSeq(s, 1, m)) \in Seq(Byte)
           /\ Len(Stored(buf, i, SubSeq(s, 1, m))) = Len(buf)
           /\ Blocks(Stored(buf, i, SubSeq(s, 1, m))) = Blocks(buf)
           /\ After(s, m) \in Seq(Unit)
           /\ Len(After(s, m)) = Len(s) - m
    <1>1. m \in Nat /\ m <= n /\ m <= Len(s) /\ Len(s) \in Nat
        BY LengthsProperties, LenProperties
    <1>2. \A k \in 1 .. m : k <= Len(s) /\ k \in 1 .. Len(s)
        BY <1>1
    <1>3. \A k \in 1 .. m : ~IsHeader(s[k])
        BY <1>2 DEF MeetsHeader
    <1>4. \A k \in 1 .. m : s[k] \in Byte
        BY <1>2, <1>3, LenProperties, UnitProperties
    <1>5. /\ SubSeq(s, 1, m) \in Seq(Byte)
          /\ Len(SubSeq(s, 1, m)) = m
          /\ \A k \in 1 .. m : SubSeq(s, 1, m)[k] = s[k]
        BY <1>1, <1>4, PartProperties
    <1>6. /\ Stored(buf, i, SubSeq(s, 1, m)) \in Seq(Byte)
          /\ Len(Stored(buf, i, SubSeq(s, 1, m))) = Len(buf)
          /\ Blocks(Stored(buf, i, SubSeq(s, 1, m))) = Blocks(buf)
        BY <1>5, StoredType
    <1>7. After(s, m) \in Seq(Unit) /\ Len(After(s, m)) = Len(s) - m
        BY <1>1, AfterProperties
    <1> QED
        BY <1>1, <1>2, <1>3, <1>4, <1>5, <1>6, <1>7

LEMMA PlaceOfRest ==
    ASSUME NEW buf \in Seq(Byte)
    PROVE  /\ Rest(buf) \in Nat
           /\ Blocks(buf) \in Nat /\ Place(Blocks(buf)) \in Nat
           /\ Blocks(buf) - 1 \in Int /\ Place(Blocks(buf) - 1) \in Int
           /\ Place(Blocks(buf) - 1) = Place(Blocks(buf)) - Block
    <1>1. Blocks(buf) \in Nat /\ Place(Blocks(buf)) \in Nat /\ Rest(buf) \in Nat
        BY BlocksOf, BlockNat
    <1>2. Place(Blocks(buf) - 1) = Place(Blocks(buf)) - Block
        BY <1>1, BlockNat, PlaceBefore, Zenon
    <1> QED
        BY <1>1, <1>2, BlockNat

\* What a put sends.
PutOf(f) == <<"PUT", f, Len(disk["client"][f])>>
PutData(f) == Sent(disk["client"][f])

LEMMA PutSends ==
    ASSUME TypeOK, NEW f \in File
    PROVE  /\ PutOf(f) \in Header /\ PutOf(f) \in Unit /\ IsHeader(PutOf(f))
           /\ Command(PutOf(f)) = "PUT"
           /\ FileName(PutOf(f)) = f
           /\ DataSize(PutOf(f)) = Len(disk["client"][f]) /\ DataSize(PutOf(f)) \in Nat
           /\ PutData(f) \in Seq(Byte) /\ Len(PutData(f)) = DataSize(PutOf(f))
    <1>1. disk["client"][f] \in Seq(Byte) /\ Len(disk["client"][f]) \in Nat /\ f \in Name
        BY DiskType, Hosts, Names
    <1>2. /\ PutOf(f) \in Header /\ IsHeader(PutOf(f)) /\ Command(PutOf(f)) = "PUT"
          /\ PutOf(f) \in Unit
          /\ FileName(PutOf(f)) = f
          /\ DataSize(PutOf(f)) = Len(disk["client"][f])
        BY <1>1, MadeHeader DEF PutOf
    <1>3. PutData(f) \in Seq(Byte) /\ Len(PutData(f)) = Len(disk["client"][f])
        BY <1>1, BlockNat, ByteProperties, SentProperties DEF PutData
    <1> QED
        BY <1>1, <1>2, <1>3

\* What a message is sent as.
Announced(x) == <<"SENDMSG", x, Size[x]>>

LEMMA MessageSends ==
    ASSUME NEW x \in Name
    PROVE  /\ Announced(x) \in Header /\ Announced(x) \in Unit /\ IsHeader(Announced(x))
           /\ Command(Announced(x)) = "SENDMSG"
           /\ FileName(Announced(x)) = x
           /\ DataSize(Announced(x)) = Size[x]
           /\ Original(x) \in Seq(Byte) /\ Len(Original(x)) = Size[x] /\ Size[x] \in Nat
           /\ \A k \in 1 .. Size[x] : Original(x)[k] = <<x, k>>
    <1>1. Size[x] \in Nat
        BY Names
    <1>2. /\ Announced(x) \in Header /\ Announced(x) \in Unit /\ IsHeader(Announced(x))
          /\ Command(Announced(x)) = "SENDMSG"
          /\ FileName(Announced(x)) = x
          /\ DataSize(Announced(x)) = Size[x]
        BY <1>1, MadeHeader DEF Announced
    <1> QED
        BY <1>1, <1>2, OriginalProperties

LEMMA GetSends ==
    ASSUME NEW f \in Name, NEW data \in Seq(Byte)
    PROVE  /\ <<"GET", f, Len(data)>> \in Header
           /\ FileName(<<"GET", f, Len(data)>>) = f
           /\ DataSize(<<"GET", f, Len(data)>>) = Len(data)
    <1>1. Len(data) \in Nat
        BY LenProperties
    <1> QED
        BY <1>1, MadeHeader

LEMMA ErrorSends ==
    ASSUME NEW x \in Name
    PROVE  /\ <<"ERROR", x, 1>> \in Header /\ <<"ERROR", x, 1>> \in Unit
           /\ IsHeader(<<"ERROR", x, 1>>) /\ Command(<<"ERROR", x, 1>>) = "ERROR"
    <1>1. 1 \in Nat
        OBVIOUS
    <1> QED
        BY <1>1, MadeHeader

LEMMA CommandsType ==
    ASSUME TypeOK, Typed
    PROVE  commands' \in 0 .. MaxCommand
    BY ClientAssumption DEF TypeOK, Typed

(***************************************************************************)
(* The sends of a file.                                                    *)
(***************************************************************************)
LEMMA ChunksProperties ==
    ASSUME NEW B, Junk \in B, NEW data \in Seq(B)
    PROVE  /\ Chunks(data) \in Seq(Seq(B))
           /\ Len(Chunks(data)) = Blocks(data) + 1
           /\ \A i \in 1 .. Blocks(data) :
                  /\ Len(Chunks(data)[i]) = Block
                  /\ \A k \in 1 .. Block : Chunks(data)[i][k] = Sent(data)[Place(i - 1) + k]
           /\ Len(Chunks(data)[Blocks(data) + 1]) = Rest(data)
           /\ \A k \in 1 .. Rest(data) :
                  Chunks(data)[Blocks(data) + 1][k] = Sent(data)[Place(Blocks(data)) + k]
    <1> DEFINE b == Blocks(data)
               t == Sent(data)
               From(i) == Place(i - 1) + 1
               To(i) == IF i <= b THEN Place(i) ELSE Len(t)
    <1>1. /\ Len(data) \in Nat /\ b \in Nat /\ Rest(data) \in Nat /\ Place(b) \in Nat
          /\ Len(data) = Place(b) + Rest(data)
        BY BlockNat, BlocksOf
    <1>2. t \in Seq(B) /\ Len(t) = Len(data)
        BY BlockNat, SentProperties
    <1>3. \A k \in 1 .. Len(t) : t[k] \in B
        BY <1>2, LenProperties
    <1>4. Chunks(data) = [i \in 1 .. b + 1 |-> SubSeq(t, From(i), To(i))]
        BY DEF Chunks, Place
    <1> HIDE DEF b, t
    <1>5. ASSUME NEW i \in 1 .. b
          PROVE  /\ From(i) = Place(i - 1) + 1 /\ To(i) = Place(i - 1) + Block
                 /\ Place(i - 1) \in Nat /\ Place(i - 1) + Block <= Len(t)
        <2>1. i - 1 \in Nat /\ i - 1 < b /\ (i - 1) + 1 = i
            BY <1>1
        <2>2. Place(i - 1) \in Nat /\ Place((i - 1) + 1) = Place(i - 1) + Block
              /\ Place(i - 1) + Block <= Place(b)
            BY <1>1, <2>1, BlockNat, PlaceNat, PlaceNext, PlacesInOrder
        <2>3. Place(i) = Place(i - 1) + Block
            BY <2>1, <2>2
        <2> QED
            BY <1>1, <1>2, <2>2, <2>3, BlockNat
    <1>6. /\ From(b + 1) = Place(b) + 1 /\ To(b + 1) = Place(b) + Rest(data)
        <2>1. (b + 1) - 1 = b /\ ~(b + 1 <= b)
            BY <1>1
        <2> QED
            BY <1>1, <1>2, <2>1
    <1> HIDE DEF From, To
    <1>7. ASSUME NEW i \in 1 .. b
          PROVE  /\ SubSeq(t, From(i), To(i)) \in Seq(B)
                 /\ Len(SubSeq(t, From(i), To(i))) = Block
                 /\ \A k \in 1 .. Block : SubSeq(t, From(i), To(i))[k] = t[Place(i - 1) + k]
        <2> DEFINE p == Place(i - 1)
        <2>1. p \in Nat /\ p + Block <= Len(t) /\ From(i) = p + 1 /\ To(i) = p + Block
            BY <1>5
        <2> HIDE DEF p
        <2>2. p + 1 \in Int /\ p + Block \in Int /\ \A k \in p + 1 .. p + Block : t[k] \in B
            BY <1>2, <1>3, <2>1, BlockNat
        <2>3. /\ SubSeq(t, p + 1, p + Block) \in Seq(B)
              /\ Len(SubSeq(t, p + 1, p + Block)) = Block
              /\ \A k \in 1 .. Block : SubSeq(t, p + 1, p + Block)[k] = t[p + k]
            BY <1>2, <2>1, <2>2, BlockNat, SubSeqProperties
        <2> QED
            BY <2>1, <2>3 DEF p
    <1>8. /\ SubSeq(t, From(b + 1), To(b + 1)) \in Seq(B)
          /\ Len(SubSeq(t, From(b + 1), To(b + 1))) = Rest(data)
          /\ \A k \in 1 .. Rest(data) : SubSeq(t, From(b + 1), To(b + 1))[k] = t[Place(b) + k]
        <2> DEFINE p == Place(b)
                   r == Rest(data)
        <2>1. p \in Nat /\ r \in Nat /\ p + r <= Len(t) /\ From(b + 1) = p + 1 /\ To(b + 1) = p + r
            BY <1>1, <1>2, <1>6
        <2> HIDE DEF p, r
        <2>2. p + 1 \in Int /\ p + r \in Int /\ \A k \in p + 1 .. p + r : t[k] \in B
            BY <1>2, <1>3, <2>1
        <2>3. /\ SubSeq(t, p + 1, p + r) \in Seq(B)
              /\ Len(SubSeq(t, p + 1, p + r)) = r
              /\ \A k \in 1 .. r : SubSeq(t, p + 1, p + r)[k] = t[p + k]
            BY <1>2, <2>1, <2>2, SubSeqProperties
        <2> QED
            BY <2>1, <2>3 DEF p, r
    <1>9. \A i \in 1 .. b + 1 : i \in 1 .. b \/ i = b + 1
        BY <1>1
    <1>10. \A i \in 1 .. b + 1 : SubSeq(t, From(i), To(i)) \in Seq(B)
        BY <1>7, <1>8, <1>9
    <1>11. Chunks(data) \in [1 .. b + 1 -> Seq(B)]
        BY <1>4, <1>10
    <1>12. b + 1 \in Nat /\ b + 1 \in 1 .. b + 1 /\ \A i \in 1 .. b : i \in 1 .. b + 1
        BY <1>1
    <1>13. Chunks(data) \in Seq(Seq(B)) /\ Len(Chunks(data)) = b + 1
        BY <1>11, <1>12, FunctionIsSeq
    <1>14. /\ \A i \in 1 .. b : Chunks(data)[i] = SubSeq(t, From(i), To(i))
           /\ Chunks(data)[b + 1] = SubSeq(t, From(b + 1), To(b + 1))
        BY <1>4, <1>12
    <1> QED
        BY <1>7, <1>8, <1>13, <1>14 DEF b, t

\* What get_handler sends of a file.
Answer(f, data) == <<<<<<"GET", f, Len(data)>>>>>> \o Chunks(data)

LEMMA AnswerType ==
    ASSUME NEW f \in Name, NEW data \in Seq(Byte)
    PROVE  /\ Answer(f, data) \in Seq(Seq(Unit))
           /\ Len(Answer(f, data)) = Blocks(data) + 2
           /\ Answer(f, data) # <<>>
           /\ Answer(f, data)[1] = <<<<"GET", f, Len(data)>>>>
           /\ \A i \in 1 .. Blocks(data) + 1 : Answer(f, data)[i + 1] = Chunks(data)[i]
    <1> DEFINE h == <<"GET", f, Len(data)>>
    <1>1. Len(data) \in Nat /\ Blocks(data) \in Nat
        BY BlockNat, BlocksOf
    <1>2. h \in Unit
        BY <1>1, MadeHeader
    <1> HIDE DEF h
    <1>3. <<h>> \in Seq(Unit)
        BY <1>2
    <1>4. <<<<h>>>> \in Seq(Seq(Unit)) /\ Len(<<<<h>>>>) = 1 /\ <<<<h>>>>[1] = <<h>>
        BY <1>3
    <1>5. Chunks(data) \in Seq(Seq(Byte)) /\ Len(Chunks(data)) = Blocks(data) + 1
        BY ByteProperties, ChunksProperties
    <1>6. \A t \in Seq(Byte) : t \in Seq(Unit)
        BY UnitKinds, DataOnly
    <1>7. Chunks(data) \in Seq(Seq(Unit))
        BY <1>5, <1>6, SeqMonotonic
    <1>8. /\ Answer(f, data) \in Seq(Seq(Unit))
          /\ Len(Answer(f, data)) = 1 + (Blocks(data) + 1)
          /\ \A i \in 1 .. 1 + (Blocks(data) + 1) :
                 Answer(f, data)[i] = IF i <= 1 THEN <<<<h>>>>[i] ELSE Chunks(data)[i - 1]
        BY <1>4, <1>5, <1>7, ConcatProperties DEF Answer, h
    <1>9. Len(Answer(f, data)) = Blocks(data) + 2 /\ Blocks(data) + 2 # 0
        BY <1>1, <1>8
    <1>10. Answer(f, data)[1] = <<h>>
        BY <1>1, <1>4, <1>8
    <1>11. ASSUME NEW i \in 1 .. Blocks(data) + 1
           PROVE  Answer(f, data)[i + 1] = Chunks(data)[i]
        <2>1. i + 1 \in 1 .. 1 + (Blocks(data) + 1) /\ ~(i + 1 <= 1) /\ (i + 1) - 1 = i
            BY <1>1
        <2> QED
            BY <1>8, <2>1
    <1> QED
        BY <1>8, <1>9, <1>10, <1>11, EmptySeq DEF h

(***************************************************************************)
(* Types.                                                                  *)
(***************************************************************************)
LEMMA TypeInit == Init => TypeOK /\ Sending
    <1> SUFFICES ASSUME Init PROVE TypeOK /\ Sending
        OBVIOUS
    <1>1. stored \in [Host -> SUBSET Name]
        <2>1. OnServer \in SUBSET Name /\ File \ OnServer \in SUBSET Name
            BY ClientAssumption, Names
        <2> QED
            BY <2>1 DEF Init
    <1>2. disk \in [Host -> [Name -> Seq(Byte)]]
        <2>1. \A h \in Host, x \in Name :
                  (IF x \in stored[h] THEN Original(x) ELSE <<>>) \in Seq(Byte)
            BY OriginalProperties, EmptyData
        <2> QED
            BY <2>1 DEF Init
    <1>3. cname \in Name /\ wmsg \in Header /\ smsg \in Header
        BY NoHeaderProperties, Names DEF Init
    <1>4. 0 \in 0 .. MaxCommand /\ commands = 0
        BY ClientAssumption DEF Init
    <1>5. /\ c2s \in Seq(Unit) /\ s2c \in Seq(Unit) /\ cbuf \in Seq(Byte) /\ sbuf \in Seq(Byte)
          /\ 0 \in 0 .. Blocks(cbuf) /\ 0 \in 0 .. Blocks(sbuf) /\ ci = 0 /\ si = 0
        BY EmptyData DEF Init
    <1>6. /\ out \in Seq(Seq(Byte \cup Header))
          /\ typed \in Seq(Text) /\ forwarded \in Seq(Name \X Seq(Byte))
          /\ delivered \in Seq(Peer) /\ shown \in Seq(Name \X Seq(Byte))
        BY EmptySeq DEF Init
    <1> QED
        BY <1>1, <1>2, <1>3, <1>4, <1>5, <1>6 DEF Init, TypeOK, Unit, Sending

LEMMA TypeConsole ==
    ASSUME TypeOK, Sending, Type
    PROVE  TypeOK' /\ Sending'
    <1> USE DEF files, console, waiting, thread, input
    <1>1. ASSUME NEW f \in File, comm_put(f)
          PROVE  TypeOK' /\ Sending'
        <2>1. commands' \in 0 .. MaxCommand
            BY <1>1, CommandsType DEF comm_put
        <2>2. c2s' = (c2s \o <<PutOf(f)>>) \o PutData(f)
            BY <1>1 DEF comm_put, PutOf, PutData
        <2>3. c2s' \in Seq(Unit)
            BY <2>2, Types, PutSends, FrameSent
        <2> QED
            BY <1>1, <2>1, <2>3 DEF comm_put, TypeOK, Unit, Sending
    <1>2. ASSUME NEW f \in File, comm_put_Missing(f)
          PROVE  TypeOK' /\ Sending'
        <2>1. commands' \in 0 .. MaxCommand
            BY <1>2, CommandsType DEF comm_put_Missing
        <2>2. PICK size \in 0 .. Block : c2s' = Append(c2s, <<"PUT", f, size>>)
            BY <1>2 DEF comm_put_Missing
        <2>3. <<"PUT", f, size>> \in Header
            BY <2>2, BlockNat, Names, MadeHeader
        <2>4. c2s' \in Seq(Unit)
            BY <2>2, <2>3, Types, HeaderSent
        <2> QED
            BY <1>2, <2>1, <2>4 DEF comm_put_Missing, TypeOK, Unit, Sending
    <1>3. ASSUME NEW f \in File, comm_get(f)
          PROVE  TypeOK' /\ Sending'
        <2>1. commands' \in 0 .. MaxCommand
            BY <1>3, CommandsType DEF comm_get
        <2>2. <<"GET", f, 0>> \in Header
            BY Names, MadeHeader
        <2>3. c2s' \in Seq(Unit)
            BY <1>3, <2>2, Types, HeaderSent DEF comm_get
        <2> QED
            BY <1>3, <2>1, <2>3 DEF comm_get, TypeOK, Unit, Sending
    <1>4. ASSUME NEW t \in Text, comm_sendmsg(t)
          PROVE  TypeOK' /\ Sending'
        <2>1. commands' \in 0 .. MaxCommand
            BY <1>4, CommandsType DEF comm_sendmsg
        <2>2. c2s' = (c2s \o <<Announced(t)>>) \o Original(t)
            BY <1>4 DEF comm_sendmsg, Announced
        <2>3. c2s' \in Seq(Unit)
            BY <2>2, Types, Names, MessageSends, FrameSent
        <2>4. typed' \in Seq(Text)
            <3>1. typed \in Seq(Text)
                BY DEF TypeOK
            <3> QED
                BY <1>4, <3>1, AppendProperties DEF comm_sendmsg
        <2> QED
            BY <1>4, <2>1, <2>3, <2>4 DEF comm_sendmsg, TypeOK, Unit, Sending
    <1>5. CASE Quit
        BY <1>5 DEF Quit, TypeOK, Sending
    <1> QED
        BY <1>1, <1>2, <1>3, <1>4, <1>5 DEF Type

LEMMA CrossedType ==
    \A A : crossed \in BOOLEAN /\ crossed' = (crossed \/ A) => crossed' \in BOOLEAN
    OBVIOUS

LEMMA TypeGet ==
    ASSUME TypeOK, Sending, Get
    PROVE  TypeOK' /\ Sending'
    <1> USE DEF files, console, waiting, thread, input
    <1>0. crossed \in BOOLEAN /\ short \subseteq Host
        BY DEF TypeOK
    <1>1. CASE GetHeader
        <2>1. s2c # <<>> /\ IsHeader(Head(s2c))
            BY <1>1 DEF GetHeader
        <2>2. Head(s2c) \in Header /\ Tail(s2c) \in Seq(Unit)
            BY <2>1, Types, StreamTaken
        <2>3. FileName(Head(s2c)) \in Name
            BY <2>2, HeaderProperties
        <2>4. /\ cbuf' \in Seq(Byte) /\ ci' \in 0 .. Blocks(cbuf')
            BY <1>1, <2>2, FreshType DEF GetHeader
        <2>5. crossed' \in BOOLEAN
            BY <1>0, <1>1, CrossedType DEF GetHeader
        <2> QED
            BY <1>1, <2>2, <2>3, <2>4, <2>5 DEF GetHeader, TypeOK, Unit, Sending
    <1>2. CASE GetNoFile
        BY <1>2 DEF GetNoFile, TypeOK, Sending
    <1>3. CASE GetBlock
        <2>1. PICK m \in Lengths(s2c, Block, ServerGone) :
                  /\ ~MeetsHeader(s2c, m)
                  /\ cbuf' = Stored(cbuf, ci, SubSeq(s2c, 1, m))
                  /\ s2c' = After(s2c, m)
                  /\ Asked("client", Block, m)
                  /\ crossed' = (crossed \/ \E k \in 1 .. m : IsMessage(s2c[k]))
            BY <1>3 DEF GetBlock
        <2>2. ci \in Int /\ Place(ci) \in Int
            BY Types
        <2>3. /\ m \in Nat /\ cbuf' \in Seq(Byte) /\ Blocks(cbuf') = Blocks(cbuf)
              /\ s2c' \in Seq(Unit)
            BY <2>1, <2>2, Types, BlockNat, Received
        <2>4. short' \subseteq Host
            BY <1>0, <2>1, <2>3, BlockNat, Hosts, AskedDoes
        <2>5. crossed' \in BOOLEAN
            BY <1>0, <2>1, CrossedType
        <2>6. ci' \in 0 .. Blocks(cbuf')
            <3>1. ci' = ci + 1 /\ ci < Blocks(cbuf) /\ ci \in Nat /\ Blocks(cbuf) \in Nat
                BY <1>3, Types, BlocksOf, BlockNat DEF GetBlock
            <3> QED
                BY <2>3, <3>1
        <2> QED
            BY <1>3, <2>3, <2>4, <2>5, <2>6 DEF GetBlock, TypeOK, Unit, Sending
    <1>4. CASE GetRest
        <2>1. PICK m \in Lengths(s2c, Rest(cbuf), ServerGone) :
                  /\ ~MeetsHeader(s2c, m)
                  /\ s2c' = After(s2c, m)
                  /\ Asked("client", Rest(cbuf), m)
                  /\ crossed' = (crossed \/ \E k \in 1 .. m : IsMessage(s2c[k]))
                  /\ \/ /\ SaveFile("client", cname, Stored(cbuf, ci - 1, SubSeq(s2c, 1, m)))
                        /\ cpc' = "console" /\ cbuf' = <<>> /\ ci' = 0
                        /\ UNCHANGED client
                     \/ /\ ci = 0 /\ m > 0
                        /\ client' = "faulted"
                        /\ UNCHANGED <<files, cpc, cbuf, ci>>
            BY <1>4 DEF GetRest
        <2>2. ci = Blocks(cbuf)
            BY <1>4 DEF GetRest
        <2>3. ci - 1 \in Int /\ Place(ci - 1) \in Int /\ Rest(cbuf) \in Nat
            BY <2>2, Types, PlaceOfRest
        <2>4. /\ m \in Nat /\ Stored(cbuf, ci - 1, SubSeq(s2c, 1, m)) \in Seq(Byte)
              /\ s2c' \in Seq(Unit)
            BY <2>1, <2>3, Types, Received
        <2>5. short' \subseteq Host
            BY <1>0, <2>1, <2>3, <2>4, Hosts, AskedDoes
        <2>6. crossed' \in BOOLEAN
            BY <1>0, <2>1, CrossedType
        <2>7. CASE /\ SaveFile("client", cname, Stored(cbuf, ci - 1, SubSeq(s2c, 1, m)))
                   /\ cpc' = "console" /\ cbuf' = <<>> /\ ci' = 0
                   /\ UNCHANGED client
            <3>1. stored' \in [Host -> SUBSET Name] /\ disk' \in [Host -> [Name -> Seq(Byte)]]
                BY <2>4, <2>7, Types, Hosts, SaveFileDoes
            <3>2. cbuf' \in Seq(Byte) /\ ci' \in 0 .. Blocks(cbuf')
                BY <2>7, EmptyData
            <3> QED
                BY <1>4, <2>4, <2>5, <2>6, <2>7, <3>1, <3>2 DEF GetRest, TypeOK, Unit, Sending
        <2>8. CASE /\ ci = 0 /\ m > 0
                   /\ client' = "faulted"
                   /\ UNCHANGED <<files, cpc, cbuf, ci>>
            BY <1>4, <2>4, <2>5, <2>6, <2>8 DEF GetRest, TypeOK, Unit, Sending
        <2> QED
            BY <2>1, <2>7, <2>8
    <1>5. CASE GetGarbled
        <2>1. crossed' \in BOOLEAN
            BY <1>0, <1>5 DEF GetGarbled
        <2> QED
            BY <1>5, <2>1 DEF GetGarbled, TypeOK, Sending
    <1> QED
        BY <1>1, <1>2, <1>3, <1>4, <1>5 DEF Get

LEMMA TypeWait ==
    ASSUME TypeOK, Sending, comm_waitmsg \/ PartOfHeader
    PROVE  TypeOK' /\ Sending'
    <1> USE DEF files, console, waiting, thread, input
    <1>0. crossed \in BOOLEAN /\ short \subseteq Host
        BY DEF TypeOK
    <1>1. CASE WaitHeader
        <2>1. s2c # <<>> /\ IsHeader(Head(s2c))
            BY <1>1 DEF WaitHeader
        <2>2. Head(s2c) \in Header /\ Tail(s2c) \in Seq(Unit)
            BY <2>1, Types, StreamTaken
        <2>3. crossed' \in BOOLEAN
            BY <1>0, <1>1, CrossedType DEF WaitHeader
        <2> QED
            BY <1>1, <2>2, <2>3 DEF WaitHeader, TypeOK, Unit, Sending
    <1>2. CASE WaitData
        <2> DEFINE buf == Fresh(DataSize(wmsg))
        <2>1. PICK m \in Lengths(s2c, DataSize(wmsg), ServerGone), tail \in Tails :
                  /\ ~MeetsHeader(s2c, m)
                  /\ shown' = Append(shown, <<FileName(wmsg),
                                              Stored(buf, 0, SubSeq(s2c, 1, m)) \o tail>>)
                  /\ s2c' = After(s2c, m)
                  /\ Asked("client", DataSize(wmsg), m)
                  /\ crossed' = (crossed \/ \E k \in 1 .. m : ~IsMessage(s2c[k]))
            BY <1>2 DEF WaitData
        <2>2. /\ buf \in Seq(Byte) /\ 0 \in Int /\ Place(0) \in Int
              /\ DataSize(wmsg) \in Nat /\ FileName(wmsg) \in Name
            BY Types, FreshType, EmptyData, HeaderProperties
        <2> HIDE DEF buf
        <2>3. m \in Nat /\ Stored(buf, 0, SubSeq(s2c, 1, m)) \in Seq(Byte) /\ s2c' \in Seq(Unit)
            BY <2>1, <2>2, Types, Received
        <2>4. shown' \in Seq(Name \X Seq(Byte))
            <3>1. <<FileName(wmsg), Stored(buf, 0, SubSeq(s2c, 1, m)) \o tail>> \in Name \X Seq(Byte)
                BY <2>2, <2>3, TailType, ConcatProperties
            <3>2. shown \in Seq(Name \X Seq(Byte))
                BY DEF TypeOK
            <3> QED
                BY <2>1, <3>1, <3>2, AppendProperties
        <2>5. short' \subseteq Host
            BY <1>0, <2>1, <2>2, <2>3, Hosts, AskedDoes
        <2>6. crossed' \in BOOLEAN
            BY <1>0, <2>1, CrossedType
        <2>7. wmsg' \in Header
            BY <1>2, NoHeaderProperties DEF WaitData
        <2> QED
            BY <1>2, <2>3, <2>4, <2>5, <2>6, <2>7 DEF WaitData, TypeOK, Unit, Sending
    <1>3. CASE WaitGarbled
        <2>1. crossed' \in BOOLEAN
            BY <1>0, <1>3 DEF WaitGarbled
        <2> QED
            BY <1>3, <2>1 DEF WaitGarbled, TypeOK, Sending
    <1>4. CASE WaitEnd
        BY <1>4 DEF WaitEnd, TypeOK, Sending
    <1>5. CASE PartOfHeader
        BY <1>5, Hosts DEF PartOfHeader, TypeOK, Sending
    <1> QED
        BY <1>1, <1>2, <1>3, <1>4, <1>5 DEF comm_waitmsg

LEMMA TypeParse ==
    ASSUME TypeOK, Sending, parse_msg \/ PartOfCommand
    PROVE  TypeOK' /\ Sending'
    <1> USE DEF files, console, waiting, thread, input
    <1>0. short \subseteq Host
        BY DEF TypeOK
    <1>1. CASE ParseHeader
        <2>1. c2s # <<>> /\ IsHeader(Head(c2s))
            BY <1>1 DEF ParseHeader
        <2>2. Head(c2s) \in Header /\ Tail(c2s) \in Seq(Unit)
            BY <2>1, Types, StreamTaken
        <2>3. sbuf' \in Seq(Byte) /\ si' \in 0 .. Blocks(sbuf')
            BY <1>1, <2>2, FreshType DEF ParseHeader
        <2> QED
            BY <1>1, <2>2, <2>3 DEF ParseHeader, TypeOK, Unit, Sending
    <1>2. CASE ParseBlock
        <2>1. PICK m \in Lengths(c2s, Block, ClientGone) :
                  /\ ~MeetsHeader(c2s, m)
                  /\ sbuf' = Stored(sbuf, si, SubSeq(c2s, 1, m))
                  /\ c2s' = After(c2s, m)
                  /\ Asked("server", Block, m)
            BY <1>2 DEF ParseBlock
        <2>2. si \in Int /\ Place(si) \in Int
            BY Types
        <2>3. /\ m \in Nat /\ sbuf' \in Seq(Byte) /\ Blocks(sbuf') = Blocks(sbuf)
              /\ c2s' \in Seq(Unit)
            BY <2>1, <2>2, Types, BlockNat, Received
        <2>4. short' \subseteq Host
            BY <1>0, <2>1, <2>3, BlockNat, Hosts, AskedDoes
        <2>5. si' \in 0 .. Blocks(sbuf')
            <3>1. si' = si + 1 /\ si < Blocks(sbuf) /\ si \in Nat /\ Blocks(sbuf) \in Nat
                BY <1>2, Types, BlocksOf, BlockNat DEF ParseBlock
            <3> QED
                BY <2>3, <3>1
        <2> QED
            BY <1>2, <2>3, <2>4, <2>5 DEF ParseBlock, TypeOK, Unit, Sending
    <1>3. CASE ParseRest
        <2>1. PICK m \in Lengths(c2s, Rest(sbuf), ClientGone) :
                  /\ ~MeetsHeader(c2s, m)
                  /\ sbuf' = Stored(sbuf, RestBlock, SubSeq(c2s, 1, m))
                  /\ c2s' = After(c2s, m)
                  /\ Asked("server", Rest(sbuf), m)
            BY <1>3 DEF ParseRest
        <2>2. si = Blocks(sbuf) /\ si' = si
            BY <1>3 DEF ParseRest
        <2>3. RestBlock \in Int /\ Place(RestBlock) \in Int /\ Rest(sbuf) \in Nat
            <3>1. /\ si - 1 \in Int /\ Place(si - 1) \in Int /\ Rest(sbuf) \in Nat
                  /\ 0 \in Int /\ Place(0) \in Int
                BY <2>2, Types, PlaceOfRest, EmptyData
            <3>2. RestBlock = 0 \/ RestBlock = si - 1
                BY DEF RestBlock
            <3> QED
                BY <3>1, <3>2
        <2>4. /\ m \in Nat /\ sbuf' \in Seq(Byte) /\ Blocks(sbuf') = Blocks(sbuf)
              /\ c2s' \in Seq(Unit)
            BY <2>1, <2>3, Types, Received
        <2>5. short' \subseteq Host
            BY <1>0, <2>1, <2>3, <2>4, Hosts, AskedDoes
        <2>6. si' \in 0 .. Blocks(sbuf')
            BY <2>2, <2>4 DEF TypeOK
        <2> QED
            BY <1>3, <2>4, <2>5, <2>6 DEF ParseRest, TypeOK, Unit, Sending
    <1>4. CASE ParseGarbled
        BY <1>4 DEF ParseGarbled, TypeOK, Sending
    <1>5. CASE PartOfCommand
        BY <1>5, Hosts DEF PartOfCommand, TypeOK, Sending
    <1> QED
        BY <1>1, <1>2, <1>3, <1>4, <1>5 DEF parse_msg

LEMMA ParsedType ==
    ASSUME Parsed
    PROVE  smsg' \in Header /\ sbuf' \in Seq(Byte) /\ si' \in 0 .. Blocks(sbuf')
    <1>1. sbuf' = <<>> /\ si' = 0 /\ smsg' = NoHeader
        BY DEF Parsed
    <1>2. Blocks(sbuf') = 0
        BY <1>1, EmptyData
    <1> QED
        BY <1>1, <1>2, NoHeaderProperties, EmptyData

LEMMA TypeHandle ==
    ASSUME TypeOK, Sending,
           sendmsg_handler \/ put_handler \/ put_handler_Fails \/ get_handler \/ SendChunk \/ CloseConn
    PROVE  TypeOK' /\ Sending'
    <1> USE DEF files, console, waiting, thread, input
    <1>0. FileName(smsg) \in Name /\ sbuf \in Seq(Byte)
        BY Types, HeaderProperties
    <1>1. CASE sendmsg_handler
        <2>1. forwarded' \in Seq(Name \X Seq(Byte))
            <3>1. forwarded \in Seq(Name \X Seq(Byte)) /\ <<FileName(smsg), sbuf>> \in Name \X Seq(Byte)
                BY <1>0 DEF TypeOK
            <3> QED
                BY <1>1, <3>1, AppendProperties DEF sendmsg_handler
        <2>2. Parsed
            BY <1>1 DEF sendmsg_handler
        <2> QED
            BY <1>1, <2>1, <2>2, ParsedType DEF sendmsg_handler, TypeOK, Sending
    <1>2. CASE put_handler
        <2>1. stored' \in [Host -> SUBSET Name] /\ disk' \in [Host -> [Name -> Seq(Byte)]]
            BY <1>0, <1>2, Hosts, SaveFileDoes DEF put_handler
        <2>2. Parsed
            BY <1>2 DEF put_handler
        <2> QED
            BY <1>2, <2>1, <2>2, ParsedType DEF put_handler, TypeOK, Sending
    <1>3. CASE put_handler_Fails
        <2>1. s2c' \in Seq(Unit)
            BY <1>0, <1>3, Types, ErrorSends, HeaderSent DEF put_handler_Fails
        <2>2. Parsed
            BY <1>3 DEF put_handler_Fails
        <2> QED
            BY <1>3, <2>1, <2>2, ParsedType DEF put_handler_Fails, TypeOK, Unit, Sending
    <1>4. CASE get_handler
        <2> DEFINE f == FileName(smsg)
                   data == disk["server"][f]
        <2>1. Parsed
            BY <1>4 DEF get_handler
        <2>2. data \in Seq(Byte)
            BY <1>0, Hosts, DiskType
        <2>3. CASE f \in stored["server"]
            <3>1. out' = Answer(f, data) /\ spc' = "send" /\ s2c' = s2c
                BY <1>4, <2>3 DEF get_handler, Answer
            <3>2. out' \in Seq(Seq(Unit)) /\ out' # <<>>
                BY <1>0, <2>2, <3>1, AnswerType
            <3> QED
                BY <1>4, <2>1, <3>1, <3>2, ParsedType DEF get_handler, TypeOK, Unit, Sending
        <2>4. CASE f \notin stored["server"]
            <3>1. s2c' = Append(s2c, <<"ERROR", f, 1>>) /\ spc' = "closed" /\ out' = out
                BY <1>4, <2>4 DEF get_handler
            <3>2. s2c' \in Seq(Unit)
                BY <1>0, <3>1, Types, ErrorSends, HeaderSent
            <3> QED
                BY <1>4, <2>1, <3>1, <3>2, ParsedType DEF get_handler, TypeOK, Unit, Sending
        <2> QED
            BY <2>3, <2>4
    <1>5. CASE SendChunk
        <2>1. out \in Seq(Seq(Unit)) /\ out # <<>>
            BY <1>5 DEF SendChunk, TypeOK, Unit, Sending
        <2>2. Head(out) \in Seq(Unit) /\ Tail(out) \in Seq(Seq(Unit))
            BY <2>1, HeadTailProperties
        <2>3. s2c' \in Seq(Unit) /\ out' \in Seq(Seq(Unit))
            BY <1>5, <2>2, Types, ConcatProperties DEF SendChunk
        <2>4. spc' = IF out' = <<>> THEN "command" ELSE "send"
            BY <1>5 DEF SendChunk
        <2> QED
            BY <1>5, <2>3, <2>4 DEF SendChunk, TypeOK, Unit, Sending
    <1>6. CASE CloseConn
        <2>1. /\ c2s' \in Seq(Unit) /\ out' \in Seq(Seq(Byte \cup Header))
              /\ spc' = "closed" /\ Parsed
            BY <1>6, EmptyData, EmptySeq DEF CloseConn
        <2> QED
            BY <1>6, <2>1, ParsedType DEF CloseConn, TypeOK, Unit, Sending
    <1> QED
        BY <1>1, <1>2, <1>3, <1>4, <1>5, <1>6

LEMMA TypeDeliver ==
    ASSUME TypeOK, Sending, NEW p \in Peer, Deliver(p)
    PROVE  TypeOK' /\ Sending'
    <1> USE DEF files, console, waiting, thread, input
    <1>1. s2c' = (s2c \o <<Announced(p)>>) \o Original(p)
        BY DEF Deliver, Announced
    <1>2. s2c' \in Seq(Unit)
        BY <1>1, Types, Names, MessageSends, FrameSent
    <1>3. delivered' \in Seq(Peer)
        <2>1. delivered \in Seq(Peer)
            BY DEF TypeOK
        <2> QED
            BY <2>1, AppendProperties DEF Deliver
    <1> QED
        BY <1>2, <1>3 DEF Deliver, TypeOK, Unit, Sending

LEMMA TypeStep ==
    ASSUME TypeOK, Sending, [Next]_vars
    PROVE  TypeOK' /\ Sending'
    <1>1. CASE Next
        BY <1>1, TypeConsole, TypeGet, TypeWait, TypeParse, TypeHandle, TypeDeliver
           DEF Next, clithread
    <1>2. CASE UNCHANGED vars
        BY <1>2 DEF vars, files, console, waiting, thread, input, TypeOK, Sending
    <1> QED
        BY <1>1, <1>2

(***************************************************************************)
(* Order.  Of the elements of s that are in C, the first is the lo-th of v *)
(* and the last the hi-th, and none is left out.                           *)
(***************************************************************************)
ListedAt(s, C, lo, hi, v, at) ==
    /\ \A i \in lo .. hi : at[i] \in 1 .. Len(s) /\ s[at[i]] = v[i] /\ v[i] \in C
    /\ \A i, j \in lo .. hi : i < j => at[i] < at[j]
    /\ \A p \in 1 .. Len(s) : s[p] \in C => \E i \in lo .. hi : at[i] = p

Listed(s, C, lo, hi, v) == \E at : ListedAt(s, C, lo, hi, v, at)

LEMMA ListedNone ==
    ASSUME NEW S, NEW s \in Seq(S), NEW C, \A p \in 1 .. Len(s) : s[p] \notin C,
           NEW lo \in Nat, NEW hi \in Nat, lo = hi + 1, NEW v
    PROVE  Listed(s, C, lo, hi, v)
    <1>1. lo .. hi = {}
        OBVIOUS
    <1>2. ListedAt(s, C, lo, hi, v, <<>>)
        BY <1>1 DEF ListedAt
    <1> QED
        BY <1>2 DEF Listed

LEMMA ListedSame ==
    ASSUME NEW s, NEW C, NEW lo, NEW hi, NEW v, NEW w, Listed(s, C, lo, hi, v),
           \A i \in lo .. hi : w[i] = v[i]
    PROVE  Listed(s, C, lo, hi, w)
    <1>1. PICK at : ListedAt(s, C, lo, hi, v, at)
        BY DEF Listed
    <1>2. ListedAt(s, C, lo, hi, w, at)
        BY <1>1 DEF ListedAt
    <1> QED
        BY <1>2 DEF Listed

LEMMA ListedAfter ==
    ASSUME NEW S, NEW s \in Seq(S), NEW C, NEW lo \in Nat, NEW hi \in Nat, NEW v,
           Listed(s, C, lo, hi, v), NEW m \in Nat, m <= Len(s),
           \A p \in 1 .. m : s[p] \notin C
    PROVE  Listed(After(s, m), C, lo, hi, v)
    <1> DEFINE t == After(s, m)
    <1>1. /\ Len(s) \in Nat /\ Len(t) = Len(s) - m
          /\ \A k \in 1 .. Len(s) - m : t[k] = s[m + k]
        BY AfterProperties, LenProperties
    <1>2. PICK at : ListedAt(s, C, lo, hi, v, at)
        BY DEF Listed
    <1> DEFINE bt == [i \in lo .. hi |-> at[i] - m]
    <1>3. ASSUME NEW i \in lo .. hi
          PROVE  /\ at[i] \in 1 .. Len(s) /\ at[i] > m /\ bt[i] = at[i] - m
                 /\ bt[i] \in 1 .. Len(t) /\ m + bt[i] = at[i]
                 /\ t[bt[i]] = v[i] /\ v[i] \in C
        <2>1. at[i] \in 1 .. Len(s) /\ s[at[i]] = v[i] /\ v[i] \in C
            BY <1>2 DEF ListedAt
        <2>2. at[i] \notin 1 .. m
            BY <2>1
        <2>3. at[i] > m /\ at[i] - m \in 1 .. Len(s) - m /\ m + (at[i] - m) = at[i]
            BY <1>1, <2>1, <2>2
        <2>4. bt[i] = at[i] - m
            OBVIOUS
        <2> HIDE DEF t, bt
        <2>5. t[bt[i]] = s[at[i]]
            BY <1>1, <2>3, <2>4
        <2> QED
            BY <1>1, <2>1, <2>3, <2>4, <2>5
    <1> HIDE DEF t, bt
    <1>4. ASSUME NEW i \in lo .. hi, NEW j \in lo .. hi, i < j
          PROVE  bt[i] < bt[j]
        <2>1. at[i] < at[j]
            BY <1>2, <1>4 DEF ListedAt
        <2> QED
            BY <1>1, <1>3, <2>1
    <1>5. ASSUME NEW p \in 1 .. Len(t), t[p] \in C
          PROVE  \E i \in lo .. hi : bt[i] = p
        <2>1. m + p \in 1 .. Len(s) /\ s[m + p] \in C
            BY <1>1, <1>5
        <2>2. PICK i \in lo .. hi : at[i] = m + p
            BY <1>2, <2>1 DEF ListedAt
        <2>3. bt[i] = p
            BY <1>1, <1>3, <2>2
        <2> QED
            BY <2>3
    <1>6. ListedAt(t, C, lo, hi, v, bt)
        BY <1>3, <1>4, <1>5 DEF ListedAt
    <1> QED
        BY <1>6 DEF Listed, t

LEMMA ListedTake ==
    ASSUME NEW S, NEW s \in Seq(S), NEW C, NEW lo \in Nat, NEW hi \in Nat, NEW v,
           Listed(s, C, lo, hi, v), Len(s) >= 1, s[1] \in C
    PROVE  /\ lo <= hi /\ s[1] = v[lo]
           /\ Listed(After(s, 1), C, lo + 1, hi, v)
    <1> DEFINE t == After(s, 1)
    <1>1. /\ Len(s) \in Nat /\ 1 \in 1 .. Len(s) /\ Len(t) = Len(s) - 1
          /\ \A k \in 1 .. Len(s) - 1 : t[k] = s[1 + k]
        BY AfterProperties, LenProperties
    <1>2. PICK at : ListedAt(s, C, lo, hi, v, at)
        BY DEF Listed
    <1>3. \A i \in lo .. hi : at[i] \in 1 .. Len(s) /\ s[at[i]] = v[i] /\ v[i] \in C
        BY <1>2 DEF ListedAt
    <1>4. \A i, j \in lo .. hi : i < j => at[i] < at[j]
        BY <1>2 DEF ListedAt
    <1>5. PICK f \in lo .. hi : at[f] = 1
        BY <1>1, <1>2 DEF ListedAt
    <1>6. lo <= hi /\ lo \in lo .. hi
        BY <1>5
    <1>7. f = lo
        <2>1. SUFFICES ASSUME lo < f
                       PROVE  FALSE
            BY <1>5
        <2>2. at[lo] < 1 /\ at[lo] \in 1 .. Len(s)
            BY <1>3, <1>4, <1>5, <1>6, <2>1
        <2> QED
            BY <1>1, <2>2
    <1>8. s[1] = v[lo]
        BY <1>3, <1>5, <1>7
    <1> DEFINE bt == [i \in lo + 1 .. hi |-> at[i] - 1]
    <1>9. ASSUME NEW i \in lo + 1 .. hi
          PROVE  /\ at[i] \in 1 .. Len(s) /\ bt[i] = at[i] - 1
                 /\ bt[i] \in 1 .. Len(t) /\ 1 + bt[i] = at[i]
                 /\ t[bt[i]] = v[i] /\ v[i] \in C
        <2>1. i \in lo .. hi /\ lo < i
            BY <1>6
        <2>2. at[i] \in 1 .. Len(s) /\ s[at[i]] = v[i] /\ v[i] \in C
            BY <1>3, <2>1
        <2>3. 1 < at[i]
            BY <1>4, <1>5, <1>6, <1>7, <2>1
        <2>4. at[i] - 1 \in 1 .. Len(s) - 1 /\ 1 + (at[i] - 1) = at[i]
            BY <1>1, <2>2, <2>3
        <2>5. bt[i] = at[i] - 1
            OBVIOUS
        <2> HIDE DEF t, bt
        <2>6. t[bt[i]] = s[at[i]]
            BY <1>1, <2>4, <2>5
        <2> QED
            BY <1>1, <2>2, <2>4, <2>5, <2>6
    <1> HIDE DEF t, bt
    <1>10. ASSUME NEW i \in lo + 1 .. hi, NEW j \in lo + 1 .. hi, i < j
           PROVE  bt[i] < bt[j]
        <2>1. i \in lo .. hi /\ j \in lo .. hi
            BY <1>6
        <2>2. at[i] < at[j]
            BY <1>4, <1>10, <2>1
        <2> QED
            BY <1>1, <1>9, <2>2
    <1>11. ASSUME NEW p \in 1 .. Len(t), t[p] \in C
           PROVE  \E i \in lo + 1 .. hi : bt[i] = p
        <2>1. 1 + p \in 1 .. Len(s) /\ s[1 + p] \in C /\ 1 + p # 1
            BY <1>1, <1>11
        <2>2. PICK i \in lo .. hi : at[i] = 1 + p
            BY <1>2, <2>1 DEF ListedAt
        <2>3. i # lo
            BY <1>5, <1>7, <2>1, <2>2
        <2>4. i \in lo + 1 .. hi
            BY <2>3
        <2>5. bt[i] = p
            BY <1>1, <1>9, <2>2, <2>4
        <2> QED
            BY <2>4, <2>5
    <1>12. ListedAt(t, C, lo + 1, hi, v, bt)
        BY <1>9, <1>10, <1>11 DEF ListedAt
    <1> QED
        BY <1>6, <1>8, <1>12 DEF Listed, t

LEMMA ListedConcat ==
    ASSUME NEW S, NEW s \in Seq(S), NEW t \in Seq(S), NEW C, NEW lo \in Nat, NEW hi \in Nat, NEW v,
           Listed(s, C, lo, hi, v), \A p \in 1 .. Len(t) : t[p] \notin C
    PROVE  Listed(s \o t, C, lo, hi, v)
    <1> DEFINE st == s \o t
    <1>1. /\ Len(s) \in Nat /\ Len(t) \in Nat /\ Len(st) = Len(s) + Len(t)
          /\ \A k \in 1 .. Len(s) + Len(t) :
                 st[k] = IF k <= Len(s) THEN s[k] ELSE t[k - Len(s)]
        BY ConcatProperties, LenProperties
    <1> HIDE DEF st
    <1>2. PICK at : ListedAt(s, C, lo, hi, v, at)
        BY DEF Listed
    <1>3. ASSUME NEW i \in lo .. hi
          PROVE  at[i] \in 1 .. Len(st) /\ st[at[i]] = v[i] /\ v[i] \in C
        <2>1. at[i] \in 1 .. Len(s) /\ s[at[i]] = v[i] /\ v[i] \in C
            BY <1>2 DEF ListedAt
        <2> QED
            BY <1>1, <2>1
    <1>4. ASSUME NEW p \in 1 .. Len(st), st[p] \in C
          PROVE  \E i \in lo .. hi : at[i] = p
        <2>1. CASE p <= Len(s)
            <3>1. p \in 1 .. Len(s) /\ s[p] \in C
                BY <1>1, <1>4, <2>1
            <3> QED
                BY <1>2, <3>1 DEF ListedAt
        <2>2. CASE ~(p <= Len(s))
            <3>1. p - Len(s) \in 1 .. Len(t) /\ st[p] = t[p - Len(s)]
                BY <1>1, <2>2
            <3> QED
                BY <1>4, <3>1
        <2> QED
            BY <2>1, <2>2
    <1>5. \A i, j \in lo .. hi : i < j => at[i] < at[j]
        BY <1>2 DEF ListedAt
    <1>6. ListedAt(st, C, lo, hi, v, at)
        BY <1>3, <1>4, <1>5 DEF ListedAt
    <1> QED
        BY <1>6 DEF Listed, st

LEMMA ListedPut ==
    ASSUME NEW S, NEW s \in Seq(S), NEW C, NEW lo \in Nat, NEW hi \in Nat, NEW v, NEW w,
           Listed(s, C, lo, hi, v), lo <= hi + 1, NEW u \in S, u \in C,
           \A i \in lo .. hi : w[i] = v[i], w[hi + 1] = u
    PROVE  Listed(Append(s, u), C, lo, hi + 1, w)
    <1> DEFINE st == Append(s, u)
    <1>1. /\ Len(s) \in Nat /\ Len(st) = Len(s) + 1
          /\ \A k \in 1 .. Len(s) : st[k] = s[k]
          /\ st[Len(s) + 1] = u
        BY AppendProperties, LenProperties
    <1> HIDE DEF st
    <1>2. PICK at : ListedAt(s, C, lo, hi, v, at)
        BY DEF Listed
    <1> DEFINE bt == [i \in lo .. hi + 1 |-> IF i <= hi THEN at[i] ELSE Len(s) + 1]
    <1>3. \A i \in lo .. hi + 1 : i \in lo .. hi \/ i = hi + 1
        OBVIOUS
    <1>4. \A i \in lo .. hi : i \in lo .. hi + 1 /\ i <= hi
        OBVIOUS
    <1>5. hi + 1 \in lo .. hi + 1 /\ ~(hi + 1 <= hi)
        OBVIOUS
    <1>6. bt[hi + 1] = Len(s) + 1 /\ \A i \in lo .. hi : bt[i] = at[i]
        BY <1>4, <1>5
    <1> HIDE DEF bt
    <1>7. ASSUME NEW i \in lo .. hi
          PROVE  bt[i] \in 1 .. Len(s) /\ bt[i] \in 1 .. Len(st) /\ st[bt[i]] = w[i] /\ w[i] \in C
        <2>1. at[i] \in 1 .. Len(s) /\ s[at[i]] = v[i] /\ v[i] \in C /\ w[i] = v[i]
            BY <1>2 DEF ListedAt
        <2> QED
            BY <1>1, <1>6, <2>1
    <1>8. bt[hi + 1] \in 1 .. Len(st) /\ st[bt[hi + 1]] = w[hi + 1] /\ w[hi + 1] \in C
        BY <1>1, <1>6
    <1>9. ASSUME NEW i \in lo .. hi + 1, NEW j \in lo .. hi + 1, i < j
          PROVE  bt[i] < bt[j]
        <2>1. i \in lo .. hi
            BY <1>3, <1>9
        <2>2. CASE j \in lo .. hi
            <3>1. at[i] < at[j]
                BY <1>2, <1>9, <2>1, <2>2 DEF ListedAt
            <3> QED
                BY <1>6, <2>1, <2>2, <3>1
        <2>3. CASE j = hi + 1
            BY <1>1, <1>6, <1>7, <2>1, <2>3
        <2> QED
            BY <1>3, <2>2, <2>3
    <1>10. ASSUME NEW p \in 1 .. Len(st), st[p] \in C
           PROVE  \E i \in lo .. hi + 1 : bt[i] = p
        <2>1. CASE p \in 1 .. Len(s)
            <3>1. PICK i \in lo .. hi : at[i] = p
                BY <1>1, <1>2, <1>10, <2>1 DEF ListedAt
            <3> QED
                BY <1>4, <1>6, <3>1
        <2>2. CASE p = Len(s) + 1
            BY <1>5, <1>6, <2>2
        <2> QED
            BY <1>1, <2>1, <2>2
    <1>11. ListedAt(st, C, lo, hi + 1, w, bt)
        BY <1>3, <1>7, <1>8, <1>9, <1>10 DEF ListedAt
    <1> QED
        BY <1>11 DEF Listed, st

(***************************************************************************)
(* The server's thread.  What the client sends is in frames and whole, and *)
(* the messages in it are those typed and not yet put into msg_strategy.   *)
(***************************************************************************)
Messages == {u \in Header : Command(u) = "SENDMSG"}

Announcements == [j \in 1 .. Len(typed) |-> Announced(typed[j])]

InHand == spc \in {"data", "handle"} /\ Command(smsg) = "SENDMSG"

Taken == Len(forwarded) + (IF InHand THEN 1 ELSE 0)

ToServer ==
    /\ Frames("told", c2s)
    /\ ~ClientGone => Complete(c2s, 0)
    /\ spc # "data" => c2s = <<>> \/ IsHeader(c2s[1])
    /\ spc \in {"data", "handle"} => DataSize(smsg) = Len(sbuf)
    /\ spc = "data" => /\ Continues("told", smsg, Place(si), c2s, 0)
                       /\ ~ClientGone => Len(sbuf) <= Place(si) + Len(c2s)

MessagesInOrder ==
    /\ Taken <= Len(typed)
    /\ Listed(c2s, Messages, Taken + 1, Len(typed), Announcements)
    /\ InHand => smsg = Announced(typed[Taken])
    /\ InHand /\ spc = "handle" => sbuf = Original(typed[Taken])

ForwardedRight ==
    /\ Len(forwarded) <= Len(typed)
    /\ \A i \in 1 .. Len(forwarded) : forwarded[i] = <<typed[i], Original(typed[i])>>

ServerRight ==
    "server" \notin short =>
        /\ spc # "lost"
        /\ ForwardedRight
        /\ spc # "closed" => ToServer /\ MessagesInOrder

LEMMA Lists ==
    ASSUME TypeOK
    PROVE  /\ Len(typed) \in Nat /\ Len(forwarded) \in Nat
           /\ Taken \in Nat /\ Taken + 1 \in Nat
           /\ \A j \in 1 .. Len(typed) :
                  /\ typed[j] \in Text /\ typed[j] \in Name
                  /\ Announcements[j] = Announced(typed[j])
           /\ InHand \in BOOLEAN
    <1>1. Len(typed) \in Nat /\ Len(forwarded) \in Nat
          /\ \A j \in 1 .. Len(typed) : typed[j] \in Text
        BY LenProperties DEF TypeOK
    <1>2. InHand \in BOOLEAN
        BY DEF InHand
    <1>3. Taken \in Nat /\ Taken + 1 \in Nat
        BY <1>1, <1>2 DEF Taken
    <1>4. \A j \in 1 .. Len(typed) : Announcements[j] = Announced(typed[j])
        BY DEF Announcements
    <1> QED
        BY <1>1, <1>2, <1>3, <1>4, Names

LEMMA Somehow ==
    ASSUME NEW how, NEW s, Frames(how, s)
    PROVE  Frames("somehow", s)
    <1>1. \A h, k, u : Follows(how, h, k, u) => Follows("somehow", h, k, u)
        BY DEF Follows
    <1> QED
        BY <1>1 DEF Frames, Continues

LEMMA SomehowContinues ==
    ASSUME NEW how, NEW h, NEW from, NEW s, NEW i, Continues(how, h, from, s, i)
    PROVE  Continues("somehow", h, from, s, i)
    <1>1. \A k, u : Follows(how, h, k, u) => Follows("somehow", h, k, u)
        BY DEF Follows
    <1> QED
        BY <1>1 DEF Continues

LEMMA HeaderAdded ==
    ASSUME NEW how, NEW s \in Seq(Unit), Frames(how, s), Complete(s, 0), NEW h \in Header
    PROVE  /\ s \o <<h>> \in Seq(Unit)
           /\ Frames(how, s \o <<h>>)
           /\ Complete(s \o <<h>>, DataSize(h))
    <1>1. /\ Append(s, h) \in Seq(Unit) /\ Append(s, h) = s \o <<h>>
          /\ Frames(how, Append(s, h)) /\ Complete(Append(s, h), DataSize(h))
        BY UnitKinds, HeaderAppended
    <1> QED
        BY <1>1

\* A header with its data, or a header alone, is sent after what is whole.
LEMMA FrameAdded ==
    ASSUME NEW how, NEW s \in Seq(Unit), Frames(how, s), Complete(s, 0),
           NEW h \in Header, NEW t \in Seq(Byte), t = <<>> \/ Len(t) = DataSize(h),
           \A j \in 1 .. Len(t) : Follows(how, h, j, t[j])
    PROVE  LET st == (s \o <<h>>) \o t IN
           /\ Frames(how, st)
           /\ Len(t) = DataSize(h) => Complete(st, 0)
           /\ s = <<>> \/ IsHeader(s[1]) => IsHeader(st[1])
           /\ \A g \in Header, from \in Nat :
                  DataSize(g) <= from + Len(s) /\ Continues(how, g, from, s, 0) =>
                      /\ Continues(how, g, from, st, 0)
                      /\ DataSize(g) <= from + Len(st)
    <1> DEFINE a == s \o <<h>>
               st == a \o t
    <1>1. h \in Unit /\ IsHeader(h) /\ DataSize(h) \in Nat
        BY HeaderProperties DEF Unit
    <1>2. Frames(how, a) /\ Complete(a, DataSize(h)) /\ a \in Seq(Unit)
        BY HeaderAdded
    <1>3. /\ <<h>> \in Seq(Unit) /\ Len(<<h>>) = 1 /\ <<h>>[1] = h
        BY <1>1, UnitKinds, OneUnit
    <1>4. /\ Len(s) \in Nat /\ Len(a) = Len(s) + 1
          /\ \A i \in 1 .. Len(s) : a[i] = s[i]
          /\ a[Len(s) + 1] = h
        BY <1>3, ConcatProperties, LenProperties
    <1>5. t \in Seq(Unit) /\ Len(t) \in Nat
        BY UnitKinds, DataOnly
    <1> HIDE DEF a
    <1>6. /\ st \in Seq(Unit) /\ Len(st) = Len(a) + Len(t)
          /\ \A i \in 1 .. Len(a) : st[i] = a[i]
        <2>1. /\ a \o t \in Seq(Unit) /\ Len(a \o t) = Len(a) + Len(t)
              /\ \A i \in 1 .. Len(a) + Len(t) :
                     (a \o t)[i] = IF i <= Len(a) THEN a[i] ELSE t[i - Len(a)]
            BY <1>2, <1>5, ConcatProperties, Zenon
        <2>2. \A i \in 1 .. Len(a) : i <= Len(a) /\ i \in 1 .. Len(a) + Len(t)
            BY <1>4, <1>5
        <2> QED
            BY <2>1, <2>2
    <1>7. Frames(how, st)
        <2>1. CASE t = <<>>
            <3>1. st = a
                BY <1>2, <2>1, ConcatEmptySeq
            <3> QED
                BY <1>2, <3>1
        <2>2. CASE Len(t) = DataSize(h)
            BY <2>2, UnitKinds, FrameAppended DEF a
        <2> QED
            BY <2>1, <2>2
    <1>8. ASSUME Len(t) = DataSize(h)
          PROVE  Complete(st, 0)
        <2>1. Frames("somehow", a)
            BY <1>2, Somehow
        <2> QED
            BY <1>2, <1>8, <2>1, UnitKinds, DataAppended
    <1>9. ASSUME s = <<>> \/ IsHeader(s[1])
          PROVE  IsHeader(st[1])
        <2>1. CASE Len(s) = 0
            BY <1>1, <1>4, <1>6, <2>1
        <2>2. CASE Len(s) # 0
            <3>1. 1 \in 1 .. Len(s) /\ 1 \in 1 .. Len(a)
                BY <1>4, <2>2
            <3>2. s # <<>>
                BY <2>2, EmptySeq
            <3> QED
                BY <1>4, <1>6, <1>9, <3>1, <3>2
        <2> QED
            BY <2>1, <2>2
    <1>10. ASSUME NEW g \in Header, NEW from \in Nat, DataSize(g) <= from + Len(s),
                  Continues(how, g, from, s, 0)
           PROVE  Continues(how, g, from, st, 0) /\ DataSize(g) <= from + Len(st)
        <2>1. DataSize(g) \in Nat /\ 0 \in Nat /\ 0 <= Len(s) /\ 0 <= Len(a)
            BY <1>4, HeaderProperties
        <2>2. ASSUME NEW j \in 1 .. Len(<<h>>), (Len(s) - 0) + j <= DataSize(g) + 1 - from
              PROVE  Follows(how, g, from + ((Len(s) - 0) + j), <<h>>[j])
            <3>1. j = 1 /\ <<h>>[j] = h
                BY <1>3
            <3>2. from + ((Len(s) - 0) + 1) > DataSize(g)
                  /\ ~(from + ((Len(s) - 0) + 1) <= DataSize(g))
                BY <1>4, <1>10, <2>1
            <3> QED
                BY <1>1, <3>1, <3>2 DEF Follows
        <2>3. Continues(how, g, from, a, 0)
            BY <1>3, <1>10, <2>1, <2>2, ContinuesConcat DEF a
        <2>4. ASSUME NEW j \in 1 .. Len(t), (Len(a) - 0) + j <= DataSize(g) + 1 - from
              PROVE  Follows(how, g, from + ((Len(a) - 0) + j), t[j])
            <3>1. FALSE
                BY <1>4, <1>5, <1>10, <2>1, <2>4
            <3> QED
                BY <3>1
        <2>5. Continues(how, g, from, st, 0)
            BY <1>2, <1>5, <2>1, <2>3, <2>4, ContinuesConcat
        <2> QED
            BY <1>4, <1>5, <1>6, <1>10, <2>1, <2>5
    <1> QED
        BY <1>7, <1>8, <1>9, <1>10 DEF a

(***************************************************************************)
(* The invariant holds at first, and through what the client does.         *)
(***************************************************************************)
LEMMA ServerInit ==
    ASSUME Init, TypeOK
    PROVE  ServerRight
    <1>1. /\ c2s = <<>> /\ spc = "command" /\ forwarded = <<>> /\ typed = <<>>
        BY DEF Init
    <1>2. Len(c2s) = 0 /\ Len(typed) = 0 /\ Len(forwarded) = 0
        BY <1>1
    <1>3. ToServer
        BY <1>1, <1>2 DEF ToServer, Frames, Complete
    <1>4. ~InHand /\ Taken = 0
        BY <1>1, <1>2 DEF InHand, Taken
    <1>5. Listed(c2s, Messages, Taken + 1, Len(typed), Announcements)
        <2>1. 0 \in Nat /\ 1 \in Nat /\ 1 = 0 + 1 /\ c2s \in Seq(Unit)
              /\ \A p \in 1 .. Len(c2s) : c2s[p] \notin Messages
            BY <1>2, Types
        <2>2. Listed(c2s, Messages, 1, 0, Announcements)
            BY <2>1, ListedNone, Zenon
        <2> QED
            BY <1>2, <1>4, <2>2
    <1>6. MessagesInOrder /\ ForwardedRight
        BY <1>2, <1>4, <1>5 DEF MessagesInOrder, ForwardedRight
    <1> QED
        BY <1>1, <1>3, <1>6 DEF ServerRight

\* Neither the stream nor the thread is touched.
LEMMA ServerSame ==
    ASSUME ServerRight,
           UNCHANGED <<c2s, spc, smsg, sbuf, si, typed, forwarded>>,
           "server" \in short => "server" \in short',
           ClientGone => ClientGone'
    PROVE  ServerRight'
    <1>1. ToServer => ToServer'
        BY DEF ToServer
    <1>2. Announcements' = Announcements /\ Taken' = Taken /\ InHand' = InHand
        BY DEF Announcements, Taken, InHand
    <1>3. MessagesInOrder => MessagesInOrder'
        BY <1>2 DEF MessagesInOrder
    <1>4. ForwardedRight => ForwardedRight'
        BY DEF ForwardedRight
    <1> QED
        BY <1>1, <1>3, <1>4 DEF ServerRight

\* The client sends: a message, or what is none.
LEMMA ServerSent ==
    ASSUME TypeOK, TypeOK', ServerRight, client = "up",
           NEW h \in Header, NEW t \in Seq(Byte), t = <<>> \/ Len(t) = DataSize(h),
           Len(t) = DataSize(h) \/ ClientGone',
           c2s' = (c2s \o <<h>>) \o t,
           UNCHANGED <<spc, smsg, sbuf, si, forwarded, short>>,
           \/ Command(h) # "SENDMSG" /\ typed' = typed
           \/ \E x \in Text : h = Announced(x) /\ t = Original(x) /\ typed' = Append(typed, x)
    PROVE  ServerRight'
    <1> SUFFICES ASSUME "server" \notin short
                 PROVE  ServerRight'
        BY DEF ServerRight
    <1>1. spc # "lost" /\ ForwardedRight
        BY DEF ServerRight
    <1>2. /\ Len(typed) \in Nat /\ Len(forwarded) \in Nat /\ Taken \in Nat /\ Taken + 1 \in Nat
          /\ \A j \in 1 .. Len(typed) : Announcements[j] = Announced(typed[j])
        BY Lists
    <1>0. /\ Len(typed)' \in Nat
          /\ \A j \in 1 .. Len(typed)' : Announcements'[j] = Announced(typed'[j])
        <2>1. Len(typed)' \in Nat
            BY LenProperties DEF TypeOK
        <2> QED
            BY <2>1 DEF Announcements
    <1>3. Taken' = Taken /\ (InHand' <=> InHand)
        BY DEF Taken, InHand
    <1>4. \/ typed' = typed /\ Len(typed)' = Len(typed)
          \/ \E x \in Text : typed' = Append(typed, x) /\ Len(typed)' = Len(typed) + 1
             /\ typed'[Len(typed) + 1] = x
             /\ \A j \in 1 .. Len(typed) : typed'[j] = typed[j]
        <2>1. typed \in Seq(Text)
            BY DEF TypeOK
        <2> QED
            BY <2>1, AppendProperties
    <1>5. Len(typed) <= Len(typed)' /\ \A j \in 1 .. Len(typed) : typed'[j] = typed[j]
        BY <1>0, <1>2, <1>4
    <1>6. ForwardedRight'
        <2>1. /\ Len(forwarded) <= Len(typed)
              /\ \A i \in 1 .. Len(forwarded) : forwarded[i] = <<typed[i], Original(typed[i])>>
            BY <1>1 DEF ForwardedRight
        <2>2. forwarded' = forwarded /\ Len(forwarded) <= Len(typed)'
            BY <1>0, <1>2, <1>5, <2>1
        <2>3. \A i \in 1 .. Len(forwarded) : typed'[i] = typed[i]
            BY <1>0, <1>2, <1>5, <2>1
        <2> QED
            BY <2>1, <2>2, <2>3 DEF ForwardedRight
    <1>7. CASE spc = "closed"
        BY <1>1, <1>6, <1>7 DEF ServerRight
    <1>8. CASE spc # "closed"
        <2>1. ToServer /\ MessagesInOrder /\ ~ClientGone
            BY <1>8 DEF ServerRight, ClientGone
        <2>2. ASSUME NEW j \in 1 .. Len(t)
              PROVE  Follows("told", h, j, t[j])
            <3>1. Len(t) = DataSize(h) /\ DataSize(h) \in Nat /\ ~IsHeader(t[j])
                <4>1. Len(t) # 0 /\ Len(<<>>) = 0
                    BY <2>2
                <4> QED
                    BY <4>1, HeaderProperties, UnitKinds, DataOnly
            <3>2. Command(h) = "SENDMSG" => t[j] = <<FileName(h), j>>
                <4>1. SUFFICES ASSUME NEW x \in Text, h = Announced(x), t = Original(x)
                               PROVE  t[j] = <<FileName(h), j>>
                    OBVIOUS
                <4>2. /\ FileName(h) = x /\ DataSize(h) = Size[x]
                      /\ \A k \in 1 .. Size[x] : Original(x)[k] = <<x, k>>
                    BY <4>1, Names, MessageSends
                <4> QED
                    BY <3>1, <4>1, <4>2
            <3> QED
                BY <3>1, <3>2 DEF Follows
        <2>3. c2s \in Seq(Unit) /\ Frames("told", c2s) /\ Complete(c2s, 0)
            BY <2>1, Types DEF ToServer
        <2>4. /\ Frames("told", c2s')
              /\ Len(t) = DataSize(h) => Complete(c2s', 0)
              /\ c2s = <<>> \/ IsHeader(c2s[1]) => IsHeader(c2s'[1])
              /\ \A g \in Header, from \in Nat :
                     DataSize(g) <= from + Len(c2s) /\ Continues("told", g, from, c2s, 0) =>
                         /\ Continues("told", g, from, c2s', 0)
                         /\ DataSize(g) <= from + Len(c2s')
            BY <2>2, <2>3, FrameAdded
        <2>5. spc = "data" => /\ Continues("told", smsg, Place(si), c2s', 0)
                              /\ Len(sbuf) <= Place(si) + Len(c2s')
            BY <2>1, <2>4, Types DEF ToServer
        <2>6. ToServer'
            BY <2>1, <2>4, <2>5 DEF ToServer
        <2>7. Listed(c2s, Messages, Taken + 1, Len(typed), Announcements)
            BY <2>1 DEF MessagesInOrder
        <2>8. \A p \in 1 .. Len(t) : t[p] \notin Messages
            BY UnitKinds, DataOnly, HeaderProperties DEF Messages
        <2>9. t \in Seq(Unit) /\ h \in Unit /\ Append(c2s, h) = c2s \o <<h>>
              /\ Append(c2s, h) \in Seq(Unit)
            BY <2>3, UnitKinds, DataOnly, AppendIsConcat, AppendProperties DEF Unit
        <2>10. Listed(c2s', Messages, Taken + 1, Len(typed)', Announcements')
            <3>1. CASE Command(h) # "SENDMSG" /\ typed' = typed
                <4>1. <<h>> \in Seq(Unit) /\ \A p \in 1 .. Len(<<h>>) : <<h>>[p] \notin Messages
                    BY <2>9, <3>1 DEF Messages
                <4>2. Listed(c2s \o <<h>>, Messages, Taken + 1, Len(typed), Announcements)
                    BY <1>2, <2>3, <2>7, <4>1, ListedConcat, Zenon
                <4>3. c2s \o <<h>> \in Seq(Unit)
                    BY <2>9
                <4>4. Listed((c2s \o <<h>>) \o t, Messages, Taken + 1, Len(typed), Announcements)
                    BY <1>2, <2>8, <2>9, <4>2, <4>3, ListedConcat, Zenon
                <4>5. Announcements' = Announcements /\ Len(typed)' = Len(typed)
                    BY <3>1 DEF Announcements
                <4> QED
                    BY <4>4, <4>5
            <3>2. CASE ~(Command(h) # "SENDMSG" /\ typed' = typed)
                <4>1. PICK x \in Text : h = Announced(x) /\ typed' = Append(typed, x)
                    BY <3>2
                <4>2. h \in Messages
                    BY <4>1, Names, MessageSends DEF Messages
                <4>3. Len(typed)' = Len(typed) + 1 /\ typed'[Len(typed) + 1] = x
                      /\ \A j \in 1 .. Len(typed) : typed'[j] = typed[j]
                    <5>1. typed \in Seq(Text)
                        BY DEF TypeOK
                    <5> QED
                        BY <4>1, <5>1, AppendProperties
                <4>4. /\ \A i \in Taken + 1 .. Len(typed) : Announcements'[i] = Announcements[i]
                      /\ Announcements'[Len(typed) + 1] = h
                    <5>1. Len(typed) + 1 \in 1 .. Len(typed)'
                          /\ \A i \in Taken + 1 .. Len(typed) :
                                 i \in 1 .. Len(typed) /\ i \in 1 .. Len(typed)'
                        BY <1>0, <1>2, <4>3
                    <5> QED
                        BY <1>0, <1>2, <4>1, <4>3, <5>1
                <4>5. Taken + 1 <= Len(typed) + 1
                    BY <1>2, <2>1 DEF MessagesInOrder
                <4>6. Listed(Append(c2s, h), Messages, Taken + 1, Len(typed) + 1, Announcements')
                    BY <1>2, <2>3, <2>7, <2>9, <4>2, <4>4, <4>5, ListedPut, Zenon
                <4>7. Len(typed) + 1 \in Nat
                    BY <1>2
                <4>8. Listed(Append(c2s, h) \o t, Messages, Taken + 1, Len(typed) + 1, Announcements')
                    BY <1>2, <2>8, <2>9, <4>6, <4>7, ListedConcat, Zenon
                <4> QED
                    BY <2>9, <4>3, <4>8
            <3> QED
                BY <3>1, <3>2
        <2>11. MessagesInOrder'
            <3>1. Taken <= Len(typed) /\ Taken <= Len(typed)'
                BY <1>0, <1>2, <1>5, <2>1 DEF MessagesInOrder
            <3>2. InHand => Taken \in 1 .. Len(typed)
                BY <1>2, <3>1 DEF Taken
            <3>3. InHand => typed'[Taken] = typed[Taken]
                BY <1>5, <3>2
            <3> QED
                BY <1>3, <2>1, <2>10, <3>1, <3>3 DEF MessagesInOrder
        <2> QED
            BY <1>1, <1>6, <2>6, <2>11 DEF ServerRight
    <1> QED
        BY <1>7, <1>8

LEMMA ServerConsole ==
    ASSUME TypeOK, TypeOK', ServerRight, Type
    PROVE  ServerRight'
    <1> USE DEF files, console, waiting, thread, input
    <1>1. CASE Quit
        BY <1>1, ServerSame DEF Quit, ClientGone
    <1>2. ASSUME NEW f \in File, comm_put(f)
          PROVE  ServerRight'
        <2>1. c2s' = (c2s \o <<PutOf(f)>>) \o PutData(f)
            BY <1>2 DEF comm_put, PutOf, PutData
        <2>2. client = "up" /\ UNCHANGED <<spc, smsg, sbuf, si, forwarded, short, typed>>
            BY <1>2 DEF comm_put, Typed
        <2>3. PutOf(f) \in Header /\ Command(PutOf(f)) # "SENDMSG"
              /\ PutData(f) \in Seq(Byte) /\ Len(PutData(f)) = DataSize(PutOf(f))
            BY PutSends
        <2> QED
            BY <2>1, <2>2, <2>3, ServerSent
    <1>3. ASSUME NEW f \in File, comm_put_Missing(f)
          PROVE  ServerRight'
        <2>1. PICK size \in 0 .. Block : c2s' = Append(c2s, <<"PUT", f, size>>)
            BY <1>3 DEF comm_put_Missing
        <2> DEFINE h == <<"PUT", f, size>>
        <2>2. client = "up" /\ client' = "faulted"
              /\ UNCHANGED <<spc, smsg, sbuf, si, forwarded, short, typed>>
            BY <1>3 DEF comm_put_Missing, Typed
        <2>3. h \in Header /\ h \in Unit /\ Command(h) # "SENDMSG"
            BY BlockNat, Names, MadeHeader
        <2>4. c2s' = Append(c2s, h)
            BY <2>1
        <2> HIDE DEF h
        <2>5. c2s' = (c2s \o <<h>>) \o <<>>
            <3>1. c2s \in Seq(Unit) /\ <<h>> \in Seq(Unit)
                BY <2>3, Types
            <3>2. c2s \o <<h>> \in Seq(Unit) /\ Append(c2s, h) = c2s \o <<h>>
                BY <2>3, <3>1, AppendIsConcat, ConcatProperties
            <3> QED
                BY <2>4, <3>2, ConcatEmptySeq
        <2> QED
            BY <2>2, <2>3, <2>5, EmptyData, ServerSent DEF ClientGone
    <1>4. ASSUME NEW f \in File, comm_get(f)
          PROVE  ServerRight'
        <2> DEFINE h == <<"GET", f, 0>>
        <2>1. c2s' = Append(c2s, h)
            BY <1>4 DEF comm_get
        <2>2. client = "up" /\ UNCHANGED <<spc, smsg, sbuf, si, forwarded, short, typed>>
            BY <1>4 DEF comm_get, Typed
        <2>3. h \in Header /\ h \in Unit /\ Command(h) # "SENDMSG" /\ DataSize(h) = 0
            <3>1. 0 \in Nat
                OBVIOUS
            <3> QED
                BY <3>1, Names, MadeHeader
        <2> HIDE DEF h
        <2>4. c2s' = (c2s \o <<h>>) \o <<>>
            <3>1. c2s \in Seq(Unit) /\ <<h>> \in Seq(Unit)
                BY <2>3, Types
            <3>2. c2s \o <<h>> \in Seq(Unit) /\ Append(c2s, h) = c2s \o <<h>>
                BY <2>3, <3>1, AppendIsConcat, ConcatProperties
            <3> QED
                BY <2>1, <3>2, ConcatEmptySeq
        <2> QED
            BY <2>2, <2>3, <2>4, EmptyData, ServerSent
    <1>5. ASSUME NEW x \in Text, comm_sendmsg(x)
          PROVE  ServerRight'
        <2>1. c2s' = (c2s \o <<Announced(x)>>) \o Original(x) /\ typed' = Append(typed, x)
            BY <1>5 DEF comm_sendmsg, Announced
        <2>2. client = "up" /\ UNCHANGED <<spc, smsg, sbuf, si, forwarded, short>>
            BY <1>5 DEF comm_sendmsg, Typed
        <2>3. Announced(x) \in Header /\ Original(x) \in Seq(Byte)
              /\ Len(Original(x)) = DataSize(Announced(x))
            BY Names, MessageSends
        <2> QED
            BY <2>1, <2>2, <2>3, ServerSent
    <1> QED
        BY <1>1, <1>2, <1>3, <1>4, <1>5 DEF Type

(***************************************************************************)
(* parse_msg.                                                              *)
(***************************************************************************)
\* Nothing is announced where a message is received.
LEMMA Unannounced ==
    ASSUME NEW s \in Seq(Unit), NEW m \in Nat, \A k \in 1 .. m : ~IsHeader(s[k])
    PROVE  \A k \in 1 .. m : s[k] \notin Messages
    BY HeaderProperties DEF Messages

LEMMA ServerParseHeader ==
    ASSUME TypeOK, TypeOK', ServerRight, ParseHeader
    PROVE  ServerRight'
    <1> USE DEF files, console, waiting, thread, input
    <1> SUFFICES ASSUME "server" \notin short
                 PROVE  ServerRight'
        BY DEF ServerRight, ParseHeader
    <1> DEFINE h == Head(c2s)
    <1>1. /\ spc = "command" /\ c2s # <<>> /\ IsHeader(h)
          /\ spc' = IF DataSize(h) = 0 THEN "handle" ELSE "data"
          /\ smsg' = h /\ sbuf' = Fresh(DataSize(h)) /\ si' = 0 /\ c2s' = Tail(c2s)
          /\ UNCHANGED <<client, typed, forwarded, short>>
        BY DEF ParseHeader
    <1>2. ForwardedRight /\ ToServer /\ MessagesInOrder
        BY <1>1 DEF ServerRight
    <1>3. /\ c2s \in Seq(Unit) /\ h = c2s[1] /\ h \in Header
          /\ Len(c2s) \in Nat /\ Len(c2s) >= 1 /\ 1 \in 1 .. Len(c2s)
          /\ c2s' = After(c2s, 1) /\ c2s' \in Seq(Unit) /\ Len(c2s') = Len(c2s) - 1
        BY <1>1, Types, StreamTaken
    <1>4. DataSize(h) \in Nat /\ Len(sbuf') = DataSize(h)
        BY <1>1, <1>3, HeaderProperties, FreshType
    <1> HIDE DEF h
    <1>5. Frames("told", c2s')
        BY <1>2, <1>3, UnitKinds, FramesAfter DEF ToServer
    <1>6. ~ClientGone => Complete(c2s', 0)
        BY <1>2, <1>3, UnitKinds, CompleteAfter DEF ToServer
    <1>7. Continues("told", h, 0, c2s, 1)
        BY <1>1, <1>2, <1>3 DEF ToServer, Frames
    <1>8. Continues("told", h, 0, c2s', 0)
        <2>1. 1 + 0 = 1 /\ 0 \in Nat /\ 1 \in Nat
            OBVIOUS
        <2>2. Continues("told", h, 0, c2s, 1 + 0)
            BY <1>7, <2>1
        <2> QED
            BY <1>3, <1>4, <2>1, <2>2, ContinuesAfter
    <1>9. DataSize(h) = 0 => c2s' = <<>> \/ IsHeader(c2s'[1])
        <2>1. SUFFICES ASSUME DataSize(h) = 0, c2s' # <<>>
                       PROVE  IsHeader(c2s'[1])
            OBVIOUS
        <2>2. 0 + 1 <= Len(c2s') /\ 0 + 1 = 1 /\ 1 \in 1 .. DataSize(h) + 1 - 0
            BY <1>3, <2>1, HeadProperties
        <2>3. Follows("told", h, 1, c2s'[1])
            BY <1>8, <2>2 DEF Continues
        <2> QED
            BY <2>1, <2>3 DEF Follows
    <1>10. ~ClientGone => Len(sbuf') <= Place(si') + Len(c2s')
        <2>1. SUFFICES ASSUME ~ClientGone
                       PROVE  Len(sbuf') <= Place(si') + Len(c2s')
            OBVIOUS
        <2>2. 1 + DataSize(h) <= Len(c2s) + 0
            BY <1>1, <1>2, <1>3, <2>1 DEF ToServer, Complete
        <2> QED
            BY <1>1, <1>3, <1>4, <2>2, EmptyData
    <1>11. ClientGone' <=> ClientGone
        BY <1>1 DEF ClientGone
    <1>12. ToServer'
        BY <1>1, <1>4, <1>5, <1>6, <1>8, <1>9, <1>10, <1>11, EmptyData DEF ToServer
    <1>13. /\ Len(typed) \in Nat /\ Taken \in Nat /\ Taken + 1 \in Nat /\ Len(forwarded) \in Nat
           /\ Taken = Len(forwarded)
           /\ \A j \in 1 .. Len(typed) :
                  typed[j] \in Name /\ Announcements[j] = Announced(typed[j])
        BY <1>1, Lists DEF Taken, InHand
    <1>14. Listed(c2s, Messages, Taken + 1, Len(typed), Announcements)
           /\ Taken <= Len(typed)
        BY <1>2 DEF MessagesInOrder
    <1>15. Announcements' = Announcements /\ typed' = typed
        BY <1>1 DEF Announcements
    <1>16. MessagesInOrder'
        <2>1. CASE Command(h) = "SENDMSG"
            <3>1. c2s[1] \in Messages /\ Len(c2s) >= 1
                BY <1>3, <2>1 DEF Messages
            <3>2. /\ Taken + 1 <= Len(typed) /\ c2s[1] = Announcements[Taken + 1]
                  /\ Listed(After(c2s, 1), Messages, (Taken + 1) + 1, Len(typed), Announcements)
                BY <1>3, <1>13, <1>14, <3>1, ListedTake, Zenon
            <3>3. InHand' /\ Taken' = Taken + 1
                BY <1>1, <1>13, <2>1 DEF InHand, Taken
            <3>4. Taken + 1 \in 1 .. Len(typed)
                BY <1>13, <3>2
            <3>5. h = Announced(typed[Taken + 1]) /\ typed[Taken + 1] \in Name
                BY <1>3, <1>13, <3>2, <3>4
            <3>6. spc' = "handle" => sbuf' = Original(typed[Taken + 1])
                <4>1. SUFFICES ASSUME spc' = "handle"
                               PROVE  sbuf' = Original(typed[Taken + 1])
                    OBVIOUS
                <4>2. DataSize(h) = 0
                    BY <1>1, <4>1
                <4>3. Original(typed[Taken + 1]) \in Seq(Byte) /\ Len(Original(typed[Taken + 1])) = 0
                    BY <3>5, <4>2, MessageSends
                <4>4. sbuf' \in Seq(Byte) /\ Len(sbuf') = 0
                    BY <1>4, <4>2 DEF TypeOK
                <4> QED
                    BY <4>3, <4>4, EmptySeq
            <3> QED
                BY <1>1, <1>3, <1>15, <3>2, <3>3, <3>5, <3>6 DEF MessagesInOrder
        <2>2. CASE Command(h) # "SENDMSG"
            <3>1. \A p \in 1 .. 1 : c2s[p] \notin Messages
                BY <1>3, <2>2 DEF Messages
            <3>2. 1 \in Nat /\ 1 <= Len(c2s)
                BY <1>3
            <3>3. Listed(After(c2s, 1), Messages, Taken + 1, Len(typed), Announcements)
                BY <1>3, <1>13, <1>14, <3>1, <3>2, ListedAfter, Zenon
            <3>4. ~InHand' /\ Taken' = Taken
                BY <1>1, <1>13, <2>2 DEF InHand, Taken
            <3> QED
                BY <1>3, <1>14, <1>15, <3>3, <3>4 DEF MessagesInOrder
        <2> QED
            BY <2>1, <2>2
    <1>17. ForwardedRight'
        BY <1>1, <1>2 DEF ForwardedRight
    <1> QED
        BY <1>1, <1>12, <1>16, <1>17 DEF ServerRight

LEMMA ServerParseBlock ==
    ASSUME TypeOK, TypeOK', ServerRight, ParseBlock
    PROVE  ServerRight'
    <1> USE DEF files, console, waiting, thread, input
    <1>1. PICK m \in Lengths(c2s, Block, ClientGone) :
              /\ ~MeetsHeader(c2s, m)
              /\ sbuf' = Stored(sbuf, si, SubSeq(c2s, 1, m))
              /\ c2s' = After(c2s, m)
              /\ Asked("server", Block, m)
        BY DEF ParseBlock
    <1>2. /\ spc = "data" /\ si < Blocks(sbuf) /\ si' = si + 1
          /\ UNCHANGED <<client, spc, smsg, typed, forwarded>>
        BY DEF ParseBlock
    <1>3. /\ c2s \in Seq(Unit) /\ sbuf \in Seq(Byte) /\ si \in Nat /\ si \in Int
          /\ Place(si) \in Nat /\ Place(si) \in Int /\ smsg \in Header
          /\ Block \in Nat /\ ClientGone \in BOOLEAN /\ Len(c2s) \in Nat /\ Len(sbuf) \in Nat
        BY Types, BlockNat
    <1>4. /\ m \in Nat /\ m <= Block /\ m <= Len(c2s)
          /\ \A k \in 1 .. m : ~IsHeader(c2s[k])
          /\ Len(sbuf') = Len(sbuf) /\ Blocks(sbuf') = Blocks(sbuf)
          /\ c2s' \in Seq(Unit) /\ Len(c2s') = Len(c2s) - m
        BY <1>1, <1>3, Received
    <1> SUFFICES ASSUME "server" \notin short'
                 PROVE  ServerRight'
        BY DEF ServerRight
    <1>5. "server" \notin short /\ m = Block
        <2>1. short \subseteq Host
            BY DEF TypeOK
        <2>2. "server" \notin short /\ m >= Block
            BY <1>1, <1>3, <1>4, <2>1, Hosts, AskedDoes
        <2> QED
            BY <1>3, <1>4, <2>2
    <1>6. ForwardedRight /\ ToServer /\ MessagesInOrder
        BY <1>2, <1>5 DEF ServerRight
    <1>7. Frames("told", c2s')
        BY <1>1, <1>3, <1>4, <1>6, UnitKinds, FramesAfter DEF ToServer
    <1>8. ~ClientGone => Complete(c2s', 0)
        BY <1>1, <1>3, <1>4, <1>6, UnitKinds, CompleteAfter DEF ToServer
    <1>9. Place(si + 1) = Place(si) + Block
        BY <1>3, BlockNat, PlaceNext
    <1>10. DataSize(smsg) = Len(sbuf) /\ DataSize(smsg) \in Nat
        BY <1>2, <1>3, <1>6 DEF ToServer
    <1>11. Continues("told", smsg, Place(si) + m, After(c2s, m), 0)
        <2>1. Continues("told", smsg, Place(si), c2s, 0)
            BY <1>2, <1>6 DEF ToServer
        <2> QED
            BY <1>3, <1>4, <1>10, <2>1, ContinuesOn
    <1>12. ~ClientGone => Len(sbuf') <= Place(si') + Len(c2s')
        <2>1. SUFFICES ASSUME ~ClientGone
                       PROVE  Len(sbuf') <= Place(si') + Len(c2s')
            OBVIOUS
        <2>2. Len(sbuf) <= Place(si) + Len(c2s)
            BY <1>2, <1>6, <2>1 DEF ToServer
        <2>3. Place(si') = Place(si) + m
            BY <1>2, <1>5, <1>9
        <2> QED
            BY <1>3, <1>4, <2>2, <2>3
    <1>13. ClientGone' <=> ClientGone
        BY <1>2 DEF ClientGone
    <1>14. Continues("told", smsg', Place(si'), c2s', 0)
        BY <1>1, <1>2, <1>5, <1>9, <1>11
    <1>15. ToServer'
        BY <1>2, <1>4, <1>7, <1>8, <1>10, <1>12, <1>13, <1>14 DEF ToServer
    <1>16. /\ InHand' = InHand /\ Taken' = Taken
           /\ Announcements' = Announcements /\ typed' = typed
        BY <1>2 DEF InHand, Taken, Announcements
    <1>17. MessagesInOrder'
        <2>1. /\ Listed(c2s, Messages, Taken + 1, Len(typed), Announcements)
              /\ Taken + 1 \in Nat /\ Len(typed) \in Nat
            BY <1>6, Lists DEF MessagesInOrder
        <2>2. \A p \in 1 .. m : c2s[p] \notin Messages
            BY <1>3, <1>4, Unannounced
        <2>3. Listed(After(c2s, m), Messages, Taken + 1, Len(typed), Announcements)
            BY <1>3, <1>4, <2>1, <2>2, ListedAfter, Zenon
        <2> QED
            BY <1>1, <1>2, <1>6, <1>16, <2>3 DEF MessagesInOrder
    <1>18. ForwardedRight'
        BY <1>2, <1>6 DEF ForwardedRight
    <1> QED
        BY <1>2, <1>15, <1>17, <1>18 DEF ServerRight

LEMMA DataComes ==
    ASSUME NEW how, NEW h \in Header, NEW from \in Nat, NEW s \in Seq(Unit),
           NEW m \in Nat, m <= Len(s), from + m <= DataSize(h),
           Continues(how, h, from, s, 0)
    PROVE  /\ \A k \in 1 .. m : s[k] \in Byte /\ Follows(how, h, from + k, s[k])
           /\ SubSeq(s, 1, m) \in Seq(Byte)
           /\ Len(SubSeq(s, 1, m)) = m
           /\ \A k \in 1 .. m : SubSeq(s, 1, m)[k] = s[k]
    <1>1. DataSize(h) \in Nat
        BY HeaderProperties
    <1> QED
        BY <1>1, UnitKinds, PartIsData

\* A message's text is received whole, to the start of the buffer.
LEMMA TextPut ==
    ASSUME NEW x \in Name, NEW buf \in Seq(Byte), Len(buf) = Size[x],
           NEW s \in Seq(Unit), Size[x] <= Len(s),
           \A k \in 1 .. Size[x] : s[k] = <<x, k>>
    PROVE  Stored(buf, 0, SubSeq(s, 1, Size[x])) = Original(x)
    <1> DEFINE n == Size[x]
               part == SubSeq(s, 1, n)
               new == Stored(buf, 0, part)
    <1>1. /\ Original(x) \in Seq(Byte) /\ Len(Original(x)) = n /\ n \in Nat
          /\ \A k \in 1 .. n : Original(x)[k] = <<x, k>>
        BY MessageSends
    <1>2. \A k \in 1 .. n : s[k] \in Byte
        <2>1. \A k \in 1 .. n : k \in Nat
            BY <1>1
        <2> QED
            BY <2>1, ByteProperties
    <1>3. /\ part \in Seq(Byte) /\ Len(part) = n
          /\ \A k \in 1 .. n : part[k] = <<x, k>>
        BY <1>1, <1>2, PartProperties
    <1> HIDE DEF part
    <1>4. new \in Seq(Byte) /\ Replaced(new, buf, 0, part)
        <2>1. Place(0) = 0 /\ Place(0) \in Int
            BY EmptyData
        <2>2. Stored(buf, 0, part) \in Seq(Byte) /\ Replaced(Stored(buf, 0, part), buf, Place(0), part)
            BY <1>3, <2>1, StoredProperties
        <2> QED
            BY <2>1, <2>2
    <1> HIDE DEF new
    <1>5. Len(new) = n /\ Len(buf) = n
        BY <1>4 DEF Replaced, n
    <1> HIDE DEF n
    <1>6. ASSUME NEW k \in 1 .. n
          PROVE  new[k] = <<x, k>>
        <2>1. 0 + k \in 1 .. Len(buf) /\ 0 + k = k /\ k \in 1 .. Len(part)
            BY <1>1, <1>3, <1>5
        <2>2. new[0 + k] = part[k]
            BY <1>4, <2>1 DEF Replaced
        <2> QED
            BY <1>3, <2>1, <2>2
    <1>7. new = Original(x)
        <2>1. Original(x) \in Seq(Byte) /\ new \in Seq(Byte) /\ Len(new) = Len(Original(x))
            BY <1>1, <1>4, <1>5
        <2>2. \A k \in 1 .. Len(new) : new[k] = Original(x)[k]
            BY <1>1, <1>5, <1>6
        <2> QED
            BY <2>1, <2>2, SeqEqual
    <1> QED
        BY <1>7 DEF new, part, n

LEMMA TextReceived ==
    ASSUME NEW x \in Name, NEW buf \in Seq(Byte), Len(buf) = Size[x],
           NEW s \in Seq(Unit), Size[x] <= Len(s),
           Continues("told", Announced(x), 0, s, 0)
    PROVE  Stored(buf, 0, SubSeq(s, 1, Size[x])) = Original(x)
    <1> DEFINE n == Size[x]
    <1>1. /\ DataSize(Announced(x)) = n /\ FileName(Announced(x)) = x
          /\ Command(Announced(x)) = "SENDMSG"
          /\ n \in Nat
        BY MessageSends
    <1>2. n <= Len(s)
        OBVIOUS
    <1> HIDE DEF n
    <1> DEFINE h == Announced(x)
    <1>3. h \in Header /\ 0 + n <= DataSize(h) /\ 0 \in Nat
          /\ Continues("told", h, 0, s, 0)
        BY <1>1, MessageSends
    <1> HIDE DEF h
    <1>4. \A k \in 1 .. n : Follows("told", h, 0 + k, s[k])
        BY <1>1, <1>2, <1>3, DataComes, Zenon
    <1>5. \A k \in 1 .. n : s[k] = <<x, k>>
        <2>1. \A k \in 1 .. n : 0 + k = k /\ k <= n
            OBVIOUS
        <2> QED
            BY <1>1, <1>4, <2>1 DEF Follows, h
    <1> QED
        BY <1>5, TextPut DEF n

LEMMA ServerParseRest ==
    ASSUME TypeOK, TypeOK', ServerRight, ParseRest
    PROVE  ServerRight'
    <1> USE DEF files, console, waiting, thread, input
    <1>1. PICK m \in Lengths(c2s, Rest(sbuf), ClientGone) :
              /\ ~MeetsHeader(c2s, m)
              /\ sbuf' = Stored(sbuf, RestBlock, SubSeq(c2s, 1, m))
              /\ c2s' = After(c2s, m)
              /\ Asked("server", Rest(sbuf), m)
        BY DEF ParseRest
    <1>2. /\ spc = "data" /\ si = Blocks(sbuf) /\ spc' = "handle"
          /\ UNCHANGED <<client, smsg, si, typed, forwarded>>
        BY DEF ParseRest
    <1>3. /\ c2s \in Seq(Unit) /\ sbuf \in Seq(Byte)
          /\ Place(si) \in Nat /\ smsg \in Header /\ Rest(sbuf) \in Nat
          /\ ClientGone \in BOOLEAN /\ Len(c2s) \in Nat /\ Len(sbuf) \in Nat
          /\ Len(sbuf) = Place(si) + Rest(sbuf)
        BY <1>2, Types, BlockNat, BlocksOf
    <1>4. RestBlock \in Int /\ Place(RestBlock) \in Int
        <2>1. CASE si = 0
            BY <2>1, EmptyData DEF RestBlock
        <2>2. CASE si # 0
            BY <1>2, <1>3, <2>2, PlaceOfRest DEF RestBlock
        <2> QED
            BY <2>1, <2>2
    <1>5. /\ m \in Nat /\ m <= Rest(sbuf) /\ m <= Len(c2s)
          /\ \A k \in 1 .. m : ~IsHeader(c2s[k])
          /\ Len(sbuf') = Len(sbuf)
          /\ c2s' \in Seq(Unit) /\ Len(c2s') = Len(c2s) - m
        BY <1>1, <1>3, <1>4, Received
    <1> SUFFICES ASSUME "server" \notin short'
                 PROVE  ServerRight'
        BY DEF ServerRight
    <1>6. "server" \notin short /\ m = Rest(sbuf)
        <2>1. short \subseteq Host
            BY DEF TypeOK
        <2>2. "server" \notin short /\ m >= Rest(sbuf)
            BY <1>1, <1>3, <1>5, <2>1, Hosts, AskedDoes
        <2> QED
            BY <1>3, <1>5, <2>2
    <1>7. ForwardedRight /\ ToServer /\ MessagesInOrder
        BY <1>2, <1>6 DEF ServerRight
    <1>8. Frames("told", c2s')
        BY <1>1, <1>3, <1>5, <1>7, UnitKinds, FramesAfter DEF ToServer
    <1>9. ~ClientGone => Complete(c2s', 0)
        BY <1>1, <1>3, <1>5, <1>7, UnitKinds, CompleteAfter DEF ToServer
    <1>10. DataSize(smsg) = Len(sbuf) /\ DataSize(smsg) \in Nat
           /\ Continues("told", smsg, Place(si), c2s, 0)
        BY <1>2, <1>3, <1>7 DEF ToServer
    <1>11. Continues("told", smsg, Place(si) + m, After(c2s, m), 0)
        BY <1>3, <1>5, <1>10, ContinuesOn
    <1>12. c2s' = <<>> \/ IsHeader(c2s'[1])
        <2>1. SUFFICES ASSUME c2s' # <<>>
                       PROVE  IsHeader(c2s'[1])
            OBVIOUS
        <2>2. 0 + 1 <= Len(c2s') /\ 0 + 1 = 1
            BY <1>5, <2>1, HeadProperties
        <2>3. Place(si) + m = DataSize(smsg) /\ 1 \in 1 .. DataSize(smsg) + 1 - (Place(si) + m)
            BY <1>3, <1>6, <1>10
        <2>4. Follows("told", smsg, DataSize(smsg) + 1, c2s'[1])
            BY <1>1, <1>11, <2>2, <2>3 DEF Continues
        <2>5. DataSize(smsg) + 1 > DataSize(smsg)
            BY <1>10
        <2> QED
            BY <2>4, <2>5 DEF Follows
    <1>13. ClientGone' <=> ClientGone
        BY <1>2 DEF ClientGone
    <1>14. ToServer'
        BY <1>2, <1>5, <1>8, <1>9, <1>10, <1>12, <1>13 DEF ToServer
    <1>15. /\ InHand' = InHand /\ Taken' = Taken
           /\ Announcements' = Announcements /\ typed' = typed
        BY <1>2 DEF InHand, Taken, Announcements
    <1>16. InHand => sbuf' = Original(typed[Taken])
        <2>1. SUFFICES ASSUME InHand
                       PROVE  sbuf' = Original(typed[Taken])
            OBVIOUS
        <2> DEFINE x == typed[Taken]
        <2>2. Taken \in 1 .. Len(typed) /\ smsg = Announced(x)
            <3>1. Taken <= Len(typed) /\ Len(forwarded) \in Nat /\ Len(typed) \in Nat
                BY <1>7, Lists DEF MessagesInOrder
            <3> QED
                BY <1>7, <2>1, <3>1 DEF MessagesInOrder, Taken
        <2>3. x \in Text /\ x \in Name
            BY <2>2, Lists
        <2> HIDE DEF x
        <2>4. Size[x] \in Nat /\ Size[x] < Block /\ Len(sbuf) = Size[x]
            BY <1>10, <2>2, <2>3, Names, MessageSends
        <2>5. Blocks(sbuf) = 0 /\ Rest(sbuf) = Size[x]
            BY <2>4, BlockNat DEF Blocks, Rest
        <2>6. RestBlock = 0 /\ m = Size[x] /\ Place(si) = 0
            BY <1>2, <1>6, <2>5, EmptyData DEF RestBlock
        <2>7. Continues("told", Announced(x), 0, c2s, 0)
            BY <1>10, <2>2, <2>6
        <2>8. Stored(sbuf, 0, SubSeq(c2s, 1, Size[x])) = Original(x)
            BY <1>3, <1>5, <2>3, <2>4, <2>6, <2>7, TextReceived
        <2> QED
            BY <1>1, <2>6, <2>8 DEF x
    <1>17. MessagesInOrder'
        <2>1. /\ Listed(c2s, Messages, Taken + 1, Len(typed), Announcements)
              /\ Taken + 1 \in Nat /\ Len(typed) \in Nat
            BY <1>7, Lists DEF MessagesInOrder
        <2>2. \A p \in 1 .. m : c2s[p] \notin Messages
            BY <1>3, <1>5, Unannounced
        <2>3. Listed(After(c2s, m), Messages, Taken + 1, Len(typed), Announcements)
            BY <1>3, <1>5, <2>1, <2>2, ListedAfter, Zenon
        <2> QED
            BY <1>1, <1>2, <1>7, <1>15, <1>16, <2>3 DEF MessagesInOrder
    <1>18. ForwardedRight'
        BY <1>2, <1>7 DEF ForwardedRight
    <1> QED
        BY <1>2, <1>14, <1>17, <1>18 DEF ServerRight

LEMMA ServerInStep ==
    ASSUME TypeOK, ServerRight, ParseGarbled \/ PartOfCommand
    PROVE  ServerRight'
    <1> USE DEF files, console, waiting, thread, input
    <1>1. CASE ParseGarbled
        <2> SUFFICES ASSUME "server" \notin short
                     PROVE  FALSE
            BY <1>1 DEF ParseGarbled, ServerRight
        <2>1. CASE spc = "command" /\ c2s # <<>> /\ ~IsHeader(Head(c2s))
            <3>1. c2s[1] = Head(c2s)
                BY <2>1, Types, StreamTaken
            <3> QED
                BY <2>1, <3>1 DEF ServerRight, ToServer
        <2>2. CASE spc = "data" /\ MeetsHeader(c2s, IF si < Blocks(sbuf) THEN Block ELSE Rest(sbuf))
            <3> DEFINE n == IF si < Blocks(sbuf) THEN Block ELSE Rest(sbuf)
            <3>1. /\ Continues("told", smsg, Place(si), c2s, 0)
                  /\ DataSize(smsg) = Len(sbuf)
                BY <2>2 DEF ServerRight, ToServer
            <3>2. /\ sbuf \in Seq(Byte) /\ si \in Nat /\ si <= Blocks(sbuf)
                  /\ Place(si) \in Nat /\ Len(c2s) \in Nat /\ c2s \in Seq(Unit)
                BY Types DEF TypeOK
            <3>3. /\ Len(sbuf) \in Nat /\ Blocks(sbuf) \in Nat /\ Rest(sbuf) \in Nat
                  /\ Place(Blocks(sbuf)) \in Nat
                  /\ Len(sbuf) = Place(Blocks(sbuf)) + Rest(sbuf)
                BY <3>2, BlockNat, BlocksOf
            <3>4. n \in Nat /\ Place(si) + n <= Len(sbuf)
                <4>1. CASE si < Blocks(sbuf)
                    <5>1. Place(si) + Block <= Place(Blocks(sbuf))
                        BY <3>2, <3>3, <4>1, BlockNat, PlacesInOrder
                    <5> QED
                        BY <3>2, <3>3, <4>1, <5>1, BlockNat
                <4>2. CASE ~(si < Blocks(sbuf))
                    <5>1. si = Blocks(sbuf)
                        BY <3>2, <3>3, <4>2
                    <5> QED
                        BY <3>3, <4>2, <5>1
                <4> QED
                    BY <4>1, <4>2
            <3>5. PICK k \in 1 .. n : k <= Len(c2s) /\ IsHeader(c2s[k])
                BY <2>2 DEF MeetsHeader
            <3> HIDE DEF n
            <3>6. /\ k \in 1 .. DataSize(smsg) + 1 - Place(si) /\ 0 + k <= Len(c2s) /\ 0 + k = k
                  /\ Place(si) + k <= DataSize(smsg)
                BY <3>1, <3>2, <3>3, <3>4, <3>5
            <3>7. Follows("told", smsg, Place(si) + k, c2s[k])
                BY <3>1, <3>6 DEF Continues
            <3> QED
                BY <3>5, <3>6, <3>7 DEF Follows
        <2> QED
            BY <1>1, <2>1, <2>2 DEF ParseGarbled
    <1>2. CASE PartOfCommand
        BY <1>2 DEF PartOfCommand, ServerRight
    <1> QED
        BY <1>1, <1>2

(***************************************************************************)
(* The handlers.                                                           *)
(***************************************************************************)
\* The thread is done with a command, and has nothing in hand.
LEMMA ServerDone ==
    ASSUME TypeOK, ServerRight, spc \notin {"data", "lost", "closed"},
           spc' \in {"command", "send"},
           UNCHANGED <<c2s, client, typed, short>>,
           Taken' = Taken,
           ForwardedRight => ForwardedRight'
    PROVE  ServerRight'
    <1> SUFFICES ASSUME "server" \notin short
                 PROVE  ServerRight'
        BY DEF ServerRight
    <1>1. ForwardedRight /\ ToServer /\ MessagesInOrder
        BY DEF ServerRight
    <1>2. ToServer'
        BY <1>1 DEF ToServer, ClientGone
    <1>3. ~InHand' /\ Announcements' = Announcements
        BY DEF InHand, Announcements
    <1>4. MessagesInOrder'
        BY <1>1, <1>3 DEF MessagesInOrder
    <1> QED
        BY <1>1, <1>2, <1>4 DEF ServerRight

LEMMA ServerHandle ==
    ASSUME TypeOK, TypeOK', ServerRight,
           \/ sendmsg_handler \/ put_handler \/ put_handler_Fails \/ get_handler
           \/ SendChunk \/ CloseConn
    PROVE  ServerRight'
    <1> USE DEF files, console, waiting, thread, input
    <1>1. CASE sendmsg_handler
        <2> SUFFICES ASSUME "server" \notin short
                     PROVE  ServerRight'
            BY <1>1 DEF sendmsg_handler, ServerRight
        <2>1. /\ spc = "handle" /\ Command(smsg) = "SENDMSG" /\ spc' = "command"
              /\ forwarded' = Append(forwarded, <<FileName(smsg), sbuf>>)
              /\ UNCHANGED <<c2s, client, typed, short>>
            BY <1>1 DEF sendmsg_handler, Handle
        <2>2. ForwardedRight /\ MessagesInOrder
            BY <2>1 DEF ServerRight
        <2>3. InHand /\ ~InHand'
            BY <2>1 DEF InHand
        <2>4. /\ Len(forwarded) \in Nat /\ Len(typed) \in Nat /\ Len(forwarded') = Len(forwarded) + 1
              /\ forwarded'[Len(forwarded) + 1] = <<FileName(smsg), sbuf>>
              /\ \A i \in 1 .. Len(forwarded) : forwarded'[i] = forwarded[i]
            <3>1. forwarded \in Seq(Name \X Seq(Byte)) /\ <<FileName(smsg), sbuf>> \in Name \X Seq(Byte)
                BY Types, HeaderProperties DEF TypeOK
            <3> QED
                BY <2>1, <3>1, AppendProperties, LenProperties, Lists
        <2>5. Taken = Len(forwarded) + 1 /\ Taken' = Taken
            BY <2>3, <2>4 DEF Taken
        <2>6. /\ Taken <= Len(typed) /\ smsg = Announced(typed[Taken])
              /\ sbuf = Original(typed[Taken])
            BY <2>1, <2>2, <2>3 DEF MessagesInOrder
        <2>7. FileName(smsg) = typed[Taken]
            <3>1. Taken \in 1 .. Len(typed)
                BY <2>4, <2>5, <2>6
            <3> QED
                BY <2>6, <3>1, Lists, MessageSends
        <2>8. ForwardedRight'
            <3>1. \A i \in 1 .. Len(forwarded') : i \in 1 .. Len(forwarded) \/ i = Len(forwarded) + 1
                BY <2>4
            <3>2. ASSUME NEW i \in 1 .. Len(forwarded')
                  PROVE  forwarded'[i] = <<typed[i], Original(typed[i])>>
                BY <2>2, <2>4, <2>5, <2>6, <2>7, <3>1 DEF ForwardedRight
            <3>3. Len(forwarded') <= Len(typed)
                BY <2>4, <2>5, <2>6
            <3> QED
                BY <2>1, <3>2, <3>3 DEF ForwardedRight
        <2> QED
            BY <2>1, <2>5, <2>8, ServerDone
    <1>2. CASE put_handler
        <2>1. /\ spc = "handle" /\ Command(smsg) = "PUT" /\ spc' = "command"
              /\ UNCHANGED <<c2s, client, typed, short, forwarded>>
            BY <1>2 DEF put_handler, Handle
        <2>2. Taken' = Taken /\ (ForwardedRight => ForwardedRight')
            BY <2>1 DEF Taken, InHand, ForwardedRight
        <2> QED
            BY <2>1, <2>2, ServerDone
    <1>3. CASE get_handler
        <2>1. /\ spc = "handle" /\ Command(smsg) = "GET" /\ spc' \in {"send", "closed"}
              /\ UNCHANGED <<c2s, client, typed, short, forwarded>>
            BY <1>3 DEF get_handler, Handle
        <2>2. Taken' = Taken /\ (ForwardedRight => ForwardedRight')
            BY <2>1 DEF Taken, InHand, ForwardedRight
        <2>3. CASE spc' = "send"
            BY <2>1, <2>2, <2>3, ServerDone
        <2>4. CASE spc' = "closed"
            BY <2>1, <2>2, <2>4 DEF ServerRight
        <2> QED
            BY <2>1, <2>3, <2>4
    <1>4. CASE SendChunk
        <2>1. /\ spc = "send" /\ spc' \in {"command", "send"}
              /\ UNCHANGED <<c2s, client, typed, short, forwarded>>
            BY <1>4 DEF SendChunk
        <2>2. Taken' = Taken /\ (ForwardedRight => ForwardedRight')
            BY <2>1 DEF Taken, InHand, ForwardedRight
        <2> QED
            BY <2>1, <2>2, ServerDone
    <1>5. CASE put_handler_Fails
        BY <1>5 DEF put_handler_Fails, ServerRight, ForwardedRight
    <1>6. CASE CloseConn
        BY <1>6 DEF CloseConn, ServerRight, ForwardedRight
    <1> QED
        BY <1>1, <1>2, <1>3, <1>4, <1>5, <1>6

\* comm_get and comm_waitmsg only read what the server sends.
LEMMA ServerOther ==
    ASSUME TypeOK, ServerRight,
           \/ Get \/ comm_waitmsg \/ PartOfHeader
           \/ \E p \in Peer : Deliver(p)
    PROVE  ServerRight'
    <1> USE DEF files, console, waiting, thread, input
    <1>1. UNCHANGED <<c2s, spc, smsg, sbuf, si, typed, forwarded>>
        BY DEF Get, GetHeader, GetNoFile, GetBlock, GetRest, GetGarbled, comm_waitmsg, WaitHeader,
               WaitData, WaitGarbled, WaitEnd, PartOfHeader, Deliver
    <1>2. "server" \in short => "server" \in short'
        <2>1. CASE UNCHANGED short
            BY <2>1
        <2>2. CASE short' = short \cup {"client"}
            BY <2>2
        <2>3. CASE \E n, m : Asked("client", n, m)
            BY <2>3 DEF Asked
        <2> QED
            BY <2>1, <2>2, <2>3
               DEF Get, GetHeader, GetNoFile, GetBlock, GetRest, GetGarbled, comm_waitmsg, WaitHeader,
                   WaitData, WaitGarbled, WaitEnd, PartOfHeader, Deliver
    <1>3. ClientGone => ClientGone'
        BY DEF Get, GetHeader, GetNoFile, GetBlock, GetRest, GetGarbled, comm_waitmsg, WaitHeader,
               WaitData, WaitGarbled, WaitEnd, PartOfHeader, Deliver, ClientGone
    <1> QED
        BY <1>1, <1>2, <1>3, ServerSame

LEMMA ServerStep ==
    ASSUME TypeOK, TypeOK', ServerRight, [Next]_vars
    PROVE  ServerRight'
    <1>1. CASE Next
        BY <1>1, ServerConsole, ServerParseHeader, ServerParseBlock, ServerParseRest, ServerInStep,
           ServerHandle, ServerOther
           DEF Next, clithread, parse_msg
    <1>2. CASE UNCHANGED vars
        BY <1>2, ServerSame DEF vars, files, console, waiting, thread, input, ClientGone
    <1> QED
        BY <1>1, <1>2

(***************************************************************************)
(* Pieces.  What the server sends in one piece is there in one piece, and  *)
(* the stream is nothing but such pieces: e[i] is where the i-th ends.     *)
(***************************************************************************)
CutAt(s, q, e) ==
    /\ e[0] = 0 /\ e[Len(q)] = Len(s)
    /\ \A i \in 0 .. Len(q) : e[i] \in Nat /\ e[i] <= Len(s)
    /\ \A i, j \in 0 .. Len(q) : i <= j => e[i] <= e[j]
    /\ \A i \in 1 .. Len(q) : /\ q[i] # <<>>
                              /\ e[i] = e[i - 1] + Len(q[i])
                              /\ \A k \in 1 .. Len(q[i]) : s[e[i - 1] + k] = q[i][k]

Cut(U, s, q) == s \in Seq(U) /\ q \in Seq(Seq(U)) /\ \E e : CutAt(s, q, e)

LEMMA CutNothing ==
    ASSUME NEW U
    PROVE  Cut(U, <<>>, <<>>)
    <1> DEFINE e == [i \in 0 .. 0 |-> 0]
    <1>1. /\ Len(<<>>) = 0 /\ e[0] = 0 /\ 0 \in Nat
          /\ \A i \in 0 .. 0 : i = 0 /\ e[i] = 0
        BY EmptySeq
    <1> HIDE DEF e
    <1>2. CutAt(<<>>, <<>>, e)
        BY <1>1 DEF CutAt
    <1> QED
        BY <1>2, EmptySeq DEF Cut

LEMMA CutMore ==
    ASSUME NEW U, NEW s, NEW q, Cut(U, s, q),
           NEW t \in Seq(U), t # <<>>
    PROVE  Cut(U, s \o t, Append(q, t))
    <1> DEFINE st == s \o t
               qt == Append(q, t)
               n == Len(q)
    <1>1. /\ Len(s) \in Nat /\ Len(t) \in Nat /\ Len(st) = Len(s) + Len(t)
          /\ \A k \in 1 .. Len(s) + Len(t) :
                 st[k] = IF k <= Len(s) THEN s[k] ELSE t[k - Len(s)]
        BY ConcatProperties, LenProperties DEF Cut
    <1>2. /\ n \in Nat /\ Len(qt) = n + 1 /\ qt[n + 1] = t
          /\ \A i \in 1 .. n : qt[i] = q[i]
        BY AppendProperties, LenProperties DEF Cut
    <1>3. \A i \in 1 .. n : Len(q[i]) \in Nat
        BY LenProperties DEF Cut
    <1> HIDE DEF st, qt
    <1>4. PICK e : CutAt(s, q, e)
        BY DEF Cut
    <1> DEFINE d == [i \in 0 .. n + 1 |-> IF i <= n THEN e[i] ELSE Len(s) + Len(t)]
    <1>5. /\ \A i \in 0 .. n + 1 : i \in 0 .. n \/ i = n + 1
          /\ \A i \in 0 .. n : i \in 0 .. n + 1 /\ i <= n
          /\ n + 1 \in 0 .. n + 1 /\ ~(n + 1 <= n) /\ 0 \in 0 .. n /\ n \in 0 .. n
          /\ \A i \in 1 .. n + 1 : i \in 1 .. n \/ i = n + 1
          /\ \A i \in 1 .. n : i - 1 \in 0 .. n /\ i \in 0 .. n
          /\ (n + 1) - 1 = n
        BY <1>2
    <1>6. d[n + 1] = Len(s) + Len(t) /\ \A i \in 0 .. n : d[i] = e[i]
        BY <1>5
    <1> HIDE DEF d
    <1>7. /\ e[0] = 0 /\ e[n] = Len(s)
          /\ \A i \in 0 .. n : e[i] \in Nat /\ e[i] <= Len(s)
        BY <1>4 DEF CutAt
    <1>8. d[0] = 0 /\ d[Len(qt)] = Len(st)
        BY <1>1, <1>2, <1>5, <1>6, <1>7
    <1>9. \A i \in 0 .. n + 1 : d[i] \in Nat /\ d[i] <= Len(st)
        <2> TAKE i \in 0 .. n + 1
        <2>1. CASE i \in 0 .. n
            BY <1>1, <1>6, <1>7, <2>1
        <2>2. CASE i = n + 1
            BY <1>1, <1>6, <2>2
        <2> QED
            BY <1>5, <2>1, <2>2
    <1>10. ASSUME NEW i \in 0 .. n + 1, NEW j \in 0 .. n + 1, i <= j
           PROVE  d[i] <= d[j]
        <2>1. CASE j \in 0 .. n
            <3>1. i \in 0 .. n
                BY <1>2, <1>10, <2>1
            <3>2. e[i] <= e[j]
                BY <1>4, <1>10, <2>1, <3>1 DEF CutAt
            <3> QED
                BY <1>6, <2>1, <3>1, <3>2
        <2>2. CASE j = n + 1
            BY <1>1, <1>6, <1>9, <2>2
        <2> QED
            BY <1>5, <2>1, <2>2
    <1>11. ASSUME NEW i \in 1 .. n
           PROVE  /\ qt[i] # <<>> /\ d[i] = d[i - 1] + Len(qt[i])
                  /\ \A k \in 1 .. Len(qt[i]) : st[d[i - 1] + k] = qt[i][k]
        <2>1. /\ q[i] # <<>> /\ e[i] = e[i - 1] + Len(q[i])
              /\ \A k \in 1 .. Len(q[i]) : s[e[i - 1] + k] = q[i][k]
            BY <1>4 DEF CutAt
        <2>2. qt[i] = q[i] /\ d[i] = e[i] /\ d[i - 1] = e[i - 1]
            BY <1>2, <1>5, <1>6
        <2>3. ASSUME NEW k \in 1 .. Len(q[i])
              PROVE  st[e[i - 1] + k] = q[i][k]
            <3>1. /\ e[i - 1] \in Nat /\ e[i] \in Nat /\ e[i] <= Len(s)
                BY <1>5, <1>7
            <3>2. e[i - 1] + k \in 1 .. Len(s) + Len(t) /\ e[i - 1] + k <= Len(s)
                BY <1>1, <1>3, <2>1, <3>1
            <3> QED
                BY <1>1, <2>1, <3>2
        <2> QED
            BY <2>1, <2>2, <2>3
    <1>12. /\ qt[n + 1] # <<>> /\ d[n + 1] = d[n] + Len(qt[n + 1])
           /\ \A k \in 1 .. Len(qt[n + 1]) : st[d[n] + k] = qt[n + 1][k]
        <2>1. d[n] = Len(s) /\ qt[n + 1] = t
            BY <1>2, <1>5, <1>6, <1>7
        <2>2. ASSUME NEW k \in 1 .. Len(t)
              PROVE  st[Len(s) + k] = t[k]
            <3>1. /\ Len(s) + k \in 1 .. Len(s) + Len(t) /\ ~(Len(s) + k <= Len(s))
                  /\ (Len(s) + k) - Len(s) = k
                BY <1>1
            <3> QED
                BY <1>1, <3>1
        <2> QED
            BY <1>6, <2>1, <2>2
    <1>13. ASSUME NEW i \in 1 .. n + 1
           PROVE  /\ qt[i] # <<>> /\ d[i] = d[i - 1] + Len(qt[i])
                  /\ \A k \in 1 .. Len(qt[i]) : st[d[i - 1] + k] = qt[i][k]
        <2>1. CASE i \in 1 .. n
            BY <1>11, <2>1
        <2>2. CASE i = n + 1
            BY <1>5, <1>12, <2>2
        <2> QED
            BY <1>5, <2>1, <2>2
    <1>14. CutAt(st, qt, d)
        BY <1>2, <1>8, <1>9, <1>10, <1>13 DEF CutAt
    <1>15. st \in Seq(U) /\ qt \in Seq(Seq(U))
        BY ConcatProperties, AppendProperties DEF Cut, st, qt
    <1> QED
        BY <1>14, <1>15 DEF Cut, st, qt

LEMMA CutFirst ==
    ASSUME NEW U, NEW s, NEW q, Cut(U, s, q), Len(s) >= 1
    PROVE  /\ Len(q) \in Nat /\ Len(q) >= 1 /\ q[1] \in Seq(U)
           /\ Len(q[1]) \in Nat /\ Len(q[1]) >= 1 /\ Len(q[1]) <= Len(s)
           /\ \A k \in 1 .. Len(q[1]) : s[k] = q[1][k]
           /\ s[1] = q[1][1]
           /\ Cut(U, After(s, Len(q[1])), After(q, 1))
    <1> DEFINE n == Len(q)
               m == Len(q[1])
               t == After(s, m)
               r == After(q, 1)
    <1>1. Len(s) \in Nat /\ Len(s) >= 1 /\ n \in Nat
        BY LenProperties DEF Cut
    <1>2. PICK e : CutAt(s, q, e)
        BY DEF Cut
    <1>3. /\ e[0] = 0 /\ e[n] = Len(s)
          /\ \A i \in 0 .. n : e[i] \in Nat /\ e[i] <= Len(s)
        BY <1>2 DEF CutAt
    <1>4. \A i \in 1 .. n : /\ q[i] # <<>> /\ e[i] = e[i - 1] + Len(q[i])
                            /\ \A k \in 1 .. Len(q[i]) : s[e[i - 1] + k] = q[i][k]
        BY <1>2 DEF CutAt
    <1>5. \A i, j \in 0 .. n : i <= j => e[i] <= e[j]
        BY <1>2 DEF CutAt
    <1>6. n >= 1 /\ 1 \in 1 .. n /\ 1 \in 0 .. n /\ 0 \in 0 .. n /\ 1 - 1 = 0
        <2>1. n # 0
            BY <1>1, <1>3
        <2> QED
            BY <1>1, <2>1
    <1>7. q[1] \in Seq(U) /\ q[1] # <<>> /\ m \in Nat /\ m >= 1 /\ 1 \in 1 .. m
        <2>1. q[1] \in Seq(U) /\ q[1] # <<>>
            BY <1>4, <1>6, LenProperties DEF Cut
        <2> QED
            BY <2>1, HeadProperties
    <1>8. e[1] = m /\ m <= Len(s)
        BY <1>3, <1>4, <1>6, <1>7
    <1>9. ASSUME NEW k \in 1 .. m
          PROVE  s[k] = q[1][k]
        <2>1. s[e[1 - 1] + k] = q[1][k]
            BY <1>4, <1>6
        <2>2. e[1 - 1] + k = k
            BY <1>3, <1>6
        <2> QED
            BY <2>1, <2>2
    <1>10. /\ t \in Seq(U) /\ Len(t) = Len(s) - m
           /\ \A k \in 1 .. Len(s) - m : t[k] = s[m + k]
        BY <1>7, <1>8, AfterProperties DEF Cut
    <1>11. /\ r \in Seq(Seq(U)) /\ Len(r) = n - 1
           /\ \A k \in 1 .. n - 1 : r[k] = q[1 + k]
        <2>1. 1 \in Nat /\ 1 <= Len(q)
            BY <1>6
        <2> QED
            BY <2>1, AfterProperties DEF Cut
    <1> HIDE DEF t, r, m
    <1>20. /\ m \in Nat /\ m >= 1 /\ m <= Len(s) /\ Len(s) \in Nat
          /\ Len(t) = Len(s) - m /\ Len(t) \in Nat /\ e[1] = m
        BY <1>1, <1>7, <1>8, <1>10
    <1> DEFINE d == [i \in 0 .. n - 1 |-> e[i + 1] - m]
    <1>12. \A i \in 0 .. n - 1 : i + 1 \in 0 .. n /\ 1 <= i + 1 /\ d[i] = e[i + 1] - m
        BY <1>1
    <1> HIDE DEF d
    <1>13. ASSUME NEW i \in 0 .. n - 1
           PROVE  /\ d[i] \in Nat /\ d[i] <= Len(t)
                  /\ e[i + 1] = m + d[i]
        <2>1. e[i + 1] \in Nat /\ e[i + 1] <= Len(s) /\ e[1] <= e[i + 1]
            BY <1>3, <1>5, <1>6, <1>12
        <2>2. d[i] = e[i + 1] - m
            BY <1>12
        <2> QED
            BY <1>20, <2>1, <2>2
    <1>14. d[0] = 0 /\ d[n - 1] = Len(t)
        <2>1. 0 \in 0 .. n - 1 /\ n - 1 \in 0 .. n - 1 /\ (n - 1) + 1 = n /\ 0 + 1 = 1
            BY <1>1, <1>6
        <2>2. d[0] = e[1] - m /\ d[n - 1] = e[n] - m
            BY <1>12, <2>1
        <2> QED
            BY <1>3, <1>20, <2>2
    <1>15. ASSUME NEW i \in 0 .. n - 1, NEW j \in 0 .. n - 1, i <= j
           PROVE  d[i] <= d[j]
        <2>1. e[i + 1] <= e[j + 1]
            <3>1. i + 1 <= j + 1
                BY <1>15
            <3> QED
                BY <1>5, <1>12, <3>1
        <2>2. e[i + 1] = m + d[i] /\ e[j + 1] = m + d[j] /\ d[i] \in Nat /\ d[j] \in Nat
            BY <1>13
        <2> QED
            BY <1>20, <2>1, <2>2
    <1>16. ASSUME NEW i \in 1 .. n - 1
           PROVE  /\ r[i] # <<>> /\ d[i] = d[i - 1] + Len(r[i])
                  /\ \A k \in 1 .. Len(r[i]) : t[d[i - 1] + k] = r[i][k]
        <2>1. /\ i \in 0 .. n - 1 /\ i - 1 \in 0 .. n - 1 /\ (i - 1) + 1 = i
              /\ 1 + i = i + 1 /\ i + 1 \in 1 .. n /\ (i + 1) - 1 = i
            BY <1>1
        <2>2. r[i] = q[i + 1]
            BY <1>11, <2>1
        <2>3. /\ q[i + 1] # <<>> /\ e[i + 1] = e[(i + 1) - 1] + Len(q[i + 1])
              /\ \A k \in 1 .. Len(q[i + 1]) : s[e[(i + 1) - 1] + k] = q[i + 1][k]
            BY <1>4, <2>1
        <2>4. /\ r[i] # <<>> /\ e[i + 1] = e[i] + Len(r[i])
              /\ \A k \in 1 .. Len(r[i]) : s[e[i] + k] = r[i][k]
            BY <2>1, <2>2, <2>3
        <2>5. /\ e[i + 1] = m + d[i] /\ d[i] \in Nat /\ d[i] <= Len(t) /\ d[i - 1] \in Nat
            BY <1>13, <2>1
        <2>6. e[i] = m + d[i - 1]
            <3>1. e[(i - 1) + 1] = m + d[i - 1]
                BY <1>13, <2>1
            <3> QED
                BY <2>1, <3>1
        <2>7. Len(r[i]) \in Nat
            <3>1. r[i] \in Seq(U)
                BY <2>1, <2>2, LenProperties DEF Cut
            <3> QED
                BY <3>1, LenProperties
        <2>8. d[i] = d[i - 1] + Len(r[i])
            <3>1. /\ m \in Nat /\ d[i] \in Nat /\ d[i - 1] \in Nat
                  /\ e[i + 1] = m + d[i] /\ e[i] = m + d[i - 1]
                  /\ e[i + 1] = e[i] + Len(r[i])
                BY <1>20, <2>4, <2>5, <2>6
            <3>2. PICK x \in Nat, a \in Nat, b \in Nat : x = Len(r[i]) /\ a = d[i] /\ b = d[i - 1]
                BY <2>7, <3>1
            <3>3. m + a = (m + b) + x
                BY <3>1, <3>2, Zenon
            <3>4. m \in Nat
                BY <1>20
            <3>5. a = b + x
                BY <3>3, <3>4
            <3> QED
                BY <3>2, <3>5
        <2>9. ASSUME NEW k \in 1 .. Len(r[i])
              PROVE  t[d[i - 1] + k] = r[i][k]
            <3>1. /\ m \in Nat /\ Len(s) \in Nat /\ d[i] <= Len(s) - m /\ d[i - 1] \in Nat
                  /\ e[i] = m + d[i - 1]
                BY <1>20, <2>5, <2>6
            <3>2. PICK x \in Nat, b \in Nat, l \in Nat : x = Len(r[i]) /\ b = d[i - 1] /\ l = Len(s)
                BY <2>7, <3>1
            <3>3. d[i] = b + x /\ b + x <= l - m /\ k \in 1 .. x
                BY <2>8, <3>1, <3>2
            <3>4. b + k \in 1 .. l - m /\ m + (b + k) = (m + b) + k
                BY <3>1, <3>3
            <3>5. d[i - 1] + k \in 1 .. Len(s) - m /\ m + (d[i - 1] + k) = e[i] + k
                BY <3>1, <3>2, <3>4
            <3> QED
                BY <1>10, <2>4, <3>5
        <2> QED
            BY <2>4, <2>8, <2>9
    <1>17. CutAt(t, r, d)
        BY <1>11, <1>13, <1>14, <1>15, <1>16 DEF CutAt
    <1>18. Cut(U, t, r)
        BY <1>10, <1>11, <1>17 DEF Cut
    <1>19. s[1] = q[1][1]
        BY <1>7, <1>9
    <1> QED
        BY <1>1, <1>6, <1>7, <1>8, <1>9, <1>18, <1>19 DEF t, r, m

\* Parts of a stream one after the other.
LEMMA AfterNothing ==
    ASSUME NEW U, NEW s \in Seq(U)
    PROVE  After(s, 0) = s
    <1>1. 0 \in Nat /\ 0 <= Len(s) /\ Len(s) \in Nat
        BY LenProperties
    <1>2. /\ After(s, 0) \in Seq(U) /\ Len(After(s, 0)) = Len(s) - 0
          /\ \A k \in 1 .. Len(s) - 0 : After(s, 0)[k] = s[0 + k]
        BY <1>1, AfterProperties
    <1>3. Len(After(s, 0)) = Len(s) /\ \A k \in 1 .. Len(s) : After(s, 0)[k] = s[k]
        BY <1>1, <1>2
    <1> QED
        BY <1>2, <1>3, SeqEqual

LEMMA AfterAfter ==
    ASSUME NEW U, NEW s \in Seq(U), NEW m \in Nat, NEW n \in Nat, m + n <= Len(s)
    PROVE  After(After(s, m), n) = After(s, m + n)
    <1> DEFINE t == After(s, m)
    <1>1. Len(s) \in Nat /\ m <= Len(s) /\ m + n \in Nat
        BY LenProperties
    <1>2. /\ t \in Seq(U) /\ Len(t) = Len(s) - m
          /\ \A k \in 1 .. Len(s) - m : t[k] = s[m + k]
        BY <1>1, AfterProperties
    <1> HIDE DEF t
    <1>3. t \in Seq(U) /\ n <= Len(t)
        BY <1>1, <1>2
    <1>4. /\ After(t, n) \in Seq(U) /\ Len(After(t, n)) = Len(t) - n
          /\ \A k \in 1 .. Len(t) - n : After(t, n)[k] = t[n + k]
        BY <1>3, AfterProperties
    <1>5. /\ After(s, m + n) \in Seq(U) /\ Len(After(s, m + n)) = Len(s) - (m + n)
          /\ \A k \in 1 .. Len(s) - (m + n) : After(s, m + n)[k] = s[(m + n) + k]
        BY <1>1, AfterProperties
    <1>6. Len(After(t, n)) = Len(After(s, m + n))
        <2>1. Len(After(t, n)) = Len(t) - n /\ Len(t) = Len(s) - m
              /\ Len(After(s, m + n)) = Len(s) - (m + n)
            BY <1>2, <1>4, <1>5
        <2> QED
            BY <1>1, <2>1
    <1>7. ASSUME NEW k \in 1 .. Len(After(t, n))
          PROVE  After(t, n)[k] = After(s, m + n)[k]
        <2>1. /\ k \in 1 .. Len(t) - n /\ n + k \in 1 .. Len(s) - m
              /\ k \in 1 .. Len(s) - (m + n) /\ m + (n + k) = (m + n) + k
            BY <1>1, <1>2, <1>4
        <2> QED
            BY <1>2, <1>4, <1>5, <2>1
    <1>8. After(t, n) = After(s, m + n)
        BY <1>4, <1>5, <1>6, <1>7, SeqEqual
    <1> QED
        BY <1>8 DEF t

LEMMA AfterConcat ==
    ASSUME NEW U, NEW s \in Seq(U), NEW t \in Seq(U), NEW m \in Nat, m <= Len(s)
    PROVE  After(s \o t, m) = After(s, m) \o t
    <1> DEFINE st == s \o t
               r == After(s, m)
    <1>1. /\ Len(s) \in Nat /\ Len(t) \in Nat /\ st \in Seq(U) /\ Len(st) = Len(s) + Len(t)
          /\ \A k \in 1 .. Len(s) + Len(t) :
                 st[k] = IF k <= Len(s) THEN s[k] ELSE t[k - Len(s)]
        BY ConcatProperties, LenProperties
    <1>2. /\ r \in Seq(U) /\ Len(r) = Len(s) - m
          /\ \A k \in 1 .. Len(s) - m : r[k] = s[m + k]
        BY AfterProperties
    <1> HIDE DEF st, r
    <1>3. m <= Len(st)
        BY <1>1
    <1>4. /\ After(st, m) \in Seq(U) /\ Len(After(st, m)) = Len(st) - m
          /\ \A k \in 1 .. Len(st) - m : After(st, m)[k] = st[m + k]
        BY <1>1, <1>3, AfterProperties
    <1>5. /\ r \o t \in Seq(U) /\ Len(r \o t) = Len(r) + Len(t)
          /\ \A k \in 1 .. Len(r) + Len(t) :
                 (r \o t)[k] = IF k <= Len(r) THEN r[k] ELSE t[k - Len(r)]
        BY <1>2, ConcatProperties
    <1>6. Len(After(st, m)) = Len(r \o t)
        BY <1>1, <1>2, <1>4, <1>5
    <1>7. ASSUME NEW k \in 1 .. Len(After(st, m))
          PROVE  After(st, m)[k] = (r \o t)[k]
        <2>1. k \in 1 .. Len(st) - m /\ m + k \in 1 .. Len(s) + Len(t) /\ k \in 1 .. Len(r) + Len(t)
            BY <1>1, <1>2, <1>4
        <2>2. CASE k <= Len(r)
            <3>1. m + k <= Len(s) /\ k \in 1 .. Len(s) - m
                BY <1>1, <1>2, <2>1, <2>2
            <3> QED
                BY <1>1, <1>2, <1>4, <1>5, <2>1, <2>2, <3>1
        <2>3. CASE ~(k <= Len(r))
            <3>1. ~(m + k <= Len(s)) /\ (m + k) - Len(s) = k - Len(r)
                BY <1>1, <1>2, <2>1, <2>3
            <3> QED
                BY <1>1, <1>4, <1>5, <2>1, <2>3, <3>1
        <2> QED
            BY <2>2, <2>3
    <1>8. After(st, m) = r \o t
        BY <1>4, <1>5, <1>6, <1>7, SeqEqual
    <1> QED
        BY <1>8 DEF st, r

(***************************************************************************)
(* The client's threads.  The pieces that come are messages, which         *)
(* loop_dispatch sends, and what the client's thread of the server sends:  *)
(* error responses, and the answer to the get that the console waits for.  *)
(***************************************************************************)
MsgPiece(p) == <<Announced(p)>> \o Original(p)
Errors == {<<<<"ERROR", x, 1>>>> : x \in Name}

Told == {t \in Seq(Unit) : t # <<>> /\ IsMessage(t[1])}
Given == {t \in Seq(Unit) : t # <<>> /\ ~IsMessage(t[1])}

\* The bytes of files, and of what is typed here.
Own == {u \in Byte : ~IsMessage(u)}

LEMMA OwnProperties ==
    /\ Junk \in Own
    /\ \A x \in File \cup Text, k \in Nat : <<x, k>> \in Own
    /\ \A u \in Own : u \in Byte /\ ~IsHeader(u) /\ ~IsMessage(u)
    /\ \A u \in Header : IsMessage(u) <=> Command(u) = "SENDMSG"
    /\ \A p \in Peer, k \in Nat : <<p, k>> \in Byte /\ IsMessage(<<p, k>>)
    /\ Kinds(Own \cup Header, Own, Header)
    <1>1. Junk \in Own
        <2>1. Junk \in Byte /\ ~IsHeader(Junk)
            BY ByteProperties
        <2> QED
            BY <2>1 DEF Own, IsMessage
    <1>2. ASSUME NEW x \in File \cup Text, NEW k \in Nat
          PROVE  <<x, k>> \in Own
        <2>1. x \in Name /\ x \notin Peer
            BY ClientAssumption, Names
        <2>2. <<x, k>> \in Byte /\ ~IsHeader(<<x, k>>)
            BY <2>1, ByteProperties
        <2>3. <<x, k>>[1] = x
            OBVIOUS
        <2> QED
            BY <2>1, <2>2, <2>3 DEF Own, IsMessage
    <1>3. \A u \in Own : u \in Byte /\ ~IsHeader(u) /\ ~IsMessage(u)
        BY ByteProperties DEF Own
    <1>4. \A u \in Header : IsMessage(u) <=> Command(u) = "SENDMSG"
        BY HeaderProperties DEF IsMessage
    <1>5. ASSUME NEW p \in Peer, NEW k \in Nat
          PROVE  <<p, k>> \in Byte /\ IsMessage(<<p, k>>)
        <2>1. <<p, k>> \in Byte /\ ~IsHeader(<<p, k>>)
            BY Names, ByteProperties
        <2>2. <<p, k>> # Junk /\ <<p, k>>[1] = p
            BY DEF Junk
        <2> QED
            BY <2>1, <2>2 DEF IsMessage
    <1>6. Kinds(Own \cup Header, Own, Header)
        BY <1>1, <1>3, HeaderProperties DEF Kinds
    <1> QED
        BY <1>1, <1>2, <1>3, <1>4, <1>5, <1>6

LEMMA PieceKinds ==
    /\ \A t \in Seq(Unit) : t # <<>> => t \in Told \/ t \in Given
    /\ \A t \in Told : t \notin Given
    /\ <<>> \notin Told /\ <<>> \notin Given
    BY DEF Told, Given

LEMMA OneHeader ==
    ASSUME NEW h \in Header, Command(h) # "SENDMSG"
    PROVE  <<h>> \in Given /\ <<h>> \in Seq(Unit) /\ <<h>> # <<>> /\ <<h>>[1] = h /\ Len(<<h>>) = 1
    <1>1. h \in Unit /\ ~IsMessage(h)
        BY OwnProperties DEF Unit
    <1>2. <<h>> \in Seq(Unit) /\ Len(<<h>>) = 1 /\ <<h>>[1] = h /\ <<h>> # <<>>
        BY <1>1, UnitKinds, OneUnit
    <1> QED
        BY <1>1, <1>2 DEF Given

LEMMA ErrorPiece ==
    ASSUME NEW x \in Name
    PROVE  /\ <<<<"ERROR", x, 1>>>> \in Errors /\ <<<<"ERROR", x, 1>>>> \in Given
           /\ <<<<"ERROR", x, 1>>>> \in Seq(Unit) /\ <<<<"ERROR", x, 1>>>> # <<>>
    <1> DEFINE h == <<"ERROR", x, 1>>
    <1>1. h \in Header /\ Command(h) # "SENDMSG"
        BY ErrorSends
    <1>2. <<h>> \in Errors
        BY DEF Errors
    <1> HIDE DEF h
    <1>3. <<h>> \in Given /\ <<h>> \in Seq(Unit) /\ <<h>> # <<>>
        BY <1>1, OneHeader
    <1> QED
        BY <1>2, <1>3 DEF h

\* An error response begins with its header.
LEMMA ErrorHeader ==
    ASSUME NEW t \in Errors
    PROVE  IsHeader(t[1]) /\ Command(t[1]) = "ERROR"
    <1>1. PICK x \in Name : t = <<<<"ERROR", x, 1>>>>
        BY DEF Errors
    <1> DEFINE h == <<"ERROR", x, 1>>
    <1>2. h \in Header /\ IsHeader(h) /\ Command(h) = "ERROR" /\ t = <<h>>
        BY <1>1, ErrorSends
    <1> HIDE DEF h
    <1>3. <<h>>[1] = h
        BY <1>2, OneHeader
    <1> QED
        BY <1>2, <1>3

LEMMA MessagePiece ==
    ASSUME NEW p \in Peer
    PROVE  /\ MsgPiece(p) \in Told /\ MsgPiece(p) \in Seq(Unit) /\ MsgPiece(p) # <<>>
           /\ MsgPiece(p) \notin Given
           /\ Size[p] \in Nat /\ Len(MsgPiece(p)) = 1 + Size[p]
           /\ MsgPiece(p)[1] = Announced(p)
           /\ \A k \in 1 .. Size[p] : MsgPiece(p)[1 + k] = <<p, k>>
    <1> DEFINE h == Announced(p)
               t == Original(p)
    <1>1. p \in Name
        BY Names
    <1>2. /\ h \in Header /\ h \in Unit /\ Command(h) = "SENDMSG"
          /\ t \in Seq(Byte) /\ Len(t) = Size[p] /\ Size[p] \in Nat
          /\ \A k \in 1 .. Size[p] : t[k] = <<p, k>>
        BY <1>1, MessageSends
    <1>3. IsMessage(h)
        BY <1>2, OwnProperties
    <1> HIDE DEF h, t
    <1>4. /\ <<h>> \in Seq(Unit) /\ Len(<<h>>) = 1 /\ <<h>>[1] = h
        BY <1>2, UnitKinds, OneUnit
    <1>5. t \in Seq(Unit)
        BY <1>2, UnitKinds, DataOnly
    <1>6. /\ <<h>> \o t \in Seq(Unit) /\ Len(<<h>> \o t) = 1 + Size[p]
          /\ \A k \in 1 .. 1 + Size[p] :
                 (<<h>> \o t)[k] = IF k <= 1 THEN <<h>>[k] ELSE t[k - 1]
        BY <1>2, <1>4, <1>5, ConcatProperties
    <1>7. (<<h>> \o t)[1] = h
        <2>1. 1 \in 1 .. 1 + Size[p]
            BY <1>2
        <2> QED
            BY <1>4, <1>6, <2>1
    <1>8. ASSUME NEW k \in 1 .. Size[p]
          PROVE  (<<h>> \o t)[1 + k] = <<p, k>>
        <2>1. 1 + k \in 1 .. 1 + Size[p] /\ ~(1 + k <= 1) /\ (1 + k) - 1 = k
            BY <1>2
        <2> QED
            BY <1>2, <1>6, <2>1
    <1>9. <<h>> \o t # <<>>
        BY <1>2, <1>6, EmptySeq
    <1> QED
        BY <1>2, <1>3, <1>6, <1>7, <1>8, <1>9 DEF MsgPiece, Told, Given, h, t

\* One send of get_handler after the header: a whole block, or the rest.
LEMMA ChunkPiece ==
    ASSUME NEW f \in Name, NEW data \in Seq(Byte), NEW i \in 1 .. Blocks(data) + 1
    PROVE  /\ Answer(f, data)[i + 1] = Chunks(data)[i]
           /\ Chunks(data)[i] \in Seq(Byte)
           /\ Len(Chunks(data)[i]) = IF i <= Blocks(data) THEN Block ELSE Rest(data)
           /\ \A k \in 1 .. Len(Chunks(data)[i]) :
                  /\ Chunks(data)[i][k] \in Byte
                  /\ Chunks(data)[i][k] = Sent(data)[Place(i - 1) + k]
    <1>1. Blocks(data) \in Nat /\ Block \in Nat
        BY BlockNat, BlocksOf
    <1>2. /\ Chunks(data) \in Seq(Seq(Byte))
          /\ Len(Chunks(data)) = Blocks(data) + 1
          /\ \A j \in 1 .. Blocks(data) :
                 /\ Len(Chunks(data)[j]) = Block
                 /\ \A k \in 1 .. Block : Chunks(data)[j][k] = Sent(data)[Place(j - 1) + k]
          /\ Len(Chunks(data)[Blocks(data) + 1]) = Rest(data)
          /\ \A k \in 1 .. Rest(data) :
                 Chunks(data)[Blocks(data) + 1][k] = Sent(data)[Place(Blocks(data)) + k]
        BY ByteProperties, ChunksProperties
    <1>3. Answer(f, data)[i + 1] = Chunks(data)[i]
        BY AnswerType
    <1>4. Chunks(data)[i] \in Seq(Byte)
        BY <1>2, LenProperties
    <1>5. \A k \in 1 .. Len(Chunks(data)[i]) : Chunks(data)[i][k] \in Byte
        BY <1>4, LenProperties
    <1>6. CASE i <= Blocks(data)
        <2>1. i \in 1 .. Blocks(data)
            BY <1>1, <1>6
        <2> QED
            BY <1>2, <1>3, <1>4, <1>5, <1>6, <2>1
    <1>7. CASE ~(i <= Blocks(data))
        <2>1. i = Blocks(data) + 1 /\ i - 1 = Blocks(data)
            BY <1>1, <1>7
        <2> QED
            BY <1>2, <1>3, <1>4, <1>5, <1>7, <2>1
    <1> QED
        BY <1>6, <1>7

\* A file without another user's message in it is sent without one.
LEMMA OwnChunk ==
    ASSUME NEW data \in Seq(Own), NEW i \in 1 .. Blocks(data) + 1
    PROVE  \A k \in 1 .. Len(Chunks(data)[i]) : Chunks(data)[i][k] \in Own
    <1>1. /\ Chunks(data) \in Seq(Seq(Own))
          /\ Len(Chunks(data)) = Blocks(data) + 1
        BY OwnProperties, ChunksProperties
    <1>2. Chunks(data)[i] \in Seq(Own)
        BY <1>1, LenProperties
    <1> QED
        BY <1>2, LenProperties

LEMMA AnswerPiece ==
    ASSUME NEW f \in Name, NEW data \in Seq(Own), NEW j \in 1 .. Blocks(data) + 2
    PROVE  /\ Answer(f, data)[j] \in Seq(Unit)
           /\ Answer(f, data)[j] # <<>> => Answer(f, data)[j] \in Given
           /\ Answer(f, data)[j] = <<>> <=> j = Blocks(data) + 2 /\ Rest(data) = 0
    <1> DEFINE t == Answer(f, data)[j]
               b == Blocks(data)
    <1>0. data \in Seq(Byte)
        BY OwnProperties, SeqMonotonic
    <1>1. b \in Nat /\ Rest(data) \in Nat /\ Block \in Nat /\ Block > 0 /\ Len(data) \in Nat
        BY <1>0, BlockNat, BlocksOf
    <1>2. CASE j = 1
        <2> DEFINE h == <<"GET", f, Len(data)>>
        <2>1. h \in Header /\ Command(h) # "SENDMSG" /\ t = <<h>>
            BY <1>0, <1>1, <1>2, MadeHeader, AnswerType
        <2> HIDE DEF h
        <2>2. t \in Given /\ t \in Seq(Unit) /\ t # <<>>
            BY <2>1, OneHeader
        <2>3. j # b + 2
            BY <1>1, <1>2
        <2> QED
            BY <2>2, <2>3
    <1>3. CASE j # 1
        <2>1. PICK i \in 1 .. b + 1 : j = i + 1
            <3>1. j - 1 \in 1 .. b + 1 /\ j = (j - 1) + 1
                BY <1>1, <1>3
            <3> QED
                BY <3>1
        <2>2. /\ t \in Seq(Byte) /\ Len(t) = IF i <= b THEN Block ELSE Rest(data)
              /\ \A k \in 1 .. Len(t) : t[k] \in Own
            <3>1. /\ t = Chunks(data)[i] /\ t \in Seq(Byte)
                  /\ Len(t) = IF i <= b THEN Block ELSE Rest(data)
                <4>1. /\ Answer(f, data)[i + 1] = Chunks(data)[i] /\ Chunks(data)[i] \in Seq(Byte)
                      /\ Len(Chunks(data)[i]) = IF i <= Blocks(data) THEN Block ELSE Rest(data)
                    BY <1>0, ChunkPiece
                <4> QED
                    BY <2>1, <4>1
            <3>2. \A k \in 1 .. Len(Chunks(data)[i]) : Chunks(data)[i][k] \in Own
                BY OwnChunk
            <3> QED
                BY <3>1, <3>2
        <2>3. t \in Seq(Unit)
            BY <2>2, UnitKinds, DataOnly
        <2> HIDE DEF t, b
        <2>4. t # <<>> => t \in Given
            <3>1. SUFFICES ASSUME t # <<>>
                           PROVE  t \in Given
                OBVIOUS
            <3>2. 1 \in 1 .. Len(t)
                BY <2>2, <3>1, HeadProperties
            <3>4. ~IsMessage(t[1])
                BY <2>2, <3>2, OwnProperties
            <3> QED
                BY <2>3, <3>1, <3>4 DEF Given
        <2>5. t = <<>> <=> Len(t) = 0
            BY <2>2, EmptySeq
        <2>6. Len(t) = 0 <=> j = b + 2 /\ Rest(data) = 0
            <3>1. CASE i <= b
                <4>1. Len(t) = Block /\ j # b + 2
                    BY <1>1, <2>1, <2>2, <3>1
                <4> QED
                    BY <1>1, <4>1
            <3>2. CASE ~(i <= b)
                <4>1. Len(t) = Rest(data) /\ j = b + 2
                    BY <1>1, <2>1, <2>2, <3>2
                <4> QED
                    BY <4>1
            <3> QED
                BY <3>1, <3>2
        <2> QED
            BY <2>3, <2>4, <2>5, <2>6 DEF t, b
    <1> QED
        BY <1>2, <1>3

\* The part of the first message in the stream that comm_waitmsg waits for,
\* and how many messages it has taken.
Ahead == IF wpc = "data" THEN DataSize(wmsg) ELSE 0
Seen == Len(shown) + (IF wpc = "data" THEN 1 ELSE 0)

Deliveries == [j \in 1 .. Len(delivered) |-> MsgPiece(delivered[j])]

\* q are the pieces that come.
Stream(q) ==
    /\ Seen <= Len(delivered)
    /\ Ahead <= Len(s2c)
    /\ wpc = "data" => /\ wmsg = Announced(delivered[Seen])
                       /\ \A k \in 1 .. Ahead : s2c[k] = <<FileName(wmsg), k>>
    /\ Cut(Unit, After(s2c, Ahead), q)
    /\ Listed(q, Told, Seen + 1, Len(delivered), Deliveries)

\* Requests: at most one is on its way, and the console waits for its answer.
Requests == {u \in Header : Command(u) = "GET"}

NotInHand == spc \in {"data", "handle"} => Command(smsg) # "GET"

Unasked == NotInHand /\ \A i \in 1 .. Len(c2s) : c2s[i] \notin Requests

Pending == /\ NotInHand
           /\ Len(c2s) >= 1
           /\ c2s[Len(c2s)] \in Requests /\ DataSize(c2s[Len(c2s)]) = 0
           /\ \A i \in 1 .. Len(c2s) - 1 : c2s[i] \notin Requests

Handling == spc = "handle" /\ Command(smsg) = "GET" /\ c2s = <<>>

\* No answer comes, or will.
NoAnswer(q) ==
    /\ \A i \in 1 .. Len(q) : q[i] \in Given => spc = "closed" /\ q[i] \in Errors
    /\ \A j \in 1 .. Len(out) : out[j] = <<>>

\* The answer to a get of f from its lo-th piece: up to the hi-th it is sent.
Remaining(f, hi) ==
    LET data == disk["server"][f] IN
    /\ \A j \in 1 .. Len(out) : out[j] = Answer(f, data)[hi + j]
    /\ IF out # <<>> THEN hi + Len(out) = Blocks(data) + 2
                     ELSE hi = Blocks(data) + (IF Rest(data) = 0 THEN 1 ELSE 2)

Answering(q, lo, f) ==
    /\ c2s = <<>> /\ spc \in {"command", "send"}
    /\ \E hi \in Nat : /\ lo <= hi + 1
                       /\ Remaining(f, hi)
                       /\ Listed(q, Given, lo, hi, Answer(f, disk["server"][f]))

Phase(q) ==
    \/ cpc = "console" /\ Unasked /\ NoAnswer(q)
    \/ cpc = "header" /\ (Pending \/ Handling \/ spc = "closed") /\ NoAnswer(q)
    \/ cpc = "header" /\ \E f \in Name : Answering(q, 1, f)
    \/ /\ cpc = "get"
       /\ Len(cbuf) = Len(disk["server"][cname])
       /\ Answering(q, ci + 2, cname)

ToClient == \E q : Stream(q) /\ Phase(q)

ShownRight ==
    /\ Len(shown) <= Len(delivered)
    /\ \A i \in 1 .. Len(shown) : Shows(shown[i], delivered[i])

ClientRight ==
    "client" \notin short /\ ~crossed =>
        /\ client # "lost"
        /\ ShownRight
        /\ client = "up" => ToClient

\* Nothing that other users sent here gets into a file.
OwnBytes == ~crossed => /\ disk \in [Host -> [Name -> Seq(Own)]]
                        /\ cbuf \in Seq(Own) /\ sbuf \in Seq(Own)
                        /\ c2s \in Seq(Own \cup Header)

LEMMA ToldLists ==
    ASSUME TypeOK
    PROVE  /\ Len(delivered) \in Nat /\ Len(shown) \in Nat
           /\ Seen \in Nat /\ Seen + 1 \in Nat /\ Ahead \in Nat
           /\ \A j \in 1 .. Len(delivered) :
                  /\ delivered[j] \in Peer /\ delivered[j] \in Name
                  /\ Deliveries[j] = MsgPiece(delivered[j])
    <1>1. Len(delivered) \in Nat /\ Len(shown) \in Nat
          /\ \A j \in 1 .. Len(delivered) : delivered[j] \in Peer
        BY LenProperties DEF TypeOK
    <1>2. Seen \in Nat /\ Seen + 1 \in Nat
        BY <1>1 DEF Seen
    <1>3. Ahead \in Nat
        <2>1. DataSize(wmsg) \in Nat
            BY Types, HeaderProperties
        <2> QED
            BY <2>1 DEF Ahead
    <1>4. \A j \in 1 .. Len(delivered) : Deliveries[j] = MsgPiece(delivered[j])
        BY DEF Deliveries
    <1> QED
        BY <1>1, <1>2, <1>3, <1>4, Names

LEMMA ClientInit ==
    ASSUME Init
    PROVE  ClientRight
    <1>1. /\ s2c = <<>> /\ c2s = <<>> /\ client = "up" /\ cpc = "console" /\ wpc = "header"
          /\ spc = "command" /\ out = <<>> /\ delivered = <<>> /\ shown = <<>>
        BY DEF Init
    <1>2. Len(<<>>) = 0 /\ Len(delivered) = 0 /\ Len(shown) = 0 /\ Len(out) = 0 /\ Len(c2s) = 0
          /\ Len(s2c) = 0 /\ <<>> \in Seq(Unit) /\ <<>> \in Seq(Seq(Unit)) /\ 0 \in Nat
        BY <1>1, EmptySeq
    <1>3. Ahead = 0 /\ Seen = 0
        BY <1>1, <1>2 DEF Ahead, Seen
    <1>4. After(s2c, Ahead) = <<>>
        BY <1>1, <1>2, <1>3, AfterNothing
    <1>5. Cut(Unit, <<>>, <<>>)
        BY CutNothing
    <1>6. Listed(<<>>, Told, Seen + 1, Len(delivered), Deliveries)
        <2>1. \A i \in 1 .. Len(<<>>) : <<>>[i] \notin Told
            BY <1>2
        <2>2. 1 \in Nat /\ 1 = 0 + 1
            OBVIOUS
        <2>3. Listed(<<>>, Told, 1, 0, Deliveries)
            BY <1>2, <2>1, <2>2, ListedNone
        <2> QED
            BY <1>2, <1>3, <2>3
    <1>7. Stream(<<>>)
        BY <1>1, <1>2, <1>3, <1>4, <1>5, <1>6 DEF Stream
    <1>8. Phase(<<>>)
        BY <1>1, <1>2 DEF Phase, Unasked, NotInHand, NoAnswer
    <1>9. ShownRight
        BY <1>2 DEF ShownRight
    <1> QED
        BY <1>1, <1>7, <1>8, <1>9 DEF ClientRight, ToClient

\* A step that leaves the stream and the threads of the client alone.
LEMMA ClientSame ==
    ASSUME ClientRight,
           UNCHANGED <<s2c, delivered, waiting>>,
           "client" \in short => "client" \in short', crossed => crossed',
           client' = client \/ client' \in {"closed", "faulted"},
           client' = "up" => \A q : Phase(q) => Phase(q)'
    PROVE  ClientRight'
    <1> SUFFICES ASSUME "client" \notin short', ~crossed'
                 PROVE  ClientRight'
        BY DEF ClientRight
    <1>1. client # "lost" /\ ShownRight /\ (client = "up" => ToClient)
        BY DEF ClientRight
    <1>2. UNCHANGED <<s2c, delivered, wpc, wmsg, shown>>
        BY DEF waiting
    <1>3. \A q : Stream(q) => Stream(q)'
        BY <1>2 DEF Stream, Ahead, Seen, Deliveries
    <1>4. ShownRight'
        BY <1>1, <1>2 DEF ShownRight
    <1>5. client' = "up" => client = "up"
        OBVIOUS
    <1>6. client' = "up" => ToClient'
        BY <1>1, <1>3, <1>5 DEF ToClient
    <1> QED
        BY <1>1, <1>4, <1>6 DEF ClientRight

(***************************************************************************)
(* What the client sends, and how the server's thread takes it.            *)
(***************************************************************************)
\* Nothing but a request is one.
LEMMA NotRequests ==
    /\ \A u \in Byte : u \notin Requests
    /\ \A h \in Header : Command(h) # "GET" => h \notin Requests
    /\ \A h \in Header : h \in Requests <=> Command(h) = "GET"
    BY ByteProperties, HeaderProperties DEF Requests

LEMMA UnaskedMore ==
    ASSUME TypeOK, Unasked, NEW h \in Header, Command(h) # "GET", NEW t \in Seq(Byte),
           c2s' = (c2s \o <<h>>) \o t, UNCHANGED <<spc, smsg>>
    PROVE  Unasked'
    <1> DEFINE a == c2s \o <<h>>
    <1>1. /\ c2s \in Seq(Unit) /\ Len(c2s) \in Nat
          /\ \A i \in 1 .. Len(c2s) : c2s[i] \notin Requests
        BY Types DEF Unasked
    <1>2. h \in Unit /\ h \notin Requests
        BY NotRequests DEF Unit
    <1>3. /\ <<h>> \in Seq(Unit) /\ Len(<<h>>) = 1 /\ <<h>>[1] = h
        BY <1>2, UnitKinds, OneUnit
    <1>4. /\ a \in Seq(Unit) /\ Len(a) = Len(c2s) + 1
          /\ \A k \in 1 .. Len(c2s) + 1 :
                 a[k] = IF k <= Len(c2s) THEN c2s[k] ELSE <<h>>[k - Len(c2s)]
        BY <1>1, <1>3, ConcatProperties
    <1> HIDE DEF a
    <1>5. ASSUME NEW i \in 1 .. Len(a)
          PROVE  a[i] \notin Requests
        <2>1. CASE i <= Len(c2s)
            BY <1>1, <1>4, <2>1
        <2>2. CASE ~(i <= Len(c2s))
            <3>1. i - Len(c2s) = 1
                BY <1>1, <1>4, <2>2
            <3> QED
                BY <1>2, <1>3, <1>4, <2>2, <3>1
        <2> QED
            BY <2>1, <2>2
    <1>6. t \in Seq(Unit) /\ Len(t) \in Nat /\ \A k \in 1 .. Len(t) : t[k] \notin Requests
        BY UnitKinds, DataOnly, NotRequests, LenProperties
    <1>7. /\ Len(a) \in Nat /\ c2s' = a \o t
        BY <1>1, <1>4 DEF a
    <1>8. /\ Len(a \o t) = Len(a) + Len(t)
          /\ \A k \in 1 .. Len(a) + Len(t) :
                 (a \o t)[k] = IF k <= Len(a) THEN a[k] ELSE t[k - Len(a)]
        BY <1>4, <1>6, ConcatProperties
    <1>9. ASSUME NEW i \in 1 .. Len(a \o t)
          PROVE  (a \o t)[i] \notin Requests
        <2>1. CASE i <= Len(a)
            BY <1>5, <1>6, <1>7, <1>8, <2>1
        <2>2. CASE ~(i <= Len(a))
            <3>1. i - Len(a) \in 1 .. Len(t)
                BY <1>6, <1>7, <1>8, <2>2
            <3> QED
                BY <1>6, <1>7, <1>8, <2>2, <3>1
        <2> QED
            BY <2>1, <2>2
    <1> QED
        BY <1>7, <1>9 DEF Unasked, NotInHand

LEMMA PendingMore ==
    ASSUME TypeOK, Unasked, NEW h \in Requests, DataSize(h) = 0,
           c2s' = Append(c2s, h), UNCHANGED <<spc, smsg>>
    PROVE  Pending'
    <1>1. /\ c2s \in Seq(Unit) /\ Len(c2s) \in Nat
          /\ \A i \in 1 .. Len(c2s) : c2s[i] \notin Requests
        BY Types DEF Unasked
    <1>2. h \in Unit
        BY DEF Requests, Unit
    <1>3. /\ Len(c2s') = Len(c2s) + 1 /\ c2s'[Len(c2s) + 1] = h
          /\ \A i \in 1 .. Len(c2s) : c2s'[i] = c2s[i]
        BY <1>1, <1>2, AppendProperties
    <1>4. Len(c2s') >= 1 /\ Len(c2s') - 1 = Len(c2s)
        BY <1>1, <1>3
    <1>5. c2s'[Len(c2s')] = h
        BY <1>3
    <1>6. \A i \in 1 .. Len(c2s') - 1 : c2s'[i] \notin Requests
        BY <1>1, <1>3, <1>4
    <1> QED
        BY <1>4, <1>5, <1>6 DEF Pending, Unasked, NotInHand

\* What is left when the thread has taken m units of what is on its way.
LEMMA RequestsAfter ==
    ASSUME NEW s \in Seq(Unit), NEW m \in Nat, m <= Len(s)
    PROVE  /\ After(s, m) \in Seq(Unit) /\ Len(After(s, m)) \in Nat
           /\ Len(s) \in Nat /\ Len(After(s, m)) = Len(s) - m
           /\ (\A i \in 1 .. Len(s) : s[i] \notin Requests) =>
                  \A i \in 1 .. Len(After(s, m)) : After(s, m)[i] \notin Requests
           /\ (\A i \in 1 .. Len(s) - 1 : s[i] \notin Requests) =>
                  \A i \in 1 .. Len(After(s, m)) - 1 : After(s, m)[i] \notin Requests
           /\ m < Len(s) => After(s, m)[Len(After(s, m))] = s[Len(s)]
    <1> DEFINE t == After(s, m)
    <1>1. /\ t \in Seq(Unit) /\ Len(t) = Len(s) - m
          /\ \A k \in 1 .. Len(s) - m : t[k] = s[m + k]
        BY AfterProperties
    <1>2. Len(s) \in Nat /\ Len(t) \in Nat
        BY <1>1, LenProperties
    <1> HIDE DEF t
    <1>3. \A i \in 1 .. Len(t) : t[i] = s[m + i] /\ m + i \in 1 .. Len(s)
        BY <1>1, <1>2
    <1>4. \A i \in 1 .. Len(t) - 1 : t[i] = s[m + i] /\ m + i \in 1 .. Len(s) - 1
        BY <1>1, <1>2
    <1>5. ASSUME m < Len(s)
          PROVE  t[Len(t)] = s[Len(s)]
        <2>1. Len(t) \in 1 .. Len(t) /\ m + Len(t) = Len(s)
            BY <1>1, <1>2, <1>5
        <2> QED
            BY <1>3, <2>1
    <1> QED
        BY <1>1, <1>2, <1>3, <1>4, <1>5 DEF t

LEMMA NoAnswerKept ==
    ASSUME NEW q, NoAnswer(q), spc # "closed", UNCHANGED out
    PROVE  NoAnswer(q)'
    BY DEF NoAnswer

LEMMA ClientConsole ==
    ASSUME TypeOK, ClientRight, Type
    PROVE  ClientRight'
    <1> USE DEF files, console, thread, input
    <1>1. CASE Quit
        BY <1>1, ClientSame DEF Quit
    <1>2. ASSUME NEW f \in File, comm_put(f)
          PROVE  ClientRight'
        <2>1. c2s' = (c2s \o <<PutOf(f)>>) \o PutData(f)
            BY <1>2 DEF comm_put, PutOf, PutData
        <2>2. /\ cpc = "console" /\ spc # "closed"
              /\ UNCHANGED <<s2c, delivered, waiting, short, crossed, client, spc, smsg, cpc, out>>
            BY <1>2 DEF comm_put, Typed, ServerGone
        <2>3. PutOf(f) \in Header /\ Command(PutOf(f)) # "GET" /\ PutData(f) \in Seq(Byte)
            BY PutSends
        <2>4. ASSUME NEW q, Phase(q)
              PROVE  Phase(q)'
            <3>1. Unasked /\ NoAnswer(q)
                BY <2>2, <2>4 DEF Phase
            <3>2. Unasked'
                BY <2>1, <2>2, <2>3, <3>1, UnaskedMore
            <3> QED
                BY <2>2, <3>1, <3>2, NoAnswerKept DEF Phase
        <2> QED
            BY <2>2, <2>4, ClientSame
    <1>3. ASSUME NEW f \in File, comm_put_Missing(f)
          PROVE  ClientRight'
        BY <1>3, ClientSame DEF comm_put_Missing
    <1>4. ASSUME NEW f \in File, comm_get(f)
          PROVE  ClientRight'
        <2> DEFINE h == <<"GET", f, 0>>
        <2>1. c2s' = Append(c2s, h)
            BY <1>4 DEF comm_get
        <2>2. /\ cpc = "console" /\ cpc' = "header" /\ spc # "closed"
              /\ UNCHANGED <<s2c, delivered, waiting, short, crossed, client, spc, smsg, out>>
            BY <1>4 DEF comm_get, Typed, ServerGone
        <2>3. h \in Requests /\ DataSize(h) = 0
            <3>1. 0 \in Nat
                OBVIOUS
            <3> QED
                BY <3>1, Names, MadeHeader DEF Requests
        <2> HIDE DEF h
        <2>4. ASSUME NEW q, Phase(q)
              PROVE  Phase(q)'
            <3>1. Unasked /\ NoAnswer(q)
                BY <2>2, <2>4 DEF Phase
            <3>2. Pending'
                BY <2>1, <2>2, <2>3, <3>1, PendingMore
            <3> QED
                BY <2>2, <3>1, <3>2, NoAnswerKept DEF Phase
        <2> QED
            BY <2>2, <2>4, ClientSame
    <1>5. ASSUME NEW x \in Text, comm_sendmsg(x)
          PROVE  ClientRight'
        <2>1. c2s' = (c2s \o <<Announced(x)>>) \o Original(x)
            BY <1>5 DEF comm_sendmsg, Announced
        <2>2. /\ cpc = "console" /\ spc # "closed"
              /\ UNCHANGED <<s2c, delivered, waiting, short, crossed, client, spc, smsg, cpc, out>>
            BY <1>5 DEF comm_sendmsg, Typed, ServerGone
        <2>3. Announced(x) \in Header /\ Command(Announced(x)) # "GET" /\ Original(x) \in Seq(Byte)
            BY Names, MessageSends
        <2>4. ASSUME NEW q, Phase(q)
              PROVE  Phase(q)'
            <3>1. Unasked /\ NoAnswer(q)
                BY <2>2, <2>4 DEF Phase
            <3>2. Unasked'
                BY <2>1, <2>2, <2>3, <3>1, UnaskedMore
            <3> QED
                BY <2>2, <3>1, <3>2, NoAnswerKept DEF Phase
        <2> QED
            BY <2>2, <2>4, ClientSame
    <1> QED
        BY <1>1, <1>2, <1>3, <1>4, <1>5 DEF Type

LEMMA ClientParseHeader ==
    ASSUME TypeOK, ClientRight, ParseHeader
    PROVE  ClientRight'
    <1> USE DEF files, console, thread, input
    <1> DEFINE h == Head(c2s)
    <1>1. /\ spc = "command" /\ c2s # <<>> /\ IsHeader(h)
          /\ spc' = IF DataSize(h) = 0 THEN "handle" ELSE "data"
          /\ smsg' = h /\ c2s' = Tail(c2s)
          /\ UNCHANGED <<s2c, delivered, waiting, short, crossed, client, cpc, out>>
        BY DEF ParseHeader
    <1>2. /\ c2s \in Seq(Unit) /\ h = c2s[1] /\ h \in Header
          /\ Len(c2s) \in Nat /\ Len(c2s) >= 1 /\ 1 \in 1 .. Len(c2s)
          /\ c2s' = After(c2s, 1)
        BY <1>1, Types, StreamTaken
    <1> HIDE DEF h
    <1>3. 1 \in Nat /\ 1 <= Len(c2s)
        BY <1>2
    <1>4. /\ c2s' \in Seq(Unit) /\ Len(c2s') \in Nat /\ Len(c2s') = Len(c2s) - 1
          /\ (\A i \in 1 .. Len(c2s) : c2s[i] \notin Requests) =>
                 \A i \in 1 .. Len(c2s') : c2s'[i] \notin Requests
          /\ (\A i \in 1 .. Len(c2s) - 1 : c2s[i] \notin Requests) =>
                 \A i \in 1 .. Len(c2s') - 1 : c2s'[i] \notin Requests
          /\ 1 < Len(c2s) => c2s'[Len(c2s')] = c2s[Len(c2s)]
        BY <1>2, <1>3, RequestsAfter
    <1>5. ASSUME NEW q, Phase(q)
          PROVE  Phase(q)'
        <2>1. ~Handling /\ \A lo, f : ~Answering(q, lo, f)
            BY <1>1 DEF Handling, Answering
        <2>2. NoAnswer(q)
            BY <1>5, <2>1 DEF Phase
        <2>3. NoAnswer(q)'
            BY <1>1, <2>2, NoAnswerKept
        <2>4. CASE Unasked
            <3>1. Command(smsg') # "GET"
                BY <1>1, <1>2, <2>4, NotRequests DEF Unasked
            <3>2. Unasked'
                BY <1>4, <2>4, <3>1 DEF Unasked, NotInHand
            <3>3. cpc = "console" => Phase(q)'
                BY <1>1, <2>3, <3>2 DEF Phase
            <3>4. cpc # "console" => Pending
                BY <1>1, <1>5, <2>1 DEF Phase
            <3>5. ~Pending
                <4>1. Len(c2s) \in 1 .. Len(c2s)
                    BY <1>2
                <4> QED
                    BY <2>4, <4>1 DEF Unasked, Pending
            <3> QED
                BY <3>3, <3>4, <3>5
        <2>5. CASE ~Unasked
            <3>1. cpc = "header" /\ Pending
                BY <1>1, <1>5, <2>1, <2>5 DEF Phase
            <3>2. CASE Len(c2s) = 1
                <4>1. h \in Requests /\ DataSize(h) = 0
                    BY <1>2, <3>1, <3>2 DEF Pending
                <4>2. spc' = "handle" /\ Command(smsg') = "GET"
                    BY <1>1, <1>2, <4>1, NotRequests
                <4>3. c2s' = <<>>
                    BY <1>4, <3>2, EmptySeq
                <4> QED
                    BY <1>1, <2>3, <3>1, <4>2, <4>3 DEF Phase, Handling
            <3>3. CASE Len(c2s) # 1
                <4>1. 1 < Len(c2s) /\ 1 \in 1 .. Len(c2s) - 1 /\ Len(c2s') >= 1
                    BY <1>2, <1>4, <3>3
                <4>2. Command(smsg') # "GET"
                    BY <1>1, <1>2, <3>1, <4>1, NotRequests DEF Pending
                <4>3. Pending'
                    BY <1>4, <3>1, <4>1, <4>2 DEF Pending, NotInHand
                <4> QED
                    BY <1>1, <2>3, <3>1, <4>3 DEF Phase
            <3> QED
                BY <3>2, <3>3
        <2> QED
            BY <2>4, <2>5
    <1> QED
        BY <1>1, <1>5, ClientSame

\* The data of a command is received.
LEMMA ClientParseData ==
    ASSUME TypeOK, ClientRight, spc = "data", spc' \in {"data", "handle"},
           NEW m \in Nat, m <= Len(c2s), \A k \in 1 .. m : ~IsHeader(c2s[k]),
           c2s' = After(c2s, m),
           "client" \in short => "client" \in short',
           UNCHANGED <<s2c, delivered, waiting, crossed, client, cpc, smsg, out>>
    PROVE  ClientRight'
    <1>1. /\ c2s' \in Seq(Unit) /\ Len(c2s') \in Nat /\ Len(c2s) \in Nat
          /\ Len(c2s') = Len(c2s) - m
          /\ (\A i \in 1 .. Len(c2s) : c2s[i] \notin Requests) =>
                 \A i \in 1 .. Len(c2s') : c2s'[i] \notin Requests
          /\ (\A i \in 1 .. Len(c2s) - 1 : c2s[i] \notin Requests) =>
                 \A i \in 1 .. Len(c2s') - 1 : c2s'[i] \notin Requests
          /\ m < Len(c2s) => c2s'[Len(c2s')] = c2s[Len(c2s)]
        BY Types, RequestsAfter
    <1>2. ASSUME NEW q, Phase(q)
          PROVE  Phase(q)'
        <2>1. ~Handling /\ \A lo, f : ~Answering(q, lo, f)
            BY DEF Handling, Answering
        <2>2. NoAnswer(q)
            BY <1>2, <2>1 DEF Phase
        <2>3. NoAnswer(q)'
            BY <2>2, NoAnswerKept
        <2>4. CASE cpc = "console" /\ Unasked
            <3>1. Unasked'
                BY <1>1, <2>4 DEF Unasked, NotInHand
            <3> QED
                BY <2>3, <2>4, <3>1 DEF Phase
        <2>5. CASE cpc = "header" /\ Pending
            <3>1. m < Len(c2s)
                <4>1. SUFFICES ASSUME ~(m < Len(c2s))
                               PROVE  FALSE
                    OBVIOUS
                <4>2. Len(c2s) \in 1 .. m
                    BY <1>1, <2>5, <4>1 DEF Pending
                <4>3. ~IsHeader(c2s[Len(c2s)])
                    BY <4>2
                <4> QED
                    BY <2>5, <4>3, HeaderProperties DEF Pending, Requests
            <3>2. Len(c2s') >= 1
                BY <1>1, <3>1
            <3>3. Pending'
                BY <1>1, <2>5, <3>1, <3>2 DEF Pending, NotInHand
            <3> QED
                BY <2>3, <2>5, <3>3 DEF Phase
        <2> QED
            BY <1>2, <2>1, <2>4, <2>5 DEF Phase
    <1> QED
        BY <1>2, ClientSame

LEMMA ClientParse ==
    ASSUME TypeOK, ClientRight, ParseBlock \/ ParseRest
    PROVE  ClientRight'
    <1> USE DEF files, console, thread, input
    <1>0. short \subseteq Host
        BY DEF TypeOK
    <1>1. CASE ParseBlock
        <2>1. PICK m \in Lengths(c2s, Block, ClientGone) :
                  /\ ~MeetsHeader(c2s, m)
                  /\ c2s' = After(c2s, m)
                  /\ Asked("server", Block, m)
            BY <1>1 DEF ParseBlock
        <2>2. si \in Int /\ Place(si) \in Int
            BY Types
        <2>3. m \in Nat /\ m <= Len(c2s) /\ \A k \in 1 .. m : ~IsHeader(c2s[k])
            BY <2>1, <2>2, Types, BlockNat, Received
        <2>4. "client" \in short => "client" \in short'
            BY <1>0, <2>1, <2>3, BlockNat, Hosts, AskedDoes
        <2>5. /\ spc = "data" /\ spc' = "data"
              /\ UNCHANGED <<s2c, delivered, waiting, crossed, client, cpc, smsg, out>>
            BY <1>1 DEF ParseBlock
        <2> QED
            BY <2>1, <2>3, <2>4, <2>5, ClientParseData
    <1>2. CASE ParseRest
        <2>1. PICK m \in Lengths(c2s, Rest(sbuf), ClientGone) :
                  /\ ~MeetsHeader(c2s, m)
                  /\ c2s' = After(c2s, m)
                  /\ Asked("server", Rest(sbuf), m)
            BY <1>2 DEF ParseRest
        <2>2. si \in Int /\ Place(si) \in Int /\ Rest(sbuf) \in Nat
            BY Types, PlaceOfRest
        <2>3. m \in Nat /\ m <= Len(c2s) /\ \A k \in 1 .. m : ~IsHeader(c2s[k])
            BY <2>1, <2>2, Types, Received
        <2>4. "client" \in short => "client" \in short'
            BY <1>0, <2>1, <2>2, <2>3, Hosts, AskedDoes
        <2>5. /\ spc = "data" /\ spc' = "handle"
              /\ UNCHANGED <<s2c, delivered, waiting, crossed, client, cpc, smsg, out>>
            BY <1>2 DEF ParseRest
        <2> QED
            BY <2>1, <2>3, <2>4, <2>5, ClientParseData
    <1> QED
        BY <1>1, <1>2

\* A step of the thread that neither sends nor takes a request.
LEMMA ClientQuiet ==
    ASSUME TypeOK, ClientRight,
           spc # "closed", ~Handling, ~(spc \in {"command", "send"} /\ c2s = <<>>),
           spc' \notin {"data", "handle"},
           "client" \in short => "client" \in short',
           UNCHANGED <<c2s, s2c, delivered, waiting, crossed, client, cpc, out>>
    PROVE  ClientRight'
    <1>1. ASSUME NEW q, Phase(q)
          PROVE  Phase(q)'
        <2>1. \A lo, f : ~Answering(q, lo, f)
            BY DEF Answering
        <2>2. NoAnswer(q)
            BY <1>1, <2>1 DEF Phase
        <2>3. NoAnswer(q)'
            BY <2>2, NoAnswerKept
        <2>4. CASE cpc = "console" /\ Unasked
            BY <2>3, <2>4 DEF Phase, Unasked, NotInHand
        <2>5. CASE cpc = "header" /\ Pending
            BY <2>3, <2>5 DEF Phase, Pending, NotInHand
        <2> QED
            BY <1>1, <2>1, <2>4, <2>5 DEF Phase
    <1> QED
        BY <1>1, ClientSame

LEMMA ClientThread ==
    ASSUME TypeOK, ClientRight,
           ParseGarbled \/ PartOfCommand \/ sendmsg_handler \/ put_handler \/ CloseConn
    PROVE  ClientRight'
    <1> USE DEF files, console, thread, input
    <1>1. CASE ParseGarbled
        <2>1. spc \in {"command", "data"} /\ (spc = "command" => c2s # <<>>)
            BY <1>1 DEF ParseGarbled
        <2> QED
            BY <1>1, <2>1, ClientQuiet DEF ParseGarbled, Handling
    <1>2. CASE PartOfCommand
        <2>1. spc = "command" /\ c2s # <<>> /\ ("client" \in short => "client" \in short')
            BY <1>2 DEF PartOfCommand
        <2> QED
            BY <1>2, <2>1, ClientQuiet DEF PartOfCommand, Handling
    <1>3. CASE sendmsg_handler
        BY <1>3, ClientQuiet DEF sendmsg_handler, Handle, Handling
    <1>4. CASE put_handler
        BY <1>4, ClientQuiet DEF put_handler, Handle, Handling
    <1>5. CASE CloseConn
        BY <1>5, ClientSame DEF CloseConn, ClientGone
    <1> QED
        BY <1>1, <1>2, <1>3, <1>4, <1>5

(***************************************************************************)
(* What comes to the client.                                               *)
(***************************************************************************)
\* The stream behind what comm_waitmsg waits for, when more comes.
LEMMA MoreComes ==
    ASSUME TypeOK, NEW q, Stream(q), NEW t \in Seq(Unit), t # <<>>,
           s2c' = s2c \o t, UNCHANGED <<wpc, wmsg, shown>>
    PROVE  /\ Ahead' = Ahead /\ Seen' = Seen
           /\ q \in Seq(Seq(Unit)) /\ Append(q, t) \in Seq(Seq(Unit))
           /\ Ahead' <= Len(s2c')
           /\ \A k \in 1 .. Ahead : s2c'[k] = s2c[k]
           /\ Cut(Unit, After(s2c', Ahead'), Append(q, t))
    <1>1. Ahead' = Ahead /\ Seen' = Seen
        BY DEF Ahead, Seen
    <1>2. /\ Ahead \in Nat /\ Ahead <= Len(s2c) /\ s2c \in Seq(Unit) /\ Len(s2c) \in Nat
          /\ Len(t) \in Nat
        BY ToldLists, Types, LenProperties DEF Stream
    <1>3. Cut(Unit, After(s2c, Ahead), q)
        BY DEF Stream
    <1>4. q \in Seq(Seq(Unit)) /\ After(s2c, Ahead) \in Seq(Unit)
        BY <1>3 DEF Cut
    <1>5. Append(q, t) \in Seq(Seq(Unit))
        BY <1>4, AppendProperties
    <1>6. /\ Len(s2c \o t) = Len(s2c) + Len(t)
          /\ \A k \in 1 .. Len(s2c) + Len(t) :
                 (s2c \o t)[k] = IF k <= Len(s2c) THEN s2c[k] ELSE t[k - Len(s2c)]
        BY <1>2, ConcatProperties
    <1>7. Ahead <= Len(s2c \o t)
        BY <1>2, <1>6
    <1>8. \A k \in 1 .. Ahead : (s2c \o t)[k] = s2c[k]
        <2>1. \A k \in 1 .. Ahead : k <= Len(s2c) /\ k \in 1 .. Len(s2c) + Len(t)
            BY <1>2
        <2> QED
            BY <1>6, <2>1
    <1>9. After(s2c \o t, Ahead) = After(s2c, Ahead) \o t
        BY <1>2, AfterConcat
    <1>10. Cut(Unit, After(s2c, Ahead) \o t, Append(q, t))
        BY <1>3, CutMore
    <1> QED
        BY <1>1, <1>4, <1>5, <1>7, <1>8, <1>9, <1>10

\* The thread sends a piece of an answer.
LEMMA StreamAnswered ==
    ASSUME TypeOK, NEW q, Stream(q), NEW t \in Given,
           s2c' = s2c \o t, UNCHANGED <<wpc, wmsg, shown, delivered>>
    PROVE  Stream(Append(q, t))'
    <1>1. t \in Seq(Unit) /\ t # <<>> /\ t \notin Told
        BY PieceKinds DEF Given
    <1>2. /\ Ahead' = Ahead /\ Seen' = Seen
          /\ q \in Seq(Seq(Unit)) /\ Append(q, t) \in Seq(Seq(Unit))
          /\ Ahead' <= Len(s2c')
          /\ \A k \in 1 .. Ahead : s2c'[k] = s2c[k]
          /\ Cut(Unit, After(s2c', Ahead'), Append(q, t))
        BY <1>1, MoreComes
    <1>3. Deliveries' = Deliveries
        BY DEF Deliveries
    <1>4. Listed(Append(q, t), Told, Seen + 1, Len(delivered), Deliveries)
        <2>1. Seen + 1 \in Nat /\ Len(delivered) \in Nat
            BY ToldLists
        <2>2. <<t>> \in Seq(Seq(Unit)) /\ \A p \in 1 .. Len(<<t>>) : <<t>>[p] \notin Told
            BY <1>1
        <2>3. Listed(q, Told, Seen + 1, Len(delivered), Deliveries)
            BY DEF Stream
        <2>4. Listed(q \o <<t>>, Told, Seen + 1, Len(delivered), Deliveries)
            BY <1>2, <2>1, <2>2, <2>3, ListedConcat
        <2>5. Append(q, t) = q \o <<t>>
            BY <1>1, <1>2, AppendIsConcat
        <2> QED
            BY <2>4, <2>5
    <1> QED
        BY <1>2, <1>3, <1>4 DEF Stream

\* loop_dispatch sends a message.
LEMMA StreamDelivered ==
    ASSUME TypeOK, TypeOK', NEW q, Stream(q), NEW p \in Peer,
           s2c' = s2c \o MsgPiece(p), delivered' = Append(delivered, p),
           UNCHANGED <<wpc, wmsg, shown>>
    PROVE  Stream(Append(q, MsgPiece(p)))'
    <1> DEFINE t == MsgPiece(p)
    <1>1. t \in Seq(Unit) /\ t # <<>> /\ t \in Told
        BY MessagePiece
    <1>2. /\ Ahead' = Ahead /\ Seen' = Seen
          /\ q \in Seq(Seq(Unit)) /\ Append(q, t) \in Seq(Seq(Unit))
          /\ Ahead' <= Len(s2c')
          /\ \A k \in 1 .. Ahead : s2c'[k] = s2c[k]
          /\ Cut(Unit, After(s2c', Ahead'), Append(q, t))
        BY <1>1, MoreComes
    <1>3. /\ delivered \in Seq(Peer)
          /\ Len(delivered) \in Nat /\ Seen \in Nat /\ Seen + 1 \in Nat
          /\ \A j \in 1 .. Len(delivered) : Deliveries[j] = MsgPiece(delivered[j])
          /\ Seen <= Len(delivered)
        BY ToldLists DEF Stream, TypeOK
    <1>4. /\ Len(delivered') = Len(delivered) + 1
          /\ \A j \in 1 .. Len(delivered) : delivered'[j] = delivered[j]
          /\ delivered'[Len(delivered) + 1] = p
        BY <1>3, AppendProperties
    <1>5. \A j \in 1 .. Len(delivered') : Deliveries'[j] = MsgPiece(delivered'[j])
        BY DEF Deliveries
    <1> HIDE DEF t
    <1>6. Listed(Append(q, t), Told, Seen + 1, Len(delivered) + 1, Deliveries')
        <2>1. Listed(q, Told, Seen + 1, Len(delivered), Deliveries)
            BY DEF Stream
        <2>2. Seen + 1 <= Len(delivered) + 1
            BY <1>3
        <2>3. \A j \in Seen + 1 .. Len(delivered) : Deliveries'[j] = Deliveries[j]
            <3>1. \A j \in Seen + 1 .. Len(delivered) :
                      j \in 1 .. Len(delivered) /\ j \in 1 .. Len(delivered')
                BY <1>3, <1>4
            <3> QED
                BY <1>3, <1>4, <1>5, <3>1
        <2>4. Deliveries'[Len(delivered) + 1] = t
            <3>1. Len(delivered) + 1 \in 1 .. Len(delivered')
                BY <1>3, <1>4
            <3> QED
                BY <1>4, <1>5, <3>1 DEF t
        <2> QED
            BY <1>1, <1>2, <1>3, <2>1, <2>2, <2>3, <2>4, ListedPut
    <1>7. Seen' <= Len(delivered')
        BY <1>2, <1>3, <1>4
    <1>8. wpc' = "data" => /\ wmsg' = Announced(delivered'[Seen'])
                           /\ \A k \in 1 .. Ahead' : s2c'[k] = <<FileName(wmsg'), k>>
        <2>1. SUFFICES ASSUME wpc' = "data"
                       PROVE  /\ wmsg' = Announced(delivered'[Seen'])
                              /\ \A k \in 1 .. Ahead' : s2c'[k] = <<FileName(wmsg'), k>>
            OBVIOUS
        <2>2. /\ wmsg = Announced(delivered[Seen])
              /\ \A k \in 1 .. Ahead : s2c[k] = <<FileName(wmsg), k>>
            BY <2>1 DEF Stream
        <2>3. Seen \in 1 .. Len(delivered)
            <3>1. Seen = Len(shown) + 1 /\ Len(shown) \in Nat
                BY <2>1, ToldLists DEF Seen
            <3> QED
                BY <1>3, <3>1
        <2>4. delivered'[Seen'] = delivered[Seen]
            BY <1>2, <1>4, <2>3
        <2> QED
            BY <1>2, <2>2, <2>4
    <1> QED
        BY <1>2, <1>4, <1>6, <1>7, <1>8 DEF Stream, t

\* The end of an answer that goes on, or has not begun, when a message comes.
LEMMA PhaseDelivered ==
    ASSUME TypeOK, NEW q \in Seq(Seq(Unit)), NEW p \in Peer, Phase(q), spc # "closed",
           UNCHANGED <<disk, c2s, spc, smsg, out, cpc, cname, cbuf, ci>>
    PROVE  Phase(Append(q, MsgPiece(p)))'
    <1> DEFINE t == MsgPiece(p)
    <1>1. t \in Seq(Unit) /\ t \notin Given
        BY MessagePiece
    <1>2. /\ Append(q, t) \in Seq(Seq(Unit)) /\ Append(q, t) = q \o <<t>>
          /\ Len(Append(q, t)) = Len(q) + 1 /\ Len(q) \in Nat
          /\ Append(q, t)[Len(q) + 1] = t
          /\ \A i \in 1 .. Len(q) : Append(q, t)[i] = q[i]
        BY <1>1, AppendProperties, AppendIsConcat, LenProperties
    <1>3. <<t>> \in Seq(Seq(Unit)) /\ \A i \in 1 .. Len(<<t>>) : <<t>>[i] \notin Given
        BY <1>1
    <1> HIDE DEF t
    <1>4. NoAnswer(q) => NoAnswer(Append(q, t))'
        <2>1. SUFFICES ASSUME NoAnswer(q)
                       PROVE  NoAnswer(Append(q, t))'
            OBVIOUS
        <2>2. \A i \in 1 .. Len(q) + 1 : i \in 1 .. Len(q) \/ i = Len(q) + 1
            BY <1>2
        <2>3. \A i \in 1 .. Len(Append(q, t)) : Append(q, t)[i] \notin Given
            BY <1>1, <1>2, <2>1, <2>2 DEF NoAnswer
        <2> QED
            BY <2>1, <2>3 DEF NoAnswer
    <1>5. ASSUME NEW lo \in Nat, NEW f, Answering(q, lo, f)
          PROVE  Answering(Append(q, t), lo, f)'
        <2> DEFINE a == Answer(f, disk["server"][f])
        <2>1. PICK hi \in Nat : /\ lo <= hi + 1
                                /\ Remaining(f, hi)
                                /\ Listed(q, Given, lo, hi, a)
            BY <1>5 DEF Answering
        <2>2. Remaining(f, hi)'
            BY <2>1 DEF Remaining
        <2>3. Listed(Append(q, t), Given, lo, hi, a)
            <3> HIDE DEF a
            <3>1. Listed(q \o <<t>>, Given, lo, hi, a)
                BY <1>3, <2>1, ListedConcat
            <3> QED
                BY <1>2, <3>1
        <2> QED
            BY <1>5, <2>1, <2>2, <2>3 DEF Answering
    <1>6. CASE cpc = "console" /\ Unasked /\ NoAnswer(q)
        <2>1. Unasked'
            BY <1>6 DEF Unasked, NotInHand
        <2> QED
            BY <1>4, <1>6, <2>1 DEF Phase, t
    <1>7. CASE cpc = "header" /\ (Pending \/ Handling) /\ NoAnswer(q)
        <2>1. Pending' \/ Handling'
            BY <1>7 DEF Pending, Handling, NotInHand
        <2> QED
            BY <1>4, <1>7, <2>1 DEF Phase, t
    <1>8. CASE cpc = "header" /\ \E f \in Name : Answering(q, 1, f)
        <2>1. 1 \in Nat
            OBVIOUS
        <2>2. \E f \in Name : Answering(Append(q, t), 1, f)'
            BY <1>5, <1>8, <2>1
        <2> QED
            BY <1>8, <2>2 DEF Phase, t
    <1>9. CASE /\ cpc = "get"
               /\ Len(cbuf) = Len(disk["server"][cname])
               /\ Answering(q, ci + 2, cname)
        <2>1. ci + 2 \in Nat /\ ci' = ci /\ cname' = cname
            BY Types
        <2>2. Answering(Append(q, t), ci + 2, cname)'
            BY <1>5, <1>9, <2>1
        <2> QED
            BY <1>9, <2>1, <2>2 DEF Phase, t
    <1> QED
        BY <1>6, <1>7, <1>8, <1>9 DEF Phase

LEMMA ClientDeliver ==
    ASSUME TypeOK, TypeOK', ClientRight, NEW p \in Peer, Deliver(p)
    PROVE  ClientRight'
    <1> USE DEF files, console, waiting, thread, input
    <1>1. /\ spc # "closed" /\ client = "up"
          /\ s2c' = (s2c \o <<Announced(p)>>) \o Original(p)
          /\ delivered' = Append(delivered, p)
          /\ UNCHANGED <<disk, c2s, spc, smsg, out, cpc, cname, cbuf, ci, wpc, wmsg, shown,
                         client, short, crossed>>
        BY DEF Deliver, Announced, ServerGone, ClientGone
    <1> SUFFICES ASSUME "client" \notin short, ~crossed
                 PROVE  ClientRight'
        BY <1>1 DEF ClientRight
    <1>2. ShownRight /\ ToClient
        BY <1>1 DEF ClientRight
    <1>3. s2c' = s2c \o MsgPiece(p)
        <2> DEFINE h == Announced(p)
                   t == Original(p)
        <2>1. h \in Unit /\ t \in Seq(Byte)
            BY Names, MessageSends
        <2> HIDE DEF h, t
        <2>2. <<h>> \in Seq(Unit) /\ t \in Seq(Unit)
            BY <2>1, UnitKinds, DataOnly
        <2>3. (s2c \o <<h>>) \o t = s2c \o (<<h>> \o t)
            <3>1. s2c \in Seq(Unit)
                BY Types
            <3> QED
                BY <2>2, <3>1, ConcatAssociative
        <2>4. s2c' = (s2c \o <<h>>) \o t
            BY <1>1 DEF h, t
        <2>5. MsgPiece(p) = <<h>> \o t
            BY DEF MsgPiece, h, t
        <2> QED
            BY <2>3, <2>4, <2>5
    <1>4. PICK q : Stream(q) /\ Phase(q)
        BY <1>2 DEF ToClient
    <1>5. q \in Seq(Seq(Unit))
        BY <1>4 DEF Stream, Cut
    <1>6. Stream(Append(q, MsgPiece(p)))'
        BY <1>1, <1>3, <1>4, StreamDelivered
    <1>7. Phase(Append(q, MsgPiece(p)))'
        BY <1>1, <1>4, <1>5, PhaseDelivered
    <1>8. PICK r : r = Append(q, MsgPiece(p))
        OBVIOUS
    <1>9. ToClient'
        BY <1>6, <1>7, <1>8 DEF ToClient
    <1>10. ShownRight'
        <2>1. delivered \in Seq(Peer) /\ Len(delivered) \in Nat /\ Len(shown) \in Nat
            BY ToldLists DEF TypeOK
        <2>2. /\ Len(delivered') = Len(delivered) + 1
              /\ \A i \in 1 .. Len(delivered) : delivered'[i] = delivered[i]
            BY <1>1, <2>1, AppendProperties
        <2>3. \A i \in 1 .. Len(shown) : i \in 1 .. Len(delivered)
            BY <1>2, <2>1 DEF ShownRight
        <2>4. Len(shown) <= Len(delivered')
            BY <1>2, <2>1, <2>2 DEF ShownRight
        <2> QED
            BY <1>1, <1>2, <2>2, <2>3, <2>4 DEF ShownRight
    <1> QED
        BY <1>1, <1>9, <1>10 DEF ClientRight

\* An error response is the last that the thread sends.
LEMMA ClientError ==
    ASSUME TypeOK, ClientRight, spc = "handle", spc' = "closed",
           NEW x \in Name, s2c' = Append(s2c, <<"ERROR", x, 1>>),
           UNCHANGED <<c2s, out, waiting, cpc, delivered, client, short, crossed>>
    PROVE  ClientRight'
    <1> SUFFICES ASSUME "client" \notin short, ~crossed
                 PROVE  ClientRight'
        BY DEF ClientRight
    <1>1. client # "lost" /\ ShownRight /\ (client = "up" => ToClient)
        BY DEF ClientRight
    <1>2. UNCHANGED <<wpc, wmsg, shown>>
        BY DEF waiting
    <1>3. ShownRight'
        BY <1>1, <1>2 DEF ShownRight
    <1> SUFFICES ASSUME client = "up"
                 PROVE  ToClient'
        BY <1>1, <1>3 DEF ClientRight
    <1>4. PICK q : Stream(q) /\ Phase(q)
        BY <1>1 DEF ToClient
    <1> DEFINE h == <<"ERROR", x, 1>>
               t == <<h>>
    <1>5. t \in Errors /\ t \in Given /\ t \in Seq(Unit) /\ h \in Unit /\ s2c' = Append(s2c, h)
        BY ErrorPiece, ErrorSends
    <1> HIDE DEF h
    <1>6. s2c' = s2c \o t
        BY <1>5, Types, AppendIsConcat
    <1> HIDE DEF t
    <1>7. Stream(Append(q, t))'
        BY <1>2, <1>4, <1>5, <1>6, StreamAnswered
    <1>8. q \in Seq(Seq(Unit))
        BY <1>4 DEF Stream, Cut
    <1>9. NoAnswer(q) /\ cpc \in {"console", "header"} /\ (cpc = "console" => Unasked)
        <2>1. \A lo, f : ~Answering(q, lo, f)
            BY DEF Answering
        <2> QED
            BY <1>4, <2>1 DEF Phase
    <1>10. NoAnswer(Append(q, t))'
        <2>1. /\ Len(Append(q, t)) = Len(q) + 1 /\ Len(q) \in Nat
              /\ Append(q, t)[Len(q) + 1] = t
              /\ \A i \in 1 .. Len(q) : Append(q, t)[i] = q[i]
            BY <1>5, <1>8, AppendProperties, LenProperties
        <2>2. \A i \in 1 .. Len(q) + 1 : i \in 1 .. Len(q) \/ i = Len(q) + 1
            BY <2>1
        <2>3. \A i \in 1 .. Len(q) : q[i] \notin Given
            BY <1>9 DEF NoAnswer
        <2>4. \A i \in 1 .. Len(Append(q, t)) : Append(q, t)[i] \in Given => Append(q, t)[i] \in Errors
            BY <1>5, <2>1, <2>2, <2>3
        <2> QED
            BY <1>9, <2>4 DEF NoAnswer
    <1>11. cpc = "console" => Unasked'
        BY <1>9 DEF Unasked, NotInHand
    <1>12. Phase(Append(q, t))'
        BY <1>9, <1>10, <1>11 DEF Phase
    <1>13. PICK r : r = Append(q, t)
        OBVIOUS
    <1> QED
        BY <1>7, <1>12, <1>13 DEF ToClient

LEMMA ClientAnswer ==
    ASSUME TypeOK, ClientRight, put_handler_Fails \/ get_handler
    PROVE  ClientRight'
    <1> USE DEF files, console, thread, input
    <1>0. FileName(smsg) \in Name
        BY Types, HeaderProperties
    <1>1. CASE put_handler_Fails
        <2> DEFINE x == FileName(smsg)
        <2>1. /\ x \in Name /\ s2c' = Append(s2c, <<"ERROR", x, 1>>)
              /\ spc = "handle" /\ spc' = "closed"
              /\ UNCHANGED <<c2s, out, waiting, cpc, delivered, client, short, crossed>>
            BY <1>0, <1>1 DEF put_handler_Fails, Handle
        <2> HIDE DEF x
        <2> QED
            BY <2>1, ClientError
    <1>2. CASE get_handler
        <2>4. PICK f \in Name : f = FileName(smsg)
            BY <1>0
        <2>5. PICK data \in Seq(Byte) : data = disk["server"][f]
            BY <2>4, DiskType, Hosts
        <2>1. /\ spc = "handle" /\ Command(smsg) = "GET"
              /\ UNCHANGED <<disk, c2s, waiting, cpc, delivered, client, short, crossed>>
            BY <1>2 DEF get_handler, Handle
        <2>2. CASE f \notin stored["server"]
            <3>1. s2c' = Append(s2c, <<"ERROR", f, 1>>) /\ spc' = "closed" /\ UNCHANGED out
                BY <1>2, <2>2, <2>4 DEF get_handler
            <3> QED
                BY <2>1, <3>1, ClientError
        <2>3. CASE f \in stored["server"]
            <3>1. out' = Answer(f, data) /\ spc' = "send" /\ s2c' = s2c
                BY <1>2, <2>3, <2>4, <2>5 DEF get_handler, Answer
            <3>2. data = disk'["server"][f]
                BY <2>1, <2>5
            <3>3. ASSUME NEW q, Stream(q), Phase(q)
                  PROVE  Phase(q)'
                <4>1. NotInHand => FALSE
                    BY <2>1 DEF NotInHand
                <4>2. \A lo, g : ~Answering(q, lo, g)
                    BY <2>1 DEF Answering
                <4>3. cpc = "header" /\ Handling /\ NoAnswer(q)
                    BY <2>1, <3>3, <4>1, <4>2 DEF Phase, Unasked, Pending
                <4>4. Listed(q, Given, 1, 0, Answer(f, data))
                    <5>1. q \in Seq(Seq(Unit))
                        BY <3>3 DEF Stream, Cut
                    <5>2. \A i \in 1 .. Len(q) : q[i] \notin Given
                        BY <2>1, <4>3 DEF NoAnswer
                    <5>3. 1 \in Nat /\ 0 \in Nat /\ 1 = 0 + 1
                        OBVIOUS
                    <5> QED
                        BY <5>1, <5>2, <5>3, ListedNone
                <4>5. /\ out' # <<>> /\ Len(out') = Blocks(data) + 2 /\ Blocks(data) \in Nat
                      /\ \A j \in 1 .. Len(out') : out'[j] = Answer(f, data)[0 + j]
                    BY <2>1, <3>1, AnswerType, BlockNat, BlocksOf
                <4>6. Remaining(f, 0)'
                    BY <3>2, <4>5 DEF Remaining
                <4>7. Answering(q, 1, f)'
                    <5>1. c2s' = <<>> /\ spc' \in {"command", "send"} /\ 0 \in Nat /\ 1 <= 0 + 1
                        BY <2>1, <3>1, <4>3 DEF Handling
                    <5>2. Listed(q, Given, 1, 0, Answer(f, disk'["server"][f]))
                        BY <3>2, <4>4
                    <5> QED
                        BY <4>6, <5>1, <5>2 DEF Answering
                <4> QED
                    BY <2>1, <4>3, <4>7 DEF Phase
            <3>4. ASSUME NEW q, Stream(q)
                  PROVE  Stream(q)'
                BY <2>1, <3>1, <3>4 DEF Stream, Ahead, Seen, Deliveries, waiting
            <3> QED
                BY <2>1, <3>1, <3>3, <3>4 DEF ClientRight, ToClient, ShownRight, waiting
        <2> QED
            BY <2>2, <2>3
    <1> QED
        BY <1>1, <1>2

\* One send of an answer, of which the rest may be nothing.
LEMMA SomeMoreAnswered ==
    ASSUME TypeOK, Sending, OwnBytes, ~crossed, SendChunk, NEW q, Stream(q),
           NEW lo \in Nat, NEW f \in Name, Answering(q, lo, f)
    PROVE  \E r : Stream(r)' /\ Answering(r, lo, f)'
    <1> USE DEF files, console, waiting, input
    <1>1. /\ spc = "send" /\ spc' = IF out' = <<>> THEN "command" ELSE "send"
          /\ s2c' = s2c \o Head(out) /\ out' = Tail(out)
          /\ UNCHANGED <<disk, c2s, wpc, wmsg, shown, delivered>>
        BY DEF SendChunk
    <1>2. out \in Seq(Seq(Unit)) /\ out # <<>>
        BY <1>1 DEF TypeOK, Sending, Unit
    <1>3. PICK u : u = Head(out)
        OBVIOUS
    <1>4. /\ Len(out) \in Nat /\ Len(out) >= 1 /\ u = out[1] /\ u \in Seq(Unit)
          /\ out' \in Seq(Seq(Unit)) /\ Len(out') = Len(out) - 1
          /\ \A j \in 1 .. Len(out) - 1 : out'[j] = out[1 + j]
        <2>1. /\ Len(out) \in Nat /\ Len(out) >= 1 /\ Head(out) = out[1] /\ Head(out) \in Seq(Unit)
              /\ Tail(out) = After(out, 1) /\ Tail(out) \in Seq(Seq(Unit))
              /\ Len(Tail(out)) = Len(out) - 1
            BY <1>2, HeadProperties
        <2>2. \A j \in 1 .. Len(out) - 1 : After(out, 1)[j] = out[1 + j]
            BY <1>2, <2>1, AfterProperties
        <2> QED
            BY <1>1, <1>3, <2>1, <2>2
    <1>5. PICK data \in Seq(Own) : data = disk["server"][f]
        BY Hosts DEF OwnBytes
    <1>6. PICK hi \in Nat : /\ lo <= hi + 1
                            /\ Remaining(f, hi)
                            /\ Listed(q, Given, lo, hi, Answer(f, data))
        BY <1>5 DEF Answering
    <1>7. /\ c2s = <<>> /\ c2s' = <<>> /\ spc' \in {"command", "send"} /\ data = disk'["server"][f]
        BY <1>1, <1>5 DEF Answering
    <1>8. /\ hi + Len(out) = Blocks(data) + 2
          /\ \A j \in 1 .. Len(out) : out[j] = Answer(f, data)[hi + j]
        BY <1>2, <1>5, <1>6 DEF Remaining
    <1>9. Blocks(data) \in Nat /\ Rest(data) \in Nat
        BY BlockNat, BlocksOf
    <1>10. hi + 1 \in 1 .. Blocks(data) + 2 /\ u = Answer(f, data)[hi + 1]
        <2>1. 1 \in 1 .. Len(out)
            BY <1>4
        <2> QED
            BY <1>4, <1>8, <1>9, <2>1
    <1>11. /\ u # <<>> => u \in Given
           /\ u = <<>> <=> hi + 1 = Blocks(data) + 2 /\ Rest(data) = 0
        BY <1>10, AnswerPiece
    <1>12. CASE u = <<>>
        <2>1. hi + 1 = Blocks(data) + 2 /\ Rest(data) = 0
            BY <1>11, <1>12
        <2>2. Len(out') = 0 /\ out' = <<>> /\ hi = Blocks(data) + 1
            <3>1. Len(out') = 0 /\ hi = Blocks(data) + 1
                BY <1>4, <1>8, <1>9, <2>1
            <3> QED
                BY <1>4, <3>1, EmptySeq
        <2>3. s2c' = s2c
            BY <1>1, <1>3, <1>12, Types, ConcatEmptySeq
        <2>4. Stream(q)'
            BY <1>1, <2>3 DEF Stream, Ahead, Seen, Deliveries
        <2>5. Remaining(f, hi)'
            BY <1>7, <2>1, <2>2 DEF Remaining
        <2>6. Listed(q, Given, lo, hi, Answer(f, disk'["server"][f]))
            BY <1>6, <1>7
        <2>7. Answering(q, lo, f)'
            BY <1>6, <1>7, <2>5, <2>6 DEF Answering
        <2> QED
            BY <2>4, <2>7
    <1>13. CASE u # <<>>
        <2>1. u \in Given
            BY <1>11, <1>13
        <2>2. Stream(Append(q, u))'
            BY <1>1, <1>3, <2>1, StreamAnswered
        <2>3. q \in Seq(Seq(Unit))
            BY DEF Stream, Cut
        <2>4. Listed(Append(q, u), Given, lo, hi + 1, Answer(f, data))
            BY <1>4, <1>6, <1>10, <2>1, <2>3, ListedPut
        <2>5. Remaining(f, hi + 1)'
            <3>1. ASSUME NEW j \in 1 .. Len(out')
                  PROVE  out'[j] = Answer(f, data)[(hi + 1) + j]
                <4>1. j \in 1 .. Len(out) - 1 /\ 1 + j \in 1 .. Len(out) /\ hi + (1 + j) = (hi + 1) + j
                    BY <1>4
                <4> QED
                    BY <1>4, <1>8, <4>1
            <3>2. (hi + 1) + Len(out') = Blocks(data) + 2
                BY <1>4, <1>8, <1>9
            <3>3. out' = <<>> => hi + 1 = Blocks(data) + 2 /\ Rest(data) # 0
                <4>1. out' = <<>> => Len(out') = 0
                    BY EmptySeq
                <4>2. out' = <<>> => hi + 1 = Blocks(data) + 2
                    BY <1>9, <3>2, <4>1
                <4> QED
                    BY <1>11, <1>13, <4>2
            <3> QED
                BY <1>7, <3>1, <3>2, <3>3 DEF Remaining
        <2>6. hi + 1 \in Nat /\ lo <= (hi + 1) + 1
            BY <1>6
        <2>7. Listed(Append(q, u), Given, lo, hi + 1, Answer(f, disk'["server"][f]))
            BY <1>7, <2>4
        <2>8. Answering(Append(q, u), lo, f)'
            BY <1>7, <2>5, <2>6, <2>7 DEF Answering
        <2>9. PICK r : r = Append(q, u)
            OBVIOUS
        <2> QED
            BY <2>2, <2>8, <2>9
    <1> QED
        BY <1>12, <1>13

LEMMA ClientChunk ==
    ASSUME TypeOK, Sending, OwnBytes, ClientRight, SendChunk
    PROVE  ClientRight'
    <1> USE DEF files, console, waiting, input
    <1>1. /\ spc = "send" /\ client = "up"
          /\ s2c' = s2c \o Head(out) /\ out' = Tail(out) /\ spc' \in {"command", "send"}
          /\ UNCHANGED <<disk, c2s, smsg, wpc, wmsg, shown, delivered, client, short, crossed,
                         cpc, cname, cbuf, ci>>
        BY DEF SendChunk, ClientGone
    <1> SUFFICES ASSUME "client" \notin short, ~crossed
                 PROVE  ClientRight'
        BY <1>1 DEF ClientRight
    <1>2. ShownRight /\ ToClient
        BY <1>1 DEF ClientRight
    <1>3. PICK q : Stream(q) /\ Phase(q)
        BY <1>2 DEF ToClient
    <1>4. CASE NoAnswer(q) /\ ((cpc = "console" /\ Unasked) \/ (cpc = "header" /\ Pending))
        <2>1. out \in Seq(Seq(Unit)) /\ out # <<>>
            BY <1>1 DEF TypeOK, Sending, Unit
        <2>2. /\ Len(out) \in Nat /\ 1 \in 1 .. Len(out) /\ Head(out) = out[1]
              /\ Tail(out) = After(out, 1) /\ Len(Tail(out)) = Len(out) - 1 /\ 1 <= Len(out)
            BY <2>1, HeadProperties
        <2>3. \A j \in 1 .. Len(out) - 1 : After(out, 1)[j] = out[1 + j]
            BY <2>1, <2>2, AfterProperties
        <2>4. ASSUME NEW j \in 1 .. Len(out')
              PROVE  out'[j] = <<>>
            <3>1. j \in 1 .. Len(out) - 1 /\ 1 + j \in 1 .. Len(out)
                BY <1>1, <2>2
            <3> QED
                BY <1>1, <1>4, <2>2, <2>3, <3>1 DEF NoAnswer
        <2>5. NoAnswer(q)'
            BY <1>1, <1>4, <2>4 DEF NoAnswer
        <2>6. s2c' = s2c
            <3>1. Head(out) = <<>>
                BY <1>4, <2>2 DEF NoAnswer
            <3> QED
                BY <1>1, <3>1, Types, ConcatEmptySeq
        <2>7. Stream(q)'
            BY <1>1, <1>3, <2>6 DEF Stream, Ahead, Seen, Deliveries
        <2>8. /\ Unasked => Unasked'
              /\ Pending => Pending'
            BY <1>1 DEF Unasked, Pending, NotInHand
        <2>9. Phase(q)'
            BY <1>1, <1>4, <2>5, <2>8 DEF Phase
        <2> QED
            BY <1>1, <1>2, <2>7, <2>9 DEF ClientRight, ToClient, ShownRight
    <1>5. CASE cpc = "header" /\ \E f \in Name : Answering(q, 1, f)
        <2>1. PICK f \in Name : Answering(q, 1, f)
            BY <1>5
        <2>2. 1 \in Nat
            OBVIOUS
        <2>3. PICK r : Stream(r)' /\ Answering(r, 1, f)'
            BY <1>3, <2>1, <2>2, SomeMoreAnswered
        <2>4. Phase(r)'
            BY <1>1, <1>5, <2>3 DEF Phase
        <2> QED
            BY <1>1, <1>2, <2>3, <2>4 DEF ClientRight, ToClient, ShownRight
    <1>6. CASE /\ cpc = "get"
               /\ Len(cbuf) = Len(disk["server"][cname])
               /\ Answering(q, ci + 2, cname)
        <2>1. PICK f \in Name, lo \in Nat : f = cname /\ lo = ci + 2
            BY Types
        <2>2. PICK r : Stream(r)' /\ Answering(r, lo, f)'
            BY <1>3, <1>6, <2>1, SomeMoreAnswered
        <2>3. Answering(r, ci + 2, cname)'
            BY <1>1, <2>1, <2>2 DEF Answering
        <2>4. Phase(r)'
            BY <1>1, <1>6, <2>3 DEF Phase
        <2> QED
            BY <1>1, <1>2, <2>2, <2>4 DEF ClientRight, ToClient, ShownRight
    <1> QED
        BY <1>1, <1>3, <1>4, <1>5, <1>6 DEF Phase, Handling

(***************************************************************************)
(* Files are made of what is read from files and typed here: as long as    *)
(* the client's threads do not cross, none takes in another user's message.*)
(***************************************************************************)
LEMMA OwnOriginal ==
    ASSUME NEW x \in File \cup Text
    PROVE  Original(x) \in Seq(Own)
    <1>1. x \in Name /\ Size[x] \in Nat
        BY Names
    <1>2. Original(x) \in [1 .. Size[x] -> Own]
        <2>1. \A k \in 1 .. Size[x] : <<x, k>> \in Own
            BY <1>1, OwnProperties
        <2> QED
            BY <2>1 DEF Original
    <1> QED
        BY <1>1, <1>2, FunctionIsSeq

LEMMA OwnInit ==
    ASSUME Init
    PROVE  OwnBytes
    <1>1. ASSUME NEW h \in Host, NEW x \in Name
          PROVE  disk[h][x] \in Seq(Own)
        <2>1. CASE x \in stored[h]
            <3>1. x \in File
                BY <2>1, ClientAssumption DEF Init, Host
            <3>2. disk[h][x] = Original(x)
                BY <2>1 DEF Init
            <3> QED
                BY <3>1, <3>2, OwnOriginal
        <2>2. CASE x \notin stored[h]
            <3>1. disk[h][x] = <<>>
                BY <2>2 DEF Init
            <3> QED
                BY <3>1, EmptySeq
        <2> QED
            BY <2>1, <2>2
    <1>2. disk \in [Host -> [Name -> Seq(Own)]]
        <2>1. disk = [h \in Host |-> [x \in Name |-> disk[h][x]]]
            BY DEF Init
        <2> QED
            BY <1>1, <2>1
    <1>3. cbuf = <<>> /\ sbuf = <<>> /\ c2s = <<>>
        BY DEF Init
    <1> QED
        BY <1>2, <1>3, EmptySeq DEF OwnBytes

LEMMA OwnSent ==
    ASSUME NEW s \in Seq(Own \cup Header), NEW h \in Header, NEW t \in Seq(Own)
    PROVE  (s \o <<h>>) \o t \in Seq(Own \cup Header)
    <1>1. t \in Seq(Own \cup Header)
        BY SeqMonotonic
    <1>2. <<h>> \in Seq(Own \cup Header)
        BY OwnProperties, OneUnit
    <1>3. s \o <<h>> \in Seq(Own \cup Header)
        BY <1>2, ConcatProperties
    <1> QED
        BY <1>1, <1>3, ConcatProperties

LEMMA OwnConsole ==
    ASSUME TypeOK, OwnBytes, Type
    PROVE  OwnBytes'
    <1> USE DEF files, console, thread
    <1> SUFFICES ASSUME ~crossed'
                 PROVE  OwnBytes'
        BY DEF OwnBytes
    <1>1. UNCHANGED <<disk, cbuf, sbuf, crossed>>
        BY DEF Type, Quit, comm_put, comm_put_Missing, comm_get, comm_sendmsg
    <1>2. /\ disk \in [Host -> [Name -> Seq(Own)]]
          /\ cbuf \in Seq(Own) /\ sbuf \in Seq(Own) /\ c2s \in Seq(Own \cup Header)
        BY <1>1 DEF OwnBytes
    <1>3. <<>> \in Seq(Own)
        BY EmptySeq
    <1>4. CASE Quit
        BY <1>1, <1>2, <1>4 DEF Quit, OwnBytes
    <1>5. ASSUME NEW f \in File, comm_put(f)
          PROVE  OwnBytes'
        <2>1. PutOf(f) \in Header
            BY PutSends
        <2>2. disk["client"][f] \in Seq(Own)
            BY <1>2, Hosts, Names
        <2>3. PutData(f) \in Seq(Own)
            BY <2>2, BlockNat, OwnProperties, SentProperties DEF PutData
        <2>4. c2s' = (c2s \o <<PutOf(f)>>) \o PutData(f)
            BY <1>5 DEF comm_put, PutOf, PutData
        <2> QED
            BY <1>1, <1>2, <2>1, <2>3, <2>4, OwnSent DEF OwnBytes
    <1>6. ASSUME NEW f \in File, comm_put_Missing(f)
          PROVE  OwnBytes'
        <2>1. PICK size \in 0 .. Block : c2s' = Append(c2s, <<"PUT", f, size>>)
            BY <1>6 DEF comm_put_Missing
        <2>2. PICK h \in Header : h = <<"PUT", f, size>>
            <3>1. size \in Nat /\ f \in Name
                BY BlockNat, Names
            <3> QED
                BY <3>1, MadeHeader
        <2>3. c2s' \in Seq(Own \cup Header)
            BY <1>2, <2>1, <2>2, AppendProperties
        <2> QED
            BY <1>1, <1>2, <2>3 DEF OwnBytes
    <1>7. ASSUME NEW f \in File, comm_get(f)
          PROVE  OwnBytes'
        <2>1. c2s' = Append(c2s, <<"GET", f, 0>>)
            BY <1>7 DEF comm_get
        <2>2. 0 \in Nat
            OBVIOUS
        <2>3. PICK h \in Header : h = <<"GET", f, 0>>
            BY <2>2, Names, MadeHeader
        <2>4. c2s' \in Seq(Own \cup Header)
            BY <1>2, <2>1, <2>3, AppendProperties
        <2> QED
            BY <1>1, <1>2, <2>4 DEF OwnBytes
    <1>8. ASSUME NEW x \in Text, comm_sendmsg(x)
          PROVE  OwnBytes'
        <2>1. Announced(x) \in Header /\ Original(x) \in Seq(Own)
            BY Names, MessageSends, OwnOriginal
        <2>2. c2s' = (c2s \o <<Announced(x)>>) \o Original(x)
            BY <1>8 DEF comm_sendmsg, Announced
        <2> QED
            BY <1>1, <1>2, <2>1, <2>2, OwnSent DEF OwnBytes
    <1> QED
        BY <1>4, <1>5, <1>6, <1>7, <1>8 DEF Type

\* Received to a buffer: bytes of its own into one of its own.
LEMMA OwnReceived ==
    ASSUME NEW buf \in Seq(Own), NEW s \in Seq(Unit), NEW n \in Nat, NEW ended \in BOOLEAN,
           NEW m \in Lengths(s, n, ended), ~MeetsHeader(s, m),
           \A k \in 1 .. m : s[k] \in Own \cup Header,
           NEW i \in Int, Place(i) \in Int
    PROVE  Stored(buf, i, SubSeq(s, 1, m)) \in Seq(Own)
    <1>1. buf \in Seq(Byte)
        BY OwnProperties, SeqMonotonic
    <1>2. /\ m \in Nat /\ m <= Len(s)
          /\ \A k \in 1 .. m : ~IsHeader(s[k])
        BY <1>1, Received
    <1>3. \A k \in 1 .. m : s[k] \in Own
        BY <1>2, HeaderProperties
    <1>4. SubSeq(s, 1, m) \in Seq(Own)
        BY <1>2, <1>3, PartProperties
    <1> QED
        BY <1>4, StoredType

LEMMA OwnSaved ==
    ASSUME disk \in [Host -> [Name -> Seq(Own)]],
           NEW h \in Host, NEW x \in Name, NEW data \in Seq(Own), SaveFile(h, x, data)
    PROVE  disk' \in [Host -> [Name -> Seq(Own)]]
    BY DEF SaveFile

LEMMA OwnGet ==
    ASSUME TypeOK, OwnBytes, Get
    PROVE  OwnBytes'
    <1> USE DEF files, console, thread
    <1> SUFFICES ASSUME ~crossed'
                 PROVE  OwnBytes'
        BY DEF OwnBytes
    <1>1. UNCHANGED <<sbuf, c2s>>
        BY DEF Get, GetHeader, GetNoFile, GetBlock, GetRest, GetGarbled
    <1>2. ~crossed
        BY DEF Get, GetHeader, GetNoFile, GetBlock, GetRest, GetGarbled
    <1>3. /\ disk \in [Host -> [Name -> Seq(Own)]]
          /\ cbuf \in Seq(Own) /\ sbuf \in Seq(Own) /\ c2s \in Seq(Own \cup Header)
        BY <1>2 DEF OwnBytes
    <1>4. CASE GetHeader
        <2>1. Head(s2c) \in Header
            BY <1>4, Types, StreamTaken DEF GetHeader
        <2>2. cbuf' \in Seq(Own)
            BY <1>4, <2>1, HeaderProperties, OwnProperties, FreshProperties DEF GetHeader
        <2> QED
            BY <1>1, <1>3, <1>4, <2>2 DEF GetHeader, OwnBytes
    <1>5. CASE GetNoFile \/ GetGarbled
        BY <1>1, <1>3, <1>5 DEF GetNoFile, GetGarbled, OwnBytes
    <1>6. ASSUME NEW n \in Nat, NEW m \in Lengths(s2c, n, ServerGone), ~MeetsHeader(s2c, m),
                 \A k \in 1 .. m : ~IsMessage(s2c[k]), NEW i \in Int, Place(i) \in Int
          PROVE  Stored(cbuf, i, SubSeq(s2c, 1, m)) \in Seq(Own)
        <2>1. /\ s2c \in Seq(Unit) /\ cbuf \in Seq(Byte) /\ ServerGone \in BOOLEAN
            BY Types
        <2>2. \A k \in 1 .. m : k \in 1 .. Len(s2c) /\ s2c[k] \in Byte
            BY <1>6, <2>1, Received
        <2>3. \A k \in 1 .. m : s2c[k] \in Own \cup Header
            BY <1>6, <2>2 DEF Own
        <2> QED
            BY <1>3, <1>6, <2>1, <2>3, OwnReceived
    <1>7. CASE GetBlock
        <2>1. PICK m \in Lengths(s2c, Block, ServerGone) :
                 /\ ~MeetsHeader(s2c, m)
                 /\ cbuf' = Stored(cbuf, ci, SubSeq(s2c, 1, m))
                 /\ crossed' = (crossed \/ \E k \in 1 .. m : IsMessage(s2c[k]))
            BY <1>7 DEF GetBlock
        <2>2. cbuf' \in Seq(Own)
            <3>1. ci \in Int /\ Place(ci) \in Int
                BY Types
            <3> QED
                BY <1>6, <2>1, <3>1, BlockNat
        <2> QED
            BY <1>1, <1>3, <1>7, <2>2 DEF GetBlock, OwnBytes
    <1>8. CASE GetRest
        <2>1. PICK m \in Lengths(s2c, Rest(cbuf), ServerGone) :
                 /\ ~MeetsHeader(s2c, m)
                 /\ crossed' = (crossed \/ \E k \in 1 .. m : IsMessage(s2c[k]))
                 /\ \/ /\ SaveFile("client", cname, Stored(cbuf, ci - 1, SubSeq(s2c, 1, m)))
                       /\ cbuf' = <<>>
                    \/ UNCHANGED <<disk, cbuf>>
            BY <1>8 DEF GetRest
        <2>2. ci - 1 \in Int /\ Place(ci - 1) \in Int /\ Rest(cbuf) \in Nat
            BY <1>8, Types, PlaceOfRest DEF GetRest
        <2>3. PICK data \in Seq(Own) : data = Stored(cbuf, ci - 1, SubSeq(s2c, 1, m))
            BY <1>6, <2>1, <2>2
        <2>4. <<>> \in Seq(Own)
            BY EmptySeq
        <2>5. disk' \in [Host -> [Name -> Seq(Own)]] /\ cbuf' \in Seq(Own)
            <3>1. CASE SaveFile("client", cname, data) /\ cbuf' = <<>>
                BY <1>3, <2>4, <3>1, Hosts, Types, OwnSaved
            <3>2. CASE UNCHANGED <<disk, cbuf>>
                BY <1>3, <3>2
            <3> QED
                BY <2>1, <2>3, <3>1, <3>2
        <2> QED
            BY <1>1, <1>3, <2>5 DEF OwnBytes
    <1> QED
        BY <1>4, <1>5, <1>7, <1>8 DEF Get

LEMMA OwnThread ==
    ASSUME TypeOK, OwnBytes, clithread \/ PartOfCommand
    PROVE  OwnBytes'
    <1> USE DEF files, console
    <1> SUFFICES ASSUME ~crossed'
                 PROVE  OwnBytes'
        BY DEF OwnBytes
    <1>1. UNCHANGED <<cbuf, crossed>>
        BY DEF clithread, PartOfCommand, parse_msg, ParseHeader, ParseBlock, ParseRest, ParseGarbled,
               sendmsg_handler, put_handler, put_handler_Fails, get_handler, SendChunk, CloseConn
    <1>2. /\ disk \in [Host -> [Name -> Seq(Own)]]
          /\ cbuf \in Seq(Own) /\ sbuf \in Seq(Own) /\ c2s \in Seq(Own \cup Header)
        BY <1>1 DEF OwnBytes
    <1>3. <<>> \in Seq(Own) /\ <<>> \in Seq(Own \cup Header)
        BY EmptySeq
    <1>4. CASE ParseHeader
        <2>1. Head(c2s) \in Header
            BY <1>4, Types, StreamTaken DEF ParseHeader
        <2>2. sbuf' \in Seq(Own)
            BY <1>4, <2>1, HeaderProperties, OwnProperties, FreshProperties DEF ParseHeader
        <2>3. c2s' \in Seq(Own \cup Header)
            BY <1>2, <1>4, HeadProperties DEF ParseHeader
        <2> QED
            BY <1>1, <1>2, <1>4, <2>2, <2>3 DEF ParseHeader, OwnBytes
    <1>5. ASSUME NEW n \in Nat, NEW m \in Lengths(c2s, n, ClientGone), ~MeetsHeader(c2s, m),
                 NEW i \in Int, Place(i) \in Int
          PROVE  Stored(sbuf, i, SubSeq(c2s, 1, m)) \in Seq(Own) /\ After(c2s, m) \in Seq(Own \cup Header)
        <2>1. /\ c2s \in Seq(Unit) /\ ClientGone \in BOOLEAN
            BY Types
        <2>2. m \in Nat /\ m <= Len(c2s)
            BY <1>5, <2>1, LengthsProperties
        <2>3. \A k \in 1 .. m : c2s[k] \in Own \cup Header
            BY <1>2, <2>2, LenProperties
        <2>4. After(c2s, m) \in Seq(Own \cup Header)
            BY <1>2, <2>2, AfterProperties
        <2> QED
            BY <1>2, <1>5, <2>1, <2>3, <2>4, OwnReceived
    <1>6. CASE ParseBlock
        <2>1. PICK m \in Lengths(c2s, Block, ClientGone) :
                 /\ ~MeetsHeader(c2s, m)
                 /\ sbuf' = Stored(sbuf, si, SubSeq(c2s, 1, m))
                 /\ c2s' = After(c2s, m)
            BY <1>6 DEF ParseBlock
        <2>2. si \in Int /\ Place(si) \in Int
            BY Types
        <2>3. sbuf' \in Seq(Own) /\ c2s' \in Seq(Own \cup Header)
            BY <1>5, <2>1, <2>2, BlockNat
        <2> QED
            BY <1>1, <1>2, <1>6, <2>3 DEF ParseBlock, OwnBytes
    <1>7. CASE ParseRest
        <2>1. PICK m \in Lengths(c2s, Rest(sbuf), ClientGone) :
                 /\ ~MeetsHeader(c2s, m)
                 /\ sbuf' = Stored(sbuf, RestBlock, SubSeq(c2s, 1, m))
                 /\ c2s' = After(c2s, m)
            BY <1>7 DEF ParseRest
        <2>2. RestBlock \in Int /\ Place(RestBlock) \in Int /\ Rest(sbuf) \in Nat
            <3>1. si = Blocks(sbuf) /\ sbuf \in Seq(Byte)
                BY <1>7, Types DEF ParseRest
            <3>2. /\ Rest(sbuf) \in Nat /\ si \in Nat
                  /\ si - 1 \in Int /\ Place(si - 1) \in Int
                BY <3>1, PlaceOfRest
            <3>3. 0 \in Int /\ Place(0) \in Int
                BY EmptyData
            <3> QED
                BY <3>2, <3>3 DEF RestBlock
        <2>3. sbuf' \in Seq(Own) /\ c2s' \in Seq(Own \cup Header)
            BY <1>5, <2>1, <2>2
        <2> QED
            BY <1>1, <1>2, <1>7, <2>3 DEF ParseRest, OwnBytes
    <1>8. CASE ParseGarbled \/ PartOfCommand \/ SendChunk
        BY <1>1, <1>2, <1>8 DEF ParseGarbled, PartOfCommand, SendChunk, OwnBytes
    <1>9. CASE put_handler
        <2>1. SaveFile("server", FileName(smsg), sbuf) /\ sbuf' = <<>> /\ c2s' = c2s
            BY <1>9 DEF put_handler, Parsed
        <2>2. FileName(smsg) \in Name
            BY Types, HeaderProperties
        <2>3. disk' \in [Host -> [Name -> Seq(Own)]]
            BY <1>2, <2>1, <2>2, Hosts, OwnSaved
        <2> QED
            BY <1>1, <1>2, <1>3, <2>1, <2>3 DEF OwnBytes
    <1>10. CASE sendmsg_handler \/ put_handler_Fails \/ get_handler \/ CloseConn
        <2>1. disk' = disk /\ sbuf' = <<>> /\ (c2s' = c2s \/ c2s' = <<>>)
            BY <1>10 DEF sendmsg_handler, put_handler_Fails, get_handler, CloseConn, Parsed
        <2> QED
            BY <1>1, <1>2, <1>3, <2>1 DEF OwnBytes
    <1> QED
        BY <1>4, <1>6, <1>7, <1>8, <1>9, <1>10 DEF clithread, parse_msg

LEMMA OwnStep ==
    ASSUME TypeOK, OwnBytes, [Next]_vars
    PROVE  OwnBytes'
    <1>1. CASE comm_waitmsg \/ PartOfHeader \/ (\E p \in Peer : Deliver(p)) \/ UNCHANGED vars
        <2> USE DEF files, console, thread
        <2>1. UNCHANGED <<disk, cbuf, sbuf, c2s>> /\ (crossed => crossed')
            <3>1. CASE WaitHeader
                BY <3>1 DEF WaitHeader
            <3>2. CASE WaitData
                BY <3>2 DEF WaitData
            <3>3. CASE WaitGarbled
                BY <3>3 DEF WaitGarbled
            <3>4. CASE WaitEnd \/ PartOfHeader
                BY <3>4 DEF WaitEnd, PartOfHeader
            <3>5. CASE \E p \in Peer : Deliver(p)
                BY <3>5 DEF Deliver
            <3>6. CASE UNCHANGED vars
                BY <3>6 DEF vars
            <3> QED
                BY <1>1, <3>1, <3>2, <3>3, <3>4, <3>5, <3>6 DEF comm_waitmsg
        <2> QED
            BY <2>1 DEF OwnBytes
    <1> QED
        BY <1>1, OwnConsole, OwnGet, OwnThread DEF Next

(***************************************************************************)
(* comm_get takes the first piece of the stream, or nothing.               *)
(***************************************************************************)
LEMMA ListedNothing ==
    ASSUME NEW s, NEW C, NEW lo \in Nat, NEW hi \in Nat, lo = hi + 1, NEW v,
           Listed(s, C, lo, hi, v)
    PROVE  \A p \in 1 .. Len(s) : s[p] \notin C
    <1>1. lo .. hi = {}
        OBVIOUS
    <1> QED
        BY <1>1 DEF Listed, ListedAt

\* What starts the stream is not for comm_waitmsg: a piece of an answer does.
LEMMA FrontGiven ==
    ASSUME TypeOK, NEW q, Stream(q), Len(s2c) >= 1, ~IsMessage(s2c[1])
    PROVE  /\ Ahead = 0
           /\ q \in Seq(Seq(Unit)) /\ Len(q) \in Nat /\ Len(q) >= 1 /\ q[1] \in Given
           /\ Len(q[1]) \in Nat /\ Len(q[1]) >= 1 /\ Len(q[1]) <= Len(s2c)
           /\ \A k \in 1 .. Len(q[1]) : s2c[k] = q[1][k]
           /\ Cut(Unit, After(s2c, Len(q[1])), After(q, 1))
    <1>1. /\ s2c \in Seq(Unit) /\ Len(s2c) \in Nat /\ Ahead \in Nat /\ Seen \in Nat
          /\ Len(shown) \in Nat /\ Len(delivered) \in Nat
        BY Types, ToldLists
    <1>2. Ahead = 0
        <2>1. SUFFICES ASSUME Ahead >= 1
                       PROVE  FALSE
            BY <1>1
        <2>2. wpc = "data"
            BY <2>1 DEF Ahead
        <2>3. /\ Seen \in 1 .. Len(delivered)
              /\ wmsg = Announced(delivered[Seen])
              /\ s2c[1] = <<FileName(wmsg), 1>>
            <3>1. Seen = Len(shown) + 1 /\ Seen <= Len(delivered)
                BY <2>2 DEF Seen, Stream
            <3>2. 1 \in 1 .. Ahead
                BY <1>1, <2>1
            <3> QED
                BY <1>1, <2>2, <3>1, <3>2 DEF Stream
        <2>4. delivered[Seen] \in Peer /\ delivered[Seen] \in Name
            BY <2>3, ToldLists
        <2>5. FileName(wmsg) = delivered[Seen]
            BY <2>3, <2>4, MessageSends
        <2>6. 1 \in Nat
            OBVIOUS
        <2> QED
            BY <2>3, <2>4, <2>5, <2>6, OwnProperties
    <1>3. Cut(Unit, s2c, q)
        BY <1>1, <1>2, AfterNothing DEF Stream
    <1>4. /\ Len(q) \in Nat /\ Len(q) >= 1 /\ q[1] \in Seq(Unit)
          /\ Len(q[1]) \in Nat /\ Len(q[1]) >= 1 /\ Len(q[1]) <= Len(s2c)
          /\ \A k \in 1 .. Len(q[1]) : s2c[k] = q[1][k]
          /\ s2c[1] = q[1][1]
          /\ Cut(Unit, After(s2c, Len(q[1])), After(q, 1))
        BY <1>3, CutFirst
    <1>5. q \in Seq(Seq(Unit))
        BY <1>3 DEF Cut
    <1>6. q[1] # <<>>
        BY <1>4, EmptySeq
    <1>7. q[1] \in Given
        BY <1>4, <1>6 DEF Given
    <1> QED
        BY <1>2, <1>4, <1>5, <1>7

\* The rest of the stream, when the first piece of an answer is received.
LEMMA GivenTaken ==
    ASSUME TypeOK, NEW q, Stream(q), Len(s2c) >= 1, ~IsMessage(s2c[1]),
           NEW m, m = Len(q[1]), s2c' = After(s2c, m),
           UNCHANGED <<wpc, wmsg, shown, delivered>>
    PROVE  Stream(After(q, 1))'
    <1>1. /\ Ahead = 0
          /\ q \in Seq(Seq(Unit)) /\ Len(q) \in Nat /\ Len(q) >= 1 /\ q[1] \in Given
          /\ m \in Nat /\ m <= Len(s2c)
          /\ Cut(Unit, After(s2c, m), After(q, 1))
        BY FrontGiven
    <1>2. Ahead' = 0 /\ Seen' = Seen /\ Deliveries' = Deliveries
        BY <1>1 DEF Ahead, Seen, Deliveries
    <1>3. s2c' \in Seq(Unit) /\ Len(s2c') \in Nat
        BY <1>1, Types, AfterProperties, LenProperties
    <1>4. Cut(Unit, After(s2c', 0), After(q, 1))
        BY <1>1, <1>3, AfterNothing
    <1>5. Listed(After(q, 1), Told, Seen + 1, Len(delivered), Deliveries)
        <2>1. \A p \in 1 .. 1 : q[p] \notin Told
            BY <1>1, PieceKinds
        <2>2. Listed(q, Told, Seen + 1, Len(delivered), Deliveries)
            BY DEF Stream
        <2>3. Seen + 1 \in Nat /\ Len(delivered) \in Nat /\ 1 \in Nat
            BY ToldLists
        <2> QED
            BY <1>1, <2>1, <2>2, <2>3, ListedAfter
    <1>6. Seen <= Len(delivered) /\ (wpc = "data" => wmsg = Announced(delivered[Seen]))
        BY DEF Stream
    <1>7. PICK r : r = After(q, 1)
        OBVIOUS
    <1>8. /\ Seen' <= Len(delivered')
          /\ Ahead' <= Len(s2c')
          /\ wpc' = "data" => /\ wmsg' = Announced(delivered'[Seen'])
                              /\ \A k \in 1 .. Ahead' : s2c'[k] = <<FileName(wmsg'), k>>
        <2>1. 1 .. 0 = {}
            OBVIOUS
        <2> QED
            BY <1>2, <1>3, <1>6, <2>1
    <1>9. /\ Cut(Unit, After(s2c', Ahead'), r)
          /\ Listed(r, Told, Seen' + 1, Len(delivered'), Deliveries')
        BY <1>2, <1>4, <1>5, <1>7
    <1>10. Stream(r)'
        BY <1>8, <1>9 DEF Stream
    <1> QED
        BY <1>7, <1>10

\* comm_get waits for an answer: what starts the stream is its header.
LEMMA AnswerHeads ==
    ASSUME TypeOK, NEW q, Stream(q), Phase(q), cpc = "header", Len(s2c) >= 1, ~IsMessage(s2c[1]),
           ~(IsHeader(s2c[1]) /\ Command(s2c[1]) = "ERROR")
    PROVE  \E f \in Name :
               /\ Len(q[1]) = 1
               /\ s2c[1] \in Header /\ FileName(s2c[1]) = f
               /\ DataSize(s2c[1]) = Len(disk["server"][f])
               /\ Answering(After(q, 1), 2, f)
    <1>1. /\ q \in Seq(Seq(Unit)) /\ Len(q) \in Nat /\ Len(q) >= 1 /\ q[1] \in Given
          /\ Len(q[1]) \in Nat /\ Len(q[1]) >= 1
          /\ \A k \in 1 .. Len(q[1]) : s2c[k] = q[1][k]
        BY FrontGiven
    <1>2. s2c[1] = q[1][1]
        BY <1>1
    <1>3. ~NoAnswer(q)
        <2>1. SUFFICES ASSUME NoAnswer(q)
                       PROVE  FALSE
            OBVIOUS
        <2>2. 1 \in 1 .. Len(q)
            BY <1>1
        <2>3. q[1] \in Errors
            BY <1>1, <2>1, <2>2 DEF NoAnswer
        <2> QED
            BY <1>2, <2>3, ErrorHeader
    <1>4. PICK f \in Name : Answering(q, 1, f)
        BY <1>3 DEF Phase
    <1>5. PICK data \in Seq(Byte) : data = disk["server"][f] /\ Len(data) \in Nat
        BY Hosts, DiskType
    <1>6. PICK hi \in Nat : /\ Remaining(f, hi)
                            /\ Listed(q, Given, 1, hi, Answer(f, data))
        BY <1>4, <1>5 DEF Answering
    <1>7. /\ 1 <= hi /\ q[1] = Answer(f, data)[1]
          /\ Listed(After(q, 1), Given, 1 + 1, hi, Answer(f, data))
        <2>1. 1 \in Nat
            OBVIOUS
        <2> QED
            BY <1>1, <1>6, <2>1, ListedTake
    <1>8. q[1] = <<<<"GET", f, Len(data)>>>>
        <2>1. Answer(f, data)[1] = <<<<"GET", f, Len(data)>>>>
            BY AnswerType
        <2> QED
            BY <1>7, <2>1
    <1>9. PICK h \in Header : h = <<"GET", f, Len(data)>> /\ FileName(h) = f /\ DataSize(h) = Len(data)
        BY GetSends
    <1>10. Len(q[1]) = 1 /\ q[1][1] = h
        BY <1>8, <1>9, UnitKinds, OneUnit DEF Unit
    <1>11. Answering(After(q, 1), 2, f)
        <2>1. c2s = <<>> /\ spc \in {"command", "send"}
            BY <1>4 DEF Answering
        <2>2. 2 <= hi + 1 /\ 1 + 1 = 2
            BY <1>7
        <2> QED
            BY <1>5, <1>6, <1>7, <2>1, <2>2 DEF Answering
    <1> QED
        BY <1>2, <1>5, <1>9, <1>10, <1>11

\* comm_get receives a file: what starts the stream is the piece it asks for.
LEMMA AnswerGoesOn ==
    ASSUME TypeOK, NEW q, Stream(q), Phase(q), cpc = "get", Len(s2c) >= 1, ~IsMessage(s2c[1])
    PROVE  /\ Len(q[1]) = Wanted
           /\ \A k \in 1 .. Wanted : /\ s2c[k] \in Byte
                                     /\ s2c[k] = Sent(disk["server"][cname])[Place(ci) + k]
           /\ Answering(After(q, 1), ci + 3, cname)
    <1>1. /\ q \in Seq(Seq(Unit)) /\ Len(q) \in Nat /\ Len(q) >= 1 /\ q[1] \in Given
          /\ Len(q[1]) \in Nat /\ Len(q[1]) >= 1
          /\ \A k \in 1 .. Len(q[1]) : s2c[k] = q[1][k]
        BY FrontGiven
    <1>2. PICK f \in Name : f = cname
        BY Types
    <1>3. PICK data \in Seq(Byte) : data = disk["server"][f] /\ Len(data) \in Nat
        BY Hosts, DiskType
    <1>4. PICK i \in Nat : i = ci /\ i <= Blocks(cbuf) /\ i + 2 \in Nat
        BY BlockNat, Types, PlaceOfRest DEF TypeOK
    <1>5. Len(cbuf) = Len(data) /\ Answering(q, i + 2, f)
        BY <1>2, <1>3, <1>4 DEF Phase
    <1>6. Blocks(cbuf) = Blocks(data) /\ Rest(cbuf) = Rest(data) /\ Blocks(data) \in Nat
        BY <1>5, PlaceOfRest DEF Blocks, Rest
    <1>7. PICK hi \in Nat : /\ Remaining(f, hi)
                            /\ Listed(q, Given, i + 2, hi, Answer(f, data))
        BY <1>3, <1>5 DEF Answering
    <1>8. /\ i + 2 <= hi /\ q[1] = Answer(f, data)[i + 2]
          /\ Listed(After(q, 1), Given, (i + 2) + 1, hi, Answer(f, data))
        BY <1>1, <1>4, <1>7, ListedTake
    <1>9. /\ i + 1 \in 1 .. Blocks(data) + 1 /\ (i + 1) + 1 = i + 2 /\ (i + 2) + 1 = i + 3
          /\ i + 3 <= hi + 1
        BY <1>4, <1>6, <1>8
    <1>10. /\ Answer(f, data)[(i + 1) + 1] = Chunks(data)[i + 1]
           /\ Len(Chunks(data)[i + 1]) = IF i + 1 <= Blocks(data) THEN Block ELSE Rest(data)
           /\ \A k \in 1 .. Len(Chunks(data)[i + 1]) :
                  /\ Chunks(data)[i + 1][k] \in Byte
                  /\ Chunks(data)[i + 1][k] = Sent(data)[Place(i) + k]
        <2>1. PICK j \in 1 .. Blocks(data) + 1 : j = i + 1 /\ j - 1 = i
            BY <1>4, <1>9
        <2>2. /\ Answer(f, data)[j + 1] = Chunks(data)[j]
              /\ Len(Chunks(data)[j]) = IF j <= Blocks(data) THEN Block ELSE Rest(data)
              /\ \A k \in 1 .. Len(Chunks(data)[j]) :
                     /\ Chunks(data)[j][k] \in Byte
                     /\ Chunks(data)[j][k] = Sent(data)[Place(j - 1) + k]
            BY <1>2, ChunkPiece
        <2> QED
            BY <2>1, <2>2
    <1>11. q[1] = Chunks(data)[i + 1]
        BY <1>8, <1>9, <1>10
    <1>12. Len(q[1]) = Wanted
        <2>1. i + 1 <= Blocks(data) <=> i < Blocks(data)
            BY <1>4, <1>6
        <2>2. Wanted = IF i < Blocks(data) THEN Block ELSE Rest(data)
            BY <1>4, <1>6 DEF Wanted
        <2> QED
            BY <1>10, <1>11, <2>1, <2>2
    <1>13. \A k \in 1 .. Wanted : s2c[k] \in Byte /\ s2c[k] = Sent(data)[Place(i) + k]
        BY <1>1, <1>10, <1>11, <1>12
    <1>14. Answering(After(q, 1), i + 3, f)
        <2>1. c2s = <<>> /\ spc \in {"command", "send"}
            BY <1>5 DEF Answering
        <2> QED
            BY <1>3, <1>7, <1>8, <1>9, <2>1 DEF Answering
    <1> QED
        BY <1>2, <1>3, <1>4, <1>12, <1>13, <1>14

\* A piece is received: the console goes on with the answer.
LEMMA GoesOn ==
    ASSUME TypeOK, NEW q, Stream(q), Len(s2c) >= 1, ~IsMessage(s2c[1]),
           s2c' = After(s2c, Len(q[1])),
           cpc' = "get", NEW n \in Nat, n = ci' + 2, NEW f \in Name, f = cname',
           Answering(After(q, 1), n, f), Len(cbuf') = Len(disk["server"][f]),
           UNCHANGED <<disk, c2s, spc, out, wpc, wmsg, shown, delivered>>
    PROVE  ToClient'
    <1>1. PICK r : r = After(q, 1)
        OBVIOUS
    <1>2. Stream(After(q, 1))'
        BY GivenTaken
    <1>3. Stream(r)'
        BY <1>1, <1>2
    <1>4. Answering(r, n, f)
        BY <1>1
    <1>5. Answering(r, n, f)'
        BY <1>4 DEF Answering, Remaining
    <1>6. Answering(r, ci + 2, cname)'
        BY <1>5 DEF Answering
    <1>7. Phase(r)'
        BY <1>6 DEF Phase
    <1> QED
        BY <1>3, <1>7 DEF ToClient

LEMMA ClientGetHeader ==
    ASSUME TypeOK, ClientRight, GetHeader
    PROVE  ClientRight'
    <1> USE DEF files, console, waiting, thread
    <1>1. /\ client = "up" /\ cpc = "header" /\ s2c # <<>>
          /\ IsHeader(Head(s2c)) /\ Command(Head(s2c)) # "ERROR"
          /\ cpc' = "get" /\ cname' = FileName(Head(s2c))
          /\ cbuf' = Fresh(DataSize(Head(s2c))) /\ ci' = 0
          /\ s2c' = Tail(s2c)
          /\ crossed' = (crossed \/ IsMessage(Head(s2c)))
          /\ UNCHANGED <<disk, c2s, client, spc, out, wpc, wmsg, shown, delivered, short>>
        BY DEF GetHeader
    <1> SUFFICES ASSUME "client" \notin short, ~crossed'
                 PROVE  ClientRight'
        BY <1>1 DEF ClientRight
    <1>2. ShownRight /\ ToClient /\ ~IsMessage(Head(s2c))
        BY <1>1 DEF ClientRight
    <1>3. PICK q : Stream(q) /\ Phase(q)
        BY <1>2 DEF ToClient
    <1>4. Len(s2c) >= 1 /\ Head(s2c) = s2c[1] /\ Tail(s2c) = After(s2c, 1)
        BY <1>1, Types, StreamTaken
    <1>5. PICK f \in Name :
             /\ Len(q[1]) = 1
             /\ s2c[1] \in Header /\ FileName(s2c[1]) = f
             /\ DataSize(s2c[1]) = Len(disk["server"][f])
             /\ Answering(After(q, 1), 2, f)
        BY <1>1, <1>2, <1>3, <1>4, AnswerHeads
    <1>6. Len(cbuf') = Len(disk["server"][f])
        BY <1>1, <1>4, <1>5, FreshType
    <1>7. s2c' = After(s2c, Len(q[1])) /\ f = cname' /\ 2 = ci' + 2 /\ 2 \in Nat
        BY <1>1, <1>4, <1>5
    <1>8. ToClient'
        BY <1>1, <1>2, <1>3, <1>4, <1>5, <1>6, <1>7, GoesOn
    <1>9. ShownRight'
        BY <1>1, <1>2 DEF ShownRight
    <1> QED
        BY <1>1, <1>8, <1>9 DEF ClientRight

LEMMA ClientGetBlock ==
    ASSUME TypeOK, ClientRight, GetBlock
    PROVE  ClientRight'
    <1> USE DEF files, console, waiting, thread
    <1>1. PICK m \in Lengths(s2c, Block, ServerGone) :
             /\ ~MeetsHeader(s2c, m)
             /\ cbuf' = Stored(cbuf, ci, SubSeq(s2c, 1, m))
             /\ s2c' = After(s2c, m)
             /\ Asked("client", Block, m)
             /\ crossed' = (crossed \/ \E k \in 1 .. m : IsMessage(s2c[k]))
        BY DEF GetBlock
    <1>2. /\ client = "up" /\ cpc = "get" /\ ci < Blocks(cbuf)
          /\ cpc' = "get" /\ cname' = cname /\ ci' = ci + 1
          /\ UNCHANGED <<disk, c2s, client, spc, out, wpc, wmsg, shown, delivered>>
        BY DEF GetBlock
    <1>3. ci \in Int /\ Place(ci) \in Int
        BY Types
    <1>4. /\ m \in Nat /\ m <= Block /\ m <= Len(s2c)
          /\ Len(cbuf') = Len(cbuf)
        BY <1>1, <1>3, BlockNat, Types, Received
    <1>5. "client" \in short => "client" \in short'
        BY <1>1, <1>4, BlockNat, Hosts, AskedDoes DEF TypeOK
    <1> SUFFICES ASSUME "client" \notin short', ~crossed'
                 PROVE  ClientRight'
        BY DEF ClientRight
    <1>6. m = Block
        <2>1. m >= Block
            BY <1>1, <1>4, BlockNat, Hosts, AskedDoes DEF TypeOK
        <2> QED
            BY <1>4, <2>1, BlockNat
    <1>7. ShownRight /\ ToClient
        BY <1>1, <1>2, <1>5 DEF ClientRight
    <1>8. Len(s2c) >= 1 /\ ~IsMessage(s2c[1])
        <2>1. 1 \in 1 .. m /\ m >= 1 /\ Len(s2c) \in Nat
            BY <1>6, BlockNat, Types
        <2>2. Len(s2c) >= 1
            BY <1>4, <2>1
        <2>3. ~IsMessage(s2c[1])
            BY <1>1, <2>1
        <2> QED
            BY <2>2, <2>3
    <1>9. PICK q : Stream(q) /\ Phase(q)
        BY <1>7 DEF ToClient
    <1>10. Len(q[1]) = Wanted /\ Answering(After(q, 1), ci + 3, cname)
        BY <1>2, <1>8, <1>9, AnswerGoesOn
    <1>11. s2c' = After(s2c, Len(q[1]))
        BY <1>1, <1>2, <1>6, <1>10 DEF Wanted
    <1>12. Len(cbuf') = Len(disk["server"][cname])
        BY <1>2, <1>4, <1>9 DEF Phase
    <1>13. PICK n \in Nat : n = ci + 3 /\ n = ci' + 2
        <2>1. ci + 3 \in Nat /\ ci + 3 = (ci + 1) + 2
            BY Types
        <2> QED
            BY <1>2, <2>1
    <1>14. PICK f \in Name : f = cname
        BY Types
    <1>15. ToClient'
        <2>1. Answering(After(q, 1), n, f) /\ f = cname' /\ Len(cbuf') = Len(disk["server"][f])
            BY <1>2, <1>10, <1>12, <1>13, <1>14
        <2> QED
            BY <1>2, <1>8, <1>9, <1>11, <1>13, <2>1, GoesOn
    <1>16. ShownRight'
        BY <1>2, <1>7 DEF ShownRight
    <1> QED
        BY <1>2, <1>15, <1>16 DEF ClientRight

\* The last piece is received: nothing is left of the answer.
LEMMA AnswerEnds ==
    ASSUME TypeOK, OwnBytes, ~crossed, NEW f \in Name, NEW b, b = Blocks(disk["server"][f]),
           NEW q, NEW n \in Nat, Answering(q, n, f),
           \/ n = b + 3
           \/ n = b + 2 /\ Rest(disk["server"][f]) = 0
    PROVE  NoAnswer(q)
    <1>1. PICK data : data \in Seq(Own) /\ data = disk["server"][f]
        BY Hosts DEF OwnBytes
    <1>2. PICK hi \in Nat : /\ n <= hi + 1
                            /\ Remaining(f, hi)
                            /\ Listed(q, Given, n, hi, Answer(f, data))
        BY <1>1 DEF Answering
    <1>3. /\ \A j \in 1 .. Len(out) : out[j] = Answer(f, data)[hi + j]
          /\ IF out # <<>> THEN hi + Len(out) = b + 2
                           ELSE hi = b + (IF Rest(data) = 0 THEN 1 ELSE 2)
        BY <1>1, <1>2 DEF Remaining
    <1>4. PICK len \in Nat : len = Len(out) /\ (out # <<>> => len >= 1) /\ (out = <<>> => len = 0)
        BY EmptySeq, LenProperties, HeadProperties DEF TypeOK
    <1>5. PICK rest \in Nat : rest = Rest(data) /\ b \in Nat
        BY <1>1, BlockNat, BlocksOf
    <1>6. n = hi + 1 /\ (len >= 1 => len = 1 /\ hi + 1 = b + 2 /\ rest = 0)
        <2>1. \/ len >= 1 /\ hi + len = b + 2
              \/ len = 0 /\ hi = b + (IF rest = 0 THEN 1 ELSE 2)
            BY <1>3, <1>4, <1>5
        <2>2. n = b + 3 \/ (n = b + 2 /\ rest = 0)
            BY <1>1, <1>5
        <2>3. CASE len >= 1 /\ hi + len = b + 2
            BY <1>2, <1>5, <2>2, <2>3
        <2>4. CASE len = 0 /\ hi = b + (IF rest = 0 THEN 1 ELSE 2)
            BY <1>2, <1>5, <2>2, <2>4
        <2> QED
            BY <2>1, <2>3, <2>4
    <1>7. \A p \in 1 .. Len(q) : q[p] \notin Given
        BY <1>2, <1>6, ListedNothing
    <1>8. ASSUME NEW j \in 1 .. Len(out)
          PROVE  out[j] = <<>>
        <2>1. j \in 1 .. len
            BY <1>4
        <2>2. j = 1 /\ hi + j = b + 2 /\ rest = 0
            BY <1>6, <2>1
        <2>3. b + 2 \in 1 .. b + 2
            BY <1>5
        <2>4. Answer(f, data)[b + 2] = <<>>
            BY <1>1, <1>5, <2>2, <2>3, AnswerPiece
        <2> QED
            BY <1>3, <2>2, <2>4
    <1> QED
        BY <1>7, <1>8 DEF NoAnswer

\* comm_get returns, with nothing of the answer left behind.
LEMMA Returns ==
    ASSUME TypeOK, NEW q, Stream(q)', NoAnswer(q), cpc' = "console", c2s = <<>>,
           spc \in {"command", "send"},
           UNCHANGED <<c2s, spc, smsg, out>>
    PROVE  ToClient'
    <1>1. \A i \in 1 .. Len(c2s) : c2s[i] \notin Requests
        <2>1. Len(c2s) = 0 /\ 1 .. 0 = {}
            BY EmptySeq
        <2> QED
            BY <2>1
    <1>2. NoAnswer(q)'
        BY DEF NoAnswer
    <1>3. Unasked'
        BY <1>1 DEF Unasked, NotInHand
    <1>4. Phase(q)'
        BY <1>2, <1>3 DEF Phase
    <1> QED
        BY <1>4 DEF ToClient

LEMMA ClientGetRest ==
    ASSUME TypeOK, OwnBytes, ClientRight, GetRest
    PROVE  ClientRight'
    <1> USE DEF files, console, waiting, thread
    <1>1. PICK m \in Lengths(s2c, Rest(cbuf), ServerGone) :
             /\ ~MeetsHeader(s2c, m)
             /\ s2c' = After(s2c, m)
             /\ Asked("client", Rest(cbuf), m)
             /\ crossed' = (crossed \/ \E k \in 1 .. m : IsMessage(s2c[k]))
             /\ \/ cpc' = "console" /\ client' = client
                \/ client' = "faulted"
        BY DEF GetRest
    <1>2. /\ client = "up" /\ cpc = "get" /\ ci = Blocks(cbuf)
          /\ UNCHANGED <<c2s, spc, smsg, out, wpc, wmsg, shown, delivered>>
        BY DEF GetRest
    <1>3. PICK rest : rest \in Nat /\ rest = Rest(cbuf)
        BY Types, PlaceOfRest
    <1>4. m \in Nat /\ m <= rest /\ m <= Len(s2c)
        <2>1. s2c \in Seq(Unit) /\ ServerGone \in BOOLEAN
            BY Types
        <2> QED
            BY <1>1, <1>3, <2>1, LengthsProperties
    <1>5. "client" \in short => "client" \in short'
        BY <1>1, <1>3, <1>4, Hosts, AskedDoes DEF TypeOK
    <1> SUFFICES ASSUME "client" \notin short', ~crossed'
                 PROVE  ClientRight'
        BY DEF ClientRight
    <1>6. m = rest
        <2>1. m >= rest
            BY <1>1, <1>3, <1>4, Hosts, AskedDoes DEF TypeOK
        <2> QED
            BY <1>3, <1>4, <2>1
    <1>7. ShownRight /\ ToClient /\ ~crossed
        BY <1>1, <1>2, <1>5 DEF ClientRight
    <1>8. ShownRight'
        BY <1>2, <1>7 DEF ShownRight
    <1>9. CASE client' = "faulted"
        BY <1>8, <1>9 DEF ClientRight
    <1>10. CASE cpc' = "console" /\ client' = client
        <2>1. PICK q : Stream(q) /\ Phase(q)
            BY <1>7 DEF ToClient
        <2>2. PICK f \in Name : f = cname
            BY Types
        <2>3. PICK b : b \in Nat /\ b = ci /\ b = Blocks(cbuf)
            BY <1>2, Types
        <2>4. Len(cbuf) = Len(disk["server"][f]) /\ Answering(q, b + 2, f)
            BY <1>2, <2>1, <2>2, <2>3 DEF Phase
        <2>5. b = Blocks(disk["server"][f]) /\ rest = Rest(disk["server"][f])
            BY <1>3, <2>3, <2>4 DEF Blocks, Rest
        <2>6. c2s = <<>> /\ spc \in {"command", "send"}
            BY <2>4 DEF Answering
        <2>7. CASE rest = 0
            <3>1. s2c' = s2c
                BY <1>1, <1>6, <2>7, Types, AfterNothing
            <3>2. Stream(q)'
                BY <1>2, <2>1, <3>1 DEF Stream, Ahead, Seen, Deliveries
            <3>3. b + 2 \in Nat
                BY <2>3
            <3>4. NoAnswer(q)
                BY <1>7, <2>4, <2>5, <2>7, <3>3, AnswerEnds
            <3>5. ToClient'
                BY <1>2, <1>10, <2>6, <3>2, <3>4, Returns
            <3> QED
                BY <1>2, <1>8, <1>10, <3>5 DEF ClientRight
        <2>8. CASE rest # 0
            <3>1. Len(s2c) >= 1 /\ ~IsMessage(s2c[1])
                <4>1. 1 \in 1 .. m /\ m >= 1 /\ Len(s2c) \in Nat
                    BY <1>3, <1>6, <2>8, Types
                <4>2. Len(s2c) >= 1
                    BY <1>4, <4>1
                <4> QED
                    BY <1>1, <4>1, <4>2
            <3>2. Len(q[1]) = Wanted /\ Answering(After(q, 1), ci + 3, cname)
                BY <1>2, <2>1, <3>1, AnswerGoesOn
            <3>3. Wanted = m
                <4>1. ~(ci < Blocks(cbuf))
                    BY <1>2, <2>3
                <4> QED
                    BY <1>2, <1>3, <1>6, <4>1 DEF Wanted
            <3>4. PICK r : r = After(q, 1)
                OBVIOUS
            <3>5. Stream(After(q, 1))'
                BY <1>1, <1>2, <2>1, <3>1, <3>2, <3>3, GivenTaken
            <3>6. Stream(r)'
                BY <3>4, <3>5
            <3>7. b + 3 \in Nat /\ Answering(r, b + 3, f)
                BY <2>2, <2>3, <3>2, <3>4
            <3>8. NoAnswer(r)
                BY <1>7, <2>5, <3>7, AnswerEnds
            <3>9. ToClient'
                BY <1>2, <1>10, <2>6, <3>6, <3>8, Returns
            <3> QED
                BY <1>2, <1>8, <1>10, <3>9 DEF ClientRight
        <2> QED
            BY <2>7, <2>8
    <1> QED
        BY <1>1, <1>9, <1>10

LEMMA ClientGetGarbled ==
    ASSUME TypeOK, ClientRight, GetGarbled
    PROVE  ClientRight'
    <1>1. /\ client = "up"
          /\ \/ cpc = "header" /\ s2c # <<>> /\ ~IsHeader(Head(s2c))
             \/ cpc = "get" /\ MeetsHeader(s2c, Wanted)
          /\ short' = short
          /\ crossed' = (crossed \/ IsMessage(Head(s2c)) \/
                         \E k \in 1 .. Wanted : k <= Len(s2c) /\ IsMessage(s2c[k]))
        BY DEF GetGarbled
    <1> SUFFICES ASSUME "client" \notin short', ~crossed'
                 PROVE  FALSE
        BY DEF ClientRight
    <1>2. ToClient
        BY <1>1 DEF ClientRight
    <1>3. PICK q : Stream(q) /\ Phase(q)
        BY <1>2 DEF ToClient
    <1>4. s2c # <<>> => Len(s2c) >= 1 /\ Head(s2c) = s2c[1]
        BY Types, StreamTaken
    <1>5. CASE cpc = "header" /\ s2c # <<>> /\ ~IsHeader(Head(s2c))
        <2>1. s2c[1] \in Header
            BY <1>1, <1>3, <1>4, <1>5, AnswerHeads
        <2> QED
            BY <1>4, <1>5, <2>1, HeaderProperties
    <1>6. CASE cpc = "get" /\ MeetsHeader(s2c, Wanted)
        <2>1. PICK k \in 1 .. Wanted : k <= Len(s2c) /\ IsHeader(s2c[k])
            BY <1>6 DEF MeetsHeader
        <2>2. s2c # <<>>
            <3>1. k >= 1 /\ Len(s2c) \in Nat
                BY Types
            <3>2. Len(s2c) # 0
                BY <2>1, <3>1
            <3> QED
                BY <3>2, EmptySeq
        <2>3. ~IsMessage(s2c[1])
            BY <1>1, <1>4, <2>2
        <2>4. s2c[k] \in Byte
            BY <1>3, <1>4, <1>6, <2>2, <2>3, AnswerGoesOn
        <2> QED
            BY <2>1, <2>4, ByteProperties
    <1> QED
        BY <1>1, <1>5, <1>6

LEMMA ClientGet ==
    ASSUME TypeOK, OwnBytes, ClientRight, Get
    PROVE  ClientRight'
    <1>1. CASE GetNoFile
        <2> USE DEF files, console
        <2>1. /\ UNCHANGED <<s2c, delivered, waiting, short, crossed>>
              /\ client' = "faulted"
            BY <1>1 DEF GetNoFile
        <2> QED
            BY <2>1, ClientSame
    <1> QED
        BY <1>1, ClientGetHeader, ClientGetBlock, ClientGetRest, ClientGetGarbled DEF Get

(***************************************************************************)
(* comm_waitmsg takes the header of a message, then its text.              *)
(***************************************************************************)
LEMMA FrontTold ==
    ASSUME TypeOK, NEW q, Stream(q), wpc = "header", Len(s2c) >= 1, IsMessage(s2c[1])
    PROVE  \E p \in Peer :
               /\ q \in Seq(Seq(Unit)) /\ Len(q) \in Nat /\ Len(q) >= 1 /\ q[1] \notin Given
               /\ Seen + 1 <= Len(delivered) /\ p = delivered[Seen + 1]
               /\ s2c[1] = Announced(p)
               /\ 1 + Size[p] <= Len(s2c)
               /\ \A k \in 1 .. Size[p] : s2c[1 + k] = <<p, k>>
               /\ Cut(Unit, After(s2c, 1 + Size[p]), After(q, 1))
               /\ Listed(After(q, 1), Told, Seen + 2, Len(delivered), Deliveries)
    <1>1. /\ s2c \in Seq(Unit) /\ Len(s2c) \in Nat /\ Seen \in Nat /\ Seen + 1 \in Nat
          /\ Len(delivered) \in Nat
        BY Types, ToldLists
    <1>2. Ahead = 0
        BY DEF Ahead
    <1>3. Cut(Unit, s2c, q)
        BY <1>1, <1>2, AfterNothing DEF Stream
    <1>4. /\ Len(q) \in Nat /\ Len(q) >= 1 /\ q[1] \in Seq(Unit)
          /\ Len(q[1]) \in Nat /\ Len(q[1]) >= 1 /\ Len(q[1]) <= Len(s2c)
          /\ \A k \in 1 .. Len(q[1]) : s2c[k] = q[1][k]
          /\ s2c[1] = q[1][1]
          /\ Cut(Unit, After(s2c, Len(q[1])), After(q, 1))
        BY <1>3, CutFirst
    <1>5. q \in Seq(Seq(Unit))
        BY <1>3 DEF Cut
    <1>6. q[1] \in Told
        <2>1. q[1] # <<>>
            BY <1>4, EmptySeq
        <2> QED
            BY <1>4, <2>1 DEF Told
    <1>7. /\ Seen + 1 <= Len(delivered) /\ q[1] = Deliveries[Seen + 1]
          /\ Listed(After(q, 1), Told, (Seen + 1) + 1, Len(delivered), Deliveries)
        <2>1. Listed(q, Told, Seen + 1, Len(delivered), Deliveries)
            BY DEF Stream
        <2> QED
            BY <1>1, <1>4, <1>5, <1>6, <2>1, ListedTake
    <1>8. Seen + 1 \in 1 .. Len(delivered) /\ (Seen + 1) + 1 = Seen + 2
        BY <1>1, <1>7
    <1>9. PICK p \in Peer : p = delivered[Seen + 1] /\ q[1] = MsgPiece(p)
        BY <1>7, <1>8, ToldLists
    <1>10. /\ MsgPiece(p) \notin Given /\ Len(MsgPiece(p)) = 1 + Size[p] /\ Size[p] \in Nat
           /\ MsgPiece(p)[1] = Announced(p)
           /\ \A k \in 1 .. Size[p] : MsgPiece(p)[1 + k] = <<p, k>>
        BY MessagePiece
    <1>11. \A k \in 1 .. Size[p] : s2c[1 + k] = <<p, k>>
        <2>1. \A k \in 1 .. Size[p] : 1 + k \in 1 .. 1 + Size[p]
            BY <1>10
        <2> QED
            BY <1>4, <1>9, <1>10, <2>1
    <1>12. q[1] \notin Given /\ s2c[1] = Announced(p) /\ 1 + Size[p] <= Len(s2c)
           /\ Cut(Unit, After(s2c, 1 + Size[p]), After(q, 1))
        BY <1>4, <1>9, <1>10
    <1>13. Listed(After(q, 1), Told, Seen + 2, Len(delivered), Deliveries)
        BY <1>7, <1>8
    <1> QED
        BY <1>4, <1>5, <1>7, <1>9, <1>11, <1>12, <1>13

\* A message taken from the stream changes nothing of an answer.
LEMMA PhaseTold ==
    ASSUME TypeOK, NEW q, q \in Seq(Seq(Unit)), Len(q) >= 1, q[1] \notin Given, Phase(q),
           UNCHANGED <<disk, c2s, spc, smsg, out, cpc, cname, cbuf, ci>>
    PROVE  Phase(After(q, 1))'
    <1>1. PICK r : r = After(q, 1)
        OBVIOUS
    <1>2. Len(r) = Len(q) - 1 /\ Len(q) \in Nat /\ \A k \in 1 .. Len(q) - 1 : r[k] = q[1 + k]
        <2>1. 1 \in Nat /\ 1 <= Len(q) /\ q \in Seq(Seq(Unit))
            OBVIOUS
        <2>2. Len(q) \in Nat
            BY LenProperties
        <2>3. /\ Len(After(q, 1)) = Len(q) - 1
              /\ \A k \in 1 .. Len(q) - 1 : After(q, 1)[k] = q[1 + k]
            BY <2>1, AfterProperties
        <2> QED
            BY <1>1, <2>2, <2>3
    <1>3. NoAnswer(q) => NoAnswer(r)'
        <2>1. SUFFICES ASSUME NoAnswer(q)
                       PROVE  NoAnswer(r)'
            OBVIOUS
        <2>2. \A k \in 1 .. Len(q) - 1 : 1 + k \in 1 .. Len(q)
            BY <1>2
        <2>3. \A i \in 1 .. Len(r) : r[i] \in Given => spc = "closed" /\ r[i] \in Errors
            BY <1>2, <2>1, <2>2 DEF NoAnswer
        <2> QED
            BY <2>1, <2>3 DEF NoAnswer
    <1>4. ASSUME NEW lo \in Nat, NEW f, Answering(q, lo, f)
          PROVE  Answering(r, lo, f)'
        <2>1. PICK hi \in Nat : /\ lo <= hi + 1
                                /\ Remaining(f, hi)
                                /\ Listed(q, Given, lo, hi, Answer(f, disk["server"][f]))
            BY <1>4 DEF Answering
        <2>2. Remaining(f, hi)'
            BY <2>1 DEF Remaining
        <2>3. PICK a : a = Answer(f, disk["server"][f])
            OBVIOUS
        <2>4. Listed(r, Given, lo, hi, a)
            <3>1. 1 \in Nat /\ \A p \in 1 .. 1 : q[p] \notin Given
                OBVIOUS
            <3>2. Listed(q, Given, lo, hi, a)
                BY <2>1, <2>3
            <3> QED
                BY <1>1, <3>1, <3>2, ListedAfter
        <2> QED
            BY <1>4, <2>1, <2>2, <2>3, <2>4 DEF Answering
    <1>5. CASE cpc = "console" /\ Unasked /\ NoAnswer(q)
        <2>1. Unasked'
            BY <1>5 DEF Unasked, NotInHand
        <2>2. Phase(r)'
            BY <1>3, <1>5, <2>1 DEF Phase
        <2> QED
            BY <1>1, <2>2
    <1>6. CASE cpc = "header" /\ (Pending \/ Handling \/ spc = "closed") /\ NoAnswer(q)
        <2>1. Pending' \/ Handling' \/ spc' = "closed"
            BY <1>6 DEF Pending, Handling, NotInHand
        <2>2. Phase(r)'
            BY <1>3, <1>6, <2>1 DEF Phase
        <2> QED
            BY <1>1, <2>2
    <1>7. CASE cpc = "header" /\ \E f \in Name : Answering(q, 1, f)
        <2>1. 1 \in Nat
            OBVIOUS
        <2>2. \E f \in Name : Answering(r, 1, f)'
            BY <1>4, <1>7, <2>1
        <2>3. Phase(r)'
            BY <1>7, <2>2 DEF Phase
        <2> QED
            BY <1>1, <2>3
    <1>8. CASE /\ cpc = "get"
               /\ Len(cbuf) = Len(disk["server"][cname])
               /\ Answering(q, ci + 2, cname)
        <2>1. ci + 2 \in Nat /\ ci' = ci /\ cname' = cname
            BY Types
        <2>2. Answering(r, ci + 2, cname)'
            BY <1>4, <1>8, <2>1
        <2>3. Phase(r)'
            BY <1>8, <2>1, <2>2 DEF Phase
        <2> QED
            BY <1>1, <2>3
    <1> QED
        BY <1>5, <1>6, <1>7, <1>8 DEF Phase

LEMMA ClientWaitHeader ==
    ASSUME TypeOK, TypeOK', ClientRight, WaitHeader
    PROVE  ClientRight'
    <1> USE DEF files, console, thread
    <1>1. /\ client = "up" /\ wpc = "header" /\ s2c # <<>>
          /\ wpc' = "data" /\ wmsg' = Head(s2c) /\ s2c' = Tail(s2c)
          /\ crossed' = (crossed \/ ~IsMessage(Head(s2c)))
          /\ UNCHANGED <<disk, c2s, client, spc, smsg, out, cpc, cname, cbuf, ci, shown, delivered, short>>
        BY DEF WaitHeader
    <1> SUFFICES ASSUME "client" \notin short, ~crossed'
                 PROVE  ClientRight'
        BY <1>1 DEF ClientRight
    <1>2. ShownRight /\ ToClient /\ IsMessage(Head(s2c))
        BY <1>1 DEF ClientRight
    <1>3. PICK q : Stream(q) /\ Phase(q)
        BY <1>2 DEF ToClient
    <1>4. /\ s2c \in Seq(Unit) /\ Len(s2c) \in Nat
          /\ Len(s2c) >= 1 /\ Head(s2c) = s2c[1] /\ Tail(s2c) = After(s2c, 1)
        BY <1>1, Types, StreamTaken
    <1>5. PICK p \in Peer :
               /\ q \in Seq(Seq(Unit)) /\ Len(q) \in Nat /\ Len(q) >= 1 /\ q[1] \notin Given
               /\ Seen + 1 <= Len(delivered) /\ p = delivered[Seen + 1]
               /\ s2c[1] = Announced(p)
               /\ 1 + Size[p] <= Len(s2c)
               /\ \A k \in 1 .. Size[p] : s2c[1 + k] = <<p, k>>
               /\ Cut(Unit, After(s2c, 1 + Size[p]), After(q, 1))
               /\ Listed(After(q, 1), Told, Seen + 2, Len(delivered), Deliveries)
        BY <1>1, <1>2, <1>3, <1>4, FrontTold
    <1>6. /\ FileName(Announced(p)) = p /\ DataSize(Announced(p)) = Size[p] /\ Size[p] \in Nat
        BY Names, MessageSends
    <1>7. wmsg' = Announced(p) /\ s2c' = After(s2c, 1)
        BY <1>1, <1>4, <1>5
    <1>8. Ahead' = Size[p] /\ Seen' = Seen + 1 /\ Deliveries' = Deliveries /\ Len(shown) \in Nat
        <2>1. Len(shown) \in Nat /\ Seen = Len(shown)
            BY <1>1, ToldLists DEF Seen
        <2> QED
            BY <1>1, <1>6, <1>7, <2>1 DEF Ahead, Seen, Deliveries
    <1>9. /\ s2c' \in Seq(Unit) /\ Len(s2c') = Len(s2c) - 1
          /\ \A k \in 1 .. Len(s2c) - 1 : s2c'[k] = s2c[1 + k]
        <2>1. 1 \in Nat
            OBVIOUS
        <2> QED
            BY <1>4, <1>7, <2>1, AfterProperties
    <1>10. Size[p] <= Len(s2c') /\ \A k \in 1 .. Size[p] : s2c'[k] = <<p, k>>
        <2>1. PICK len \in Nat, n \in Nat : len = Len(s2c) /\ n = Size[p]
            BY <1>4, <1>6
        <2>2. n <= len - 1
            BY <1>5, <2>1
        <2>3. \A k \in 1 .. n : k \in 1 .. len - 1
            BY <2>2
        <2> QED
            BY <1>5, <1>9, <2>1, <2>2, <2>3
    <1>11. After(s2c', Size[p]) = After(s2c, 1 + Size[p])
        BY <1>4, <1>5, <1>6, <1>7, AfterAfter
    <1>12. PICK r : r = After(q, 1)
        OBVIOUS
    <1>13. Stream(r)'
        <2>1. Seen' <= Len(delivered') /\ delivered'[Seen'] = p
            BY <1>1, <1>5, <1>8
        <2>2. Ahead' <= Len(s2c') /\ \A k \in 1 .. Ahead' : s2c'[k] = <<FileName(wmsg'), k>>
            BY <1>6, <1>7, <1>8, <1>10
        <2>3. Cut(Unit, After(s2c', Ahead'), r)
            BY <1>5, <1>8, <1>11, <1>12
        <2>4. Listed(r, Told, Seen' + 1, Len(delivered'), Deliveries')
            <3>1. (Seen + 1) + 1 = Seen + 2
                BY ToldLists
            <3> QED
                BY <1>1, <1>5, <1>8, <1>12, <3>1
        <2> QED
            BY <1>7, <2>1, <2>2, <2>3, <2>4 DEF Stream
    <1>14. Phase(After(q, 1))'
        BY <1>1, <1>3, <1>5, PhaseTold
    <1>15. ToClient'
        BY <1>12, <1>13, <1>14 DEF ToClient
    <1>16. ShownRight'
        BY <1>1, <1>2 DEF ShownRight
    <1> QED
        BY <1>1, <1>15, <1>16 DEF ClientRight

LEMMA ClientWaitData ==
    ASSUME TypeOK, TypeOK', ClientRight, WaitData
    PROVE  ClientRight'
    <1> USE DEF files, console, thread
    <1>1. PICK m \in Lengths(s2c, DataSize(wmsg), ServerGone), tail \in Tails :
             /\ ~MeetsHeader(s2c, m)
             /\ shown' = Append(shown, <<FileName(wmsg),
                             Stored(Fresh(DataSize(wmsg)), 0, SubSeq(s2c, 1, m)) \o tail>>)
             /\ s2c' = After(s2c, m)
             /\ Asked("client", DataSize(wmsg), m)
             /\ crossed' = (crossed \/ \E k \in 1 .. m : ~IsMessage(s2c[k]))
        BY DEF WaitData
    <1>2. /\ client = "up" /\ wpc = "data" /\ wpc' = "header"
          /\ UNCHANGED <<disk, c2s, client, spc, smsg, out, cpc, cname, cbuf, ci, delivered>>
        BY DEF WaitData
    <1>3. PICK size : size \in Nat /\ size = DataSize(wmsg)
        BY Types, HeaderProperties
    <1>4. m \in Nat /\ m <= size /\ m <= Len(s2c) /\ s2c \in Seq(Unit)
        <2>1. s2c \in Seq(Unit) /\ ServerGone \in BOOLEAN
            BY Types
        <2> QED
            BY <1>1, <1>3, <2>1, LengthsProperties
    <1>5. "client" \in short => "client" \in short'
        BY <1>1, <1>3, <1>4, Hosts, AskedDoes DEF TypeOK
    <1> SUFFICES ASSUME "client" \notin short', ~crossed'
                 PROVE  ClientRight'
        BY DEF ClientRight
    <1>6. m = size
        <2>1. m >= size
            BY <1>1, <1>3, <1>4, Hosts, AskedDoes DEF TypeOK
        <2> QED
            BY <1>3, <1>4, <2>1
    <1>7. ShownRight /\ ToClient
        BY <1>1, <1>2, <1>5 DEF ClientRight
    <1>8. PICK q : Stream(q) /\ Phase(q)
        BY <1>7 DEF ToClient
    <1>9. PICK n : n \in Nat /\ n = Len(shown) /\ Seen = n + 1 /\ Ahead = size
        <2>1. Len(shown) \in Nat /\ Seen = Len(shown) + 1 /\ Ahead = DataSize(wmsg)
            BY <1>2, ToldLists DEF Seen, Ahead
        <2> QED
            BY <1>3, <2>1
    <1>10. /\ n + 1 <= Len(delivered) /\ size <= Len(s2c)
           /\ wmsg = Announced(delivered[n + 1])
           /\ \A k \in 1 .. size : s2c[k] = <<FileName(wmsg), k>>
        BY <1>2, <1>8, <1>9 DEF Stream
    <1>11. Len(delivered) \in Nat /\ n + 1 \in 1 .. Len(delivered)
        BY <1>9, <1>10, ToldLists
    <1>12. PICK p \in Peer : p = delivered[n + 1]
        BY <1>11, ToldLists
    <1>13. /\ FileName(wmsg) = p /\ size = Size[p] /\ p \in Name
        BY <1>3, <1>10, <1>12, Names, MessageSends
    <1>14. /\ Len(shown') = n + 1
           /\ Shows(shown'[n + 1], p)
           /\ \A i \in 1 .. n : shown'[i] = shown[i]
        <2>1. Fresh(size) \in Seq(Byte) /\ Len(Fresh(size)) = Size[p]
            BY <1>3, <1>13, ByteProperties, FreshProperties
        <2>2. Stored(Fresh(size), 0, SubSeq(s2c, 1, m)) = Original(p)
            <3>1. Stored(Fresh(size), 0, SubSeq(s2c, 1, Size[p])) = Original(p)
                BY <1>4, <1>10, <1>13, <2>1, TextPut
            <3> QED
                BY <1>6, <1>13, <3>1
        <2>3. PICK e \in Name \X Seq(Byte) : e = <<p, Original(p) \o tail>> /\ Shows(e, p)
            <3>1. /\ Original(p) \in Seq(Byte) /\ Len(Original(p)) = Size[p]
                  /\ tail \in Seq(Byte) /\ Original(p) \o tail \in Seq(Byte)
                BY <1>1, <1>13, OriginalProperties, TailType, ConcatProperties
            <3>2. SubSeq(Original(p) \o tail, 1, Size[p]) = Original(p)
                BY <3>1, TailFollows
            <3> DEFINE text == Original(p) \o tail
            <3> HIDE DEF text
            <3>3. <<p, text>> \in Name \X Seq(Byte) /\ <<p, text>>[1] = p /\ <<p, text>>[2] = text
                BY <1>13, <3>1 DEF text
            <3>4. Shows(<<p, text>>, p)
                BY <3>2, <3>3 DEF Shows, text
            <3> QED
                BY <3>3, <3>4 DEF text
        <2>4. shown' = Append(shown, e)
            BY <1>1, <1>3, <1>13, <2>2, <2>3
        <2>5. shown \in Seq(Name \X Seq(Byte))
            BY DEF TypeOK
        <2> QED
            BY <1>9, <2>3, <2>4, <2>5, AppendProperties
    <1>15. ShownRight'
        <2>1. Len(shown') <= Len(delivered')
            BY <1>2, <1>10, <1>14
        <2>2. \A i \in 1 .. n + 1 : i \in 1 .. n \/ i = n + 1
            BY <1>9
        <2>3. \A i \in 1 .. n : Shows(shown[i], delivered[i])
            BY <1>7, <1>9 DEF ShownRight
        <2>4. \A i \in 1 .. Len(shown') : Shows(shown'[i], delivered'[i])
            BY <1>2, <1>12, <1>14, <2>2, <2>3
        <2> QED
            BY <2>1, <2>4 DEF ShownRight
    <1>16. /\ s2c' \in Seq(Unit) /\ Len(s2c') \in Nat
        BY <1>1, <1>4, AfterProperties, LenProperties
    <1>17. Ahead' = 0 /\ Seen' = Seen /\ Deliveries' = Deliveries
        <2>1. Seen' = Len(shown')
            <3>1. Len(shown') \in Nat
                BY <1>9, <1>14
            <3> QED
                BY <1>2, <3>1 DEF Seen
        <2> QED
            BY <1>2, <1>9, <1>14, <2>1 DEF Ahead, Deliveries
    <1>18. Stream(q)'
        <2>1. After(s2c', 0) = After(s2c, size)
            BY <1>1, <1>6, <1>16, AfterNothing
        <2>2. Cut(Unit, After(s2c', 0), q)
            BY <1>8, <1>9, <2>1 DEF Stream
        <2>3. Listed(q, Told, Seen' + 1, Len(delivered'), Deliveries') /\ Seen' <= Len(delivered')
            BY <1>2, <1>8, <1>17 DEF Stream
        <2>4. Ahead' <= Len(s2c')
            BY <1>16, <1>17
        <2> QED
            BY <1>2, <1>17, <2>2, <2>3, <2>4 DEF Stream
    <1>19. Phase(q)'
        BY <1>2, <1>8 DEF Phase, Unasked, Pending, Handling, NotInHand, NoAnswer, Answering, Remaining
    <1>20. ToClient'
        BY <1>18, <1>19 DEF ToClient
    <1> QED
        BY <1>2, <1>15, <1>20 DEF ClientRight

LEMMA ClientWaitGarbled ==
    ASSUME TypeOK, ClientRight, WaitGarbled
    PROVE  ClientRight'
    <1>1. /\ client = "up"
          /\ \/ wpc = "header" /\ s2c # <<>> /\ ~IsHeader(Head(s2c))
             \/ wpc = "data" /\ MeetsHeader(s2c, DataSize(wmsg))
          /\ short' = short
          /\ crossed' = (crossed \/ ~IsMessage(Head(s2c)) \/
                         \E k \in 1 .. DataSize(wmsg) : k <= Len(s2c) /\ ~IsMessage(s2c[k]))
        BY DEF WaitGarbled
    <1> SUFFICES ASSUME "client" \notin short', ~crossed'
                 PROVE  FALSE
        BY DEF ClientRight
    <1>2. ToClient
        BY <1>1 DEF ClientRight
    <1>3. PICK q : Stream(q)
        BY <1>2 DEF ToClient
    <1>4. CASE wpc = "header" /\ s2c # <<>> /\ ~IsHeader(Head(s2c))
        <2>1. Len(s2c) >= 1 /\ Head(s2c) = s2c[1] /\ IsMessage(s2c[1])
            BY <1>1, <1>4, Types, StreamTaken
        <2>2. PICK p \in Peer : s2c[1] = Announced(p)
            BY <1>3, <1>4, <2>1, FrontTold
        <2> QED
            BY <1>4, <2>1, <2>2, Names, MessageSends
    <1>5. CASE wpc = "data" /\ MeetsHeader(s2c, DataSize(wmsg))
        <2>1. PICK k \in 1 .. DataSize(wmsg) : IsHeader(s2c[k])
            BY <1>5 DEF MeetsHeader
        <2>2. s2c[k] = <<FileName(wmsg), k>> /\ FileName(wmsg) \in Name /\ k \in Nat
            <3>1. DataSize(wmsg) \in Nat /\ FileName(wmsg) \in Name
                BY Types, HeaderProperties
            <3>2. Ahead = DataSize(wmsg)
                BY <1>5 DEF Ahead
            <3> QED
                BY <1>3, <1>5, <3>1, <3>2 DEF Stream
        <2> QED
            BY <2>1, <2>2, ByteProperties
    <1> QED
        BY <1>1, <1>4, <1>5

LEMMA ClientWait ==
    ASSUME TypeOK, TypeOK', ClientRight, comm_waitmsg \/ PartOfHeader
    PROVE  ClientRight'
    <1>1. CASE WaitEnd
        <2>1. /\ UNCHANGED <<s2c, delivered, waiting, short, crossed>>
              /\ client' = "closed"
            BY <1>1 DEF WaitEnd
        <2> QED
            BY <2>1, ClientSame
    <1>2. CASE PartOfHeader
        <2>1. "client" \in short'
            BY <1>2 DEF PartOfHeader
        <2> QED
            BY <2>1 DEF ClientRight
    <1> QED
        BY <1>1, <1>2, ClientWaitHeader, ClientWaitData, ClientWaitGarbled DEF comm_waitmsg

LEMMA ClientStep ==
    ASSUME TypeOK, TypeOK', Sending, OwnBytes, ClientRight, [Next]_vars
    PROVE  ClientRight'
    <1>1. CASE clithread \/ PartOfCommand
        BY <1>1, ClientParseHeader, ClientParse, ClientThread, ClientAnswer, ClientChunk
        DEF clithread, parse_msg
    <1>2. CASE UNCHANGED vars
        <2>1. /\ UNCHANGED <<s2c, delivered, waiting, short, crossed, client>>
              /\ UNCHANGED <<c2s, disk, cpc, cname, cbuf, ci, spc, smsg, out>>
            BY <1>2 DEF vars, files, console, thread
        <2>2. \A q : Phase(q) => Phase(q)'
            BY <2>1 DEF Phase, Unasked, Pending, Handling, NotInHand, NoAnswer, Answering, Remaining
        <2> QED
            BY <2>1, <2>2, ClientSame
    <1> QED
        BY <1>1, <1>2, ClientConsole, ClientGet, ClientWait, ClientDeliver DEF Next

(***************************************************************************)
(* Files.  As long as no recv falls short and the client's threads do not  *)
(* cross, headers announce the size of the file they are about, and whole  *)
(* blocks have its bytes: on both disks, in the buffers and on their way.  *)
(***************************************************************************)
\* n is the size of x; but a client that has faulted may have announced any.
Fits(c, x, n) == n = Size[x] \/ c = "faulted"

AllFit(c, s, H) == \A i \in 1 .. Len(s) : s[i] \in H => Fits(c, FileName(s[i]), DataSize(s[i]))

Puts == {u \in Header : Command(u) = "PUT"}
Answers == {u \in Header : Command(u) \notin {"SENDMSG", "ERROR"}}

PutsRight ==
    /\ Frames("exactly", c2s)
    /\ AllFit(client, c2s, Puts)
    /\ spc \in {"data", "handle"} /\ smsg \in Puts => Fits(client, FileName(smsg), DataSize(smsg))
    /\ spc = "data" => /\ Continues("exactly", smsg, Place(si), c2s, 0)
                       /\ Whole(FileName(smsg), sbuf, Place(si))
    /\ spc = "handle" => Whole(FileName(smsg), sbuf, Place(Blocks(sbuf)))

GetsRight ==
    /\ AllFit(client, s2c, Answers)
    /\ \A j \in 1 .. Len(out) : AllFit(client, out[j], Answers)
    /\ cpc = "get" => /\ Fits(client, cname, Len(cbuf))
                      /\ Whole(cname, cbuf, Place(ci))

CopiesRight ==
    \A h \in Host, f \in Name :
        /\ f \in stored[h] => Fits(client, f, Len(disk[h][f]))
        /\ Whole(f, disk[h][f], Place(Blocks(disk[h][f])))

Right == short = {} /\ ~crossed => PutsRight /\ GetsRight /\ CopiesRight

LEMMA FitMore ==
    ASSUME NEW c, NEW d, c = "faulted" => d = "faulted"
    PROVE  /\ \A x, n : Fits(c, x, n) => Fits(d, x, n)
           /\ \A s, H : AllFit(c, s, H) => AllFit(d, s, H)
    BY DEF Fits, AllFit

LEMMA FitAfter ==
    ASSUME NEW c, NEW H, NEW s \in Seq(Unit), NEW m \in Nat, m <= Len(s), AllFit(c, s, H)
    PROVE  AllFit(c, After(s, m), H)
    <1>1. Len(s) \in Nat
        BY LenProperties
    <1>2. /\ Len(After(s, m)) = Len(s) - m
          /\ \A k \in 1 .. Len(s) - m : After(s, m)[k] = s[m + k]
        BY AfterProperties
    <1>3. \A k \in 1 .. Len(s) - m : m + k \in 1 .. Len(s)
        BY <1>1
    <1> QED
        BY <1>2, <1>3 DEF AllFit

LEMMA FitConcat ==
    ASSUME NEW c, NEW H, NEW s \in Seq(Unit), NEW t \in Seq(Unit), AllFit(c, s, H), AllFit(c, t, H)
    PROVE  AllFit(c, s \o t, H)
    <1>1. Len(s) \in Nat /\ Len(t) \in Nat
        BY LenProperties
    <1>2. /\ Len(s \o t) = Len(s) + Len(t)
          /\ \A k \in 1 .. Len(s) + Len(t) :
                 (s \o t)[k] = IF k <= Len(s) THEN s[k] ELSE t[k - Len(s)]
        BY ConcatProperties
    <1>3. \A k \in 1 .. Len(s) + Len(t) : IF k <= Len(s) THEN k \in 1 .. Len(s)
                                                         ELSE k - Len(s) \in 1 .. Len(t)
        BY <1>1
    <1> QED
        BY <1>2, <1>3 DEF AllFit

\* Bytes announce nothing, nor does a header of another kind.
LEMMA FitData ==
    ASSUME NEW c, NEW H, H \subseteq Header, NEW t \in Seq(Byte)
    PROVE  AllFit(c, t, H) /\ t \in Seq(Unit)
    <1>1. /\ t \in Seq(Unit)
          /\ \A j \in 1 .. Len(t) : ~IsHeader(t[j])
        BY UnitKinds, DataOnly
    <1>2. \A j \in 1 .. Len(t) : t[j] \notin H
        BY <1>1, HeaderProperties
    <1> QED
        BY <1>1, <1>2 DEF AllFit

LEMMA FitOne ==
    ASSUME NEW c, NEW H, NEW h \in Header, h \in H => Fits(c, FileName(h), DataSize(h))
    PROVE  AllFit(c, <<h>>, H) /\ <<h>> \in Seq(Unit)
    <1>1. h \in Unit
        BY DEF Unit
    <1>2. <<h>> \in Seq(Unit) /\ Len(<<h>>) = 1 /\ <<h>>[1] = h
        BY <1>1, UnitKinds, OneUnit
    <1> QED
        BY <1>2 DEF AllFit

LEMMA FitNothing == \A c, H : AllFit(c, <<>>, H)
    <1>1. Len(<<>>) = 0 /\ 1 .. 0 = {}
        BY EmptySeq
    <1> QED
        BY <1>1 DEF AllFit

LEMMA HeaderKinds ==
    /\ Puts \subseteq Header /\ Answers \subseteq Header
    /\ \A h \in Header : /\ h \in Puts <=> Command(h) = "PUT"
                         /\ h \in Answers <=> Command(h) \notin {"SENDMSG", "ERROR"}
    BY DEF Puts, Answers

LEMMA WholeNothing == \A f, data : Whole(f, data, 0) /\ Whole(f, <<>>, Place(Blocks(<<>>)))
    BY EmptyData DEF Whole

\* A recv that falls short, a crossing and a fault are never undone.
LEMMA HistoryKept ==
    ASSUME [Next]_vars
    PROVE  /\ short \subseteq short'
           /\ crossed => crossed'
           /\ client = "faulted" => client' = "faulted"
    <1>1. ASSUME NEW h, NEW n, NEW m, Asked(h, n, m)
          PROVE  short \subseteq short'
        BY <1>1 DEF Asked
    <1>2. CASE Type
        <2>1. UNCHANGED <<short, crossed>> /\ client = "up"
            BY <1>2 DEF Type, Typed, Quit, comm_put, comm_put_Missing, comm_get, comm_sendmsg
        <2> QED
            BY <2>1
    <1>3. CASE GetBlock
        BY <1>1, <1>3 DEF GetBlock
    <1>4. CASE GetRest
        BY <1>1, <1>4 DEF GetRest
    <1>5. CASE GetHeader \/ GetNoFile \/ GetGarbled
        <2>1. /\ UNCHANGED short /\ client = "up"
              /\ crossed => crossed'
            <3>1. CASE GetHeader
                BY <3>1 DEF GetHeader
            <3>2. CASE GetNoFile
                BY <3>2 DEF GetNoFile
            <3>3. CASE GetGarbled
                BY <3>3 DEF GetGarbled
            <3> QED
                BY <1>5, <3>1, <3>2, <3>3
        <2> QED
            BY <2>1
    <1>6. CASE WaitHeader \/ WaitGarbled \/ WaitEnd \/ PartOfHeader
        <2>1. /\ short \subseteq short' /\ client = "up"
              /\ crossed => crossed'
            <3>1. CASE WaitHeader
                BY <3>1 DEF WaitHeader
            <3>2. CASE WaitGarbled
                BY <3>2 DEF WaitGarbled
            <3>3. CASE WaitEnd \/ PartOfHeader
                BY <3>3 DEF WaitEnd, PartOfHeader
            <3> QED
                BY <1>6, <3>1, <3>2, <3>3
        <2> QED
            BY <2>1
    <1>7. CASE WaitData
        BY <1>1, <1>7 DEF WaitData
    <1>8. CASE ParseHeader \/ ParseGarbled \/ PartOfCommand
        BY <1>8 DEF ParseHeader, ParseGarbled, PartOfCommand
    <1>9. CASE ParseBlock
        BY <1>1, <1>9 DEF ParseBlock
    <1>10. CASE ParseRest
        BY <1>1, <1>10 DEF ParseRest
    <1>11. CASE \/ sendmsg_handler \/ put_handler \/ put_handler_Fails \/ get_handler
                \/ SendChunk \/ CloseConn
        BY <1>11 DEF sendmsg_handler, put_handler, put_handler_Fails, get_handler, SendChunk, CloseConn
    <1>12. CASE \E p \in Peer : Deliver(p)
        BY <1>12 DEF Deliver
    <1>13. CASE UNCHANGED vars
        BY <1>13 DEF vars
    <1> QED
        BY <1>2, <1>3, <1>4, <1>5, <1>6, <1>7, <1>8, <1>9, <1>10, <1>11, <1>12, <1>13
           DEF Next, Get, comm_waitmsg, clithread, parse_msg

LEMMA RightInit ==
    ASSUME Init
    PROVE  Right
    <1>1. /\ c2s = <<>> /\ s2c = <<>> /\ spc = "command" /\ cpc = "console" /\ out = <<>>
        BY DEF Init
    <1>2. Len(<<>>) = 0 /\ 1 .. 0 = {}
        BY EmptySeq
    <1>3. Frames("exactly", <<>>)
        BY <1>2 DEF Frames
    <1>4. PutsRight /\ GetsRight
        BY <1>1, <1>2, <1>3, FitNothing DEF PutsRight, GetsRight
    <1>5. ASSUME NEW h \in Host, NEW f \in Name
          PROVE  /\ f \in stored[h] => Fits(client, f, Len(disk[h][f]))
                 /\ Whole(f, disk[h][f], Place(Blocks(disk[h][f])))
        <2>1. CASE f \in stored[h]
            <3>1. disk[h][f] = Original(f)
                BY <2>1 DEF Init
            <3>2. PICK data \in Seq(Byte) : /\ data = Original(f) /\ Len(data) = Size[f]
                                            /\ \A k \in 1 .. Size[f] : data[k] = <<f, k>>
                BY OriginalProperties
            <3>3. /\ Size[f] \in Nat /\ Place(Blocks(data)) \in Nat
                  /\ Place(Blocks(data)) <= Size[f]
                BY <3>2, Names, BlockNat, BlocksOf
            <3>4. \A k \in 1 .. Place(Blocks(data)) : k \in 1 .. Size[f]
                BY <3>3
            <3> QED
                BY <3>1, <3>2, <3>4 DEF Fits, Whole
        <2>2. CASE f \notin stored[h]
            <3>1. disk[h][f] = <<>>
                BY <2>2 DEF Init
            <3> QED
                BY <2>2, <3>1, WholeNothing
        <2> QED
            BY <2>1, <2>2
    <1> QED
        BY <1>4, <1>5 DEF Right, CopiesRight

(***************************************************************************)
(* What leaves a part of it alone.                                         *)
(***************************************************************************)
LEMMA PutsRightSame ==
    ASSUME PutsRight, UNCHANGED <<c2s, spc, smsg, sbuf, si>>,
           client = "faulted" => client' = "faulted"
    PROVE  PutsRight'
    <1>1. AllFit(client', c2s, Puts)
        BY FitMore DEF PutsRight
    <1>2. spc \in {"data", "handle"} /\ smsg \in Puts => Fits(client', FileName(smsg), DataSize(smsg))
        BY FitMore DEF PutsRight
    <1> QED
        BY <1>1, <1>2 DEF PutsRight

LEMMA GetsRightSame ==
    ASSUME GetsRight, UNCHANGED <<s2c, out>>,
           cpc' = "get" => cpc = "get" /\ UNCHANGED <<cname, cbuf, ci>>,
           client = "faulted" => client' = "faulted"
    PROVE  GetsRight'
    <1>1. /\ AllFit(client', s2c, Answers)
          /\ \A j \in 1 .. Len(out) : AllFit(client', out[j], Answers)
        BY FitMore DEF GetsRight
    <1>2. cpc = "get" => Fits(client', cname, Len(cbuf))
        BY FitMore DEF GetsRight
    <1> QED
        BY <1>1, <1>2 DEF GetsRight

LEMMA CopiesRightSame ==
    ASSUME CopiesRight, UNCHANGED <<stored, disk>>,
           client = "faulted" => client' = "faulted"
    PROVE  CopiesRight'
    <1>1. ASSUME NEW h \in Host, NEW f \in Name
          PROVE  /\ f \in stored[h] => Fits(client', f, Len(disk[h][f]))
                 /\ Whole(f, disk[h][f], Place(Blocks(disk[h][f])))
        BY FitMore DEF CopiesRight
    <1> QED
        BY <1>1 DEF CopiesRight

\* A file is saved.
LEMMA CopySaved ==
    ASSUME TypeOK, CopiesRight, NEW h \in Host, NEW f \in Name, NEW data \in Seq(Byte),
           SaveFile(h, f, data), Fits(client, f, Len(data)), Whole(f, data, Place(Blocks(data))),
           client = "faulted" => client' = "faulted"
    PROVE  CopiesRight'
    <1>1. /\ disk'[h][f] = data
          /\ \A g \in Host, x \in Name : <<g, x>> # <<h, f>> => disk'[g][x] = disk[g][x]
        BY SaveFileDoes
    <1>2. \A g \in Host, x \in Name : <<g, x>> # <<h, f>> => (x \in stored'[g] => x \in stored[g])
        BY DEF SaveFile, TypeOK
    <1>3. ASSUME NEW g \in Host, NEW x \in Name
          PROVE  /\ x \in stored'[g] => Fits(client', x, Len(disk'[g][x]))
                 /\ Whole(x, disk'[g][x], Place(Blocks(disk'[g][x])))
        <2>1. CASE <<g, x>> = <<h, f>>
            <3>1. g = h /\ x = f /\ disk'[g][x] = data
                BY <1>1, <2>1
            <3>2. Fits(client', f, Len(data))
                BY FitMore
            <3> QED
                BY <3>1, <3>2
        <2>2. CASE <<g, x>> # <<h, f>>
            <3>1. disk'[g][x] = disk[g][x] /\ (x \in stored'[g] => x \in stored[g])
                BY <1>1, <1>2, <2>2
            <3>2. /\ x \in stored[g] => Fits(client, x, Len(disk[g][x]))
                  /\ Whole(x, disk[g][x], Place(Blocks(disk[g][x])))
                BY DEF CopiesRight
            <3>3. x \in stored[g] => Fits(client', x, Len(disk[g][x]))
                BY <3>2, FitMore
            <3> QED
                BY <3>1, <3>2, <3>3
        <2> QED
            BY <2>1, <2>2
    <1> QED
        BY <1>3 DEF CopiesRight

(***************************************************************************)
(* The console sends.                                                      *)
(***************************************************************************)
LEMMA PutsRightSent ==
    ASSUME TypeOK, ToServer, PutsRight, client = "up",
           NEW h \in Header, NEW t \in Seq(Byte), t = <<>> \/ Len(t) = DataSize(h),
           h \in Puts => Fits(client', FileName(h), DataSize(h)),
           \A j \in 1 .. Len(t) : Follows("exactly", h, j, t[j]),
           c2s' = (c2s \o <<h>>) \o t,
           UNCHANGED <<spc, smsg, sbuf, si>>
    PROVE  PutsRight'
    <1>1. ~ClientGone /\ (client = "faulted" => client' = "faulted")
        BY DEF ClientGone
    <1>2. c2s \in Seq(Unit) /\ Frames("exactly", c2s) /\ Complete(c2s, 0)
        BY <1>1, Types DEF PutsRight, ToServer
    <1>3. /\ Frames("exactly", c2s')
          /\ \A g \in Header, from \in Nat :
                 DataSize(g) <= from + Len(c2s) /\ Continues("exactly", g, from, c2s, 0) =>
                     Continues("exactly", g, from, c2s', 0)
        BY <1>2, FrameAdded
    <1>4. spc = "data" => Continues("exactly", smsg, Place(si), c2s', 0)
        <2>1. SUFFICES ASSUME spc = "data"
                       PROVE  Continues("exactly", smsg, Place(si), c2s', 0)
            OBVIOUS
        <2>2. /\ Continues("exactly", smsg, Place(si), c2s, 0)
              /\ DataSize(smsg) <= Place(si) + Len(c2s)
            BY <1>1, <2>1 DEF PutsRight, ToServer
        <2>3. smsg \in Header /\ Place(si) \in Nat
            BY Types
        <2> QED
            BY <1>3, <2>2, <2>3
    <1>5. AllFit(client', c2s', Puts)
        <2>1. AllFit(client', c2s, Puts)
            BY <1>1, FitMore DEF PutsRight
        <2>2. AllFit(client', <<h>>, Puts) /\ <<h>> \in Seq(Unit)
            BY FitOne
        <2>3. AllFit(client', t, Puts) /\ t \in Seq(Unit)
            BY HeaderKinds, FitData
        <2>4. c2s \o <<h>> \in Seq(Unit) /\ AllFit(client', c2s \o <<h>>, Puts)
            BY <1>2, <2>1, <2>2, FitConcat, ConcatProperties
        <2>5. AllFit(client', (c2s \o <<h>>) \o t, Puts)
            BY <2>3, <2>4, FitConcat
        <2> QED
            BY <2>5
    <1>6. spc \in {"data", "handle"} /\ smsg \in Puts => Fits(client', FileName(smsg), DataSize(smsg))
        BY <1>1, FitMore DEF PutsRight
    <1> QED
        BY <1>3, <1>4, <1>5, <1>6 DEF PutsRight

\* A message is too short to have a whole block.
LEMMA MessageFollows ==
    ASSUME NEW x \in Text
    PROVE  \A j \in 1 .. Len(Original(x)) : Follows("exactly", Announced(x), j, Original(x)[j])
    <1>1. /\ x \in Name /\ Size[x] \in Nat /\ Size[x] < Block
          /\ FileName(Announced(x)) = x /\ DataSize(Announced(x)) = Size[x]
          /\ Original(x) \in Seq(Byte) /\ Len(Original(x)) = Size[x]
        BY Names, MessageSends
    <1>2. Size[x] \div Block = 0 /\ Place(0) = 0
        BY <1>1, BlockNat, EmptyData
    <1>3. ASSUME NEW j \in 1 .. Len(Original(x))
          PROVE  Follows("exactly", Announced(x), j, Original(x)[j])
        <2>1. ~IsHeader(Original(x)[j]) /\ j >= 1 /\ j <= Size[x]
            BY <1>1, UnitKinds, DataOnly
        <2>2. ~(j <= Place(Size[x] \div Block)) /\ ~(Size[x] \div Block > 0)
            BY <1>2, <2>1
        <2>3. ~(j > Size[x])
            BY <1>1, <2>1
        <2> QED
            BY <1>1, <2>1, <2>2, <2>3 DEF Follows, Carries
    <1> QED
        BY <1>3

LEMMA RightConsole ==
    ASSUME TypeOK, spc # "closed" => ToServer, PutsRight, GetsRight, CopiesRight, Type
    PROVE  PutsRight' /\ GetsRight' /\ CopiesRight'
    <1> USE DEF files, console, waiting, thread, input
    <1>1. /\ client = "up" /\ UNCHANGED <<stored, disk, s2c, out, cname, cbuf, ci>>
          /\ UNCHANGED <<spc, smsg, sbuf, si>>
          /\ cpc' # "get"
        BY DEF Type, Typed, Quit, comm_put, comm_put_Missing, comm_get, comm_sendmsg
    <1>2. GetsRight' /\ CopiesRight'
        <2>1. client = "faulted" => client' = "faulted"
            BY <1>1
        <2> QED
            BY <1>1, <2>1, GetsRightSame, CopiesRightSame
    <1>3. CASE Quit
        <2>1. UNCHANGED c2s
            BY <1>3 DEF Quit
        <2> QED
            BY <1>1, <1>2, <2>1, PutsRightSame
    <1>4. ASSUME NEW f \in File, comm_put(f)
          PROVE  PutsRight'
        <2>0. ToServer
            BY <1>4 DEF comm_put, ServerGone
        <2>1. c2s' = (c2s \o <<PutOf(f)>>) \o PutData(f) /\ client' = client /\ f \in stored["client"]
            BY <1>4 DEF comm_put, PutOf, PutData
        <2>2. PICK data \in Seq(Byte) :
                 /\ data = disk["client"][f]
                 /\ Fits(client', f, Len(data))
                 /\ Whole(f, data, Place(Blocks(data)))
            <3>1. f \in Name /\ disk["client"][f] \in Seq(Byte)
                BY Names, Hosts, DiskType
            <3>2. /\ Fits(client, f, Len(disk["client"][f]))
                  /\ Whole(f, disk["client"][f], Place(Blocks(disk["client"][f])))
                BY <2>1, <3>1, Hosts DEF CopiesRight
            <3> QED
                BY <2>1, <3>1, <3>2
        <2>3. /\ PutOf(f) = <<"PUT", f, Len(data)>> /\ PutData(f) = Sent(data)
              /\ PutOf(f) \in Header /\ FileName(PutOf(f)) = f /\ DataSize(PutOf(f)) = Len(data)
              /\ PutData(f) \in Seq(Byte) /\ Len(PutData(f)) = Len(data)
            BY <2>2, PutSends DEF PutOf, PutData
        <2>4. \A j \in 1 .. Len(data) : Follows("exactly", PutOf(f), j, Sent(data)[j])
            BY <2>2, <2>3, SentFollows, UnitKinds, BlockNat
        <2>5. \A j \in 1 .. Len(PutData(f)) : Follows("exactly", PutOf(f), j, PutData(f)[j])
            BY <2>3, <2>4
        <2>6. Len(PutData(f)) = DataSize(PutOf(f))
              /\ Fits(client', FileName(PutOf(f)), DataSize(PutOf(f)))
            BY <2>2, <2>3
        <2> QED
            BY <1>1, <2>0, <2>1, <2>3, <2>5, <2>6, PutsRightSent
    <1>5. ASSUME ToServer, NEW h \in Header, c2s' = Append(c2s, h),
                 h \in Puts => client' = "faulted"
          PROVE  PutsRight'
        <2>1. c2s \in Seq(Unit) /\ h \in Unit
            BY Types DEF Unit
        <2>2. Append(c2s, h) = c2s \o <<h>> /\ Append(c2s, h) \in Seq(Unit)
            BY <2>1, AppendIsConcat, AppendProperties
        <2>3. c2s' = (c2s \o <<h>>) \o <<>>
            BY <1>5, <2>2, ConcatEmptySeq
        <2>4. /\ <<>> \in Seq(Byte)
              /\ \A j \in 1 .. Len(<<>>) : Follows("exactly", h, j, <<>>[j])
            BY EmptyData
        <2>5. h \in Puts => Fits(client', FileName(h), DataSize(h))
            BY <1>5 DEF Fits
        <2> QED
            BY <1>1, <1>5, <2>3, <2>4, <2>5, PutsRightSent
    <1>6. ASSUME NEW f \in File, comm_put_Missing(f)
          PROVE  PutsRight'
        <2>0. ToServer
            BY <1>6 DEF comm_put_Missing, ServerGone
        <2>1. PICK size \in 0 .. Block : c2s' = Append(c2s, <<"PUT", f, size>>)
            BY <1>6 DEF comm_put_Missing
        <2>2. PICK h \in Header : h = <<"PUT", f, size>>
            <3>1. size \in Nat /\ f \in Name
                BY BlockNat, Names
            <3> QED
                BY <3>1, MadeHeader
        <2>3. client' = "faulted"
            BY <1>6 DEF comm_put_Missing
        <2> QED
            BY <1>5, <2>0, <2>1, <2>2, <2>3
    <1>7. ASSUME NEW f \in File, comm_get(f)
          PROVE  PutsRight'
        <2>0. ToServer
            BY <1>7 DEF comm_get, ServerGone
        <2>1. c2s' = Append(c2s, <<"GET", f, 0>>)
            BY <1>7 DEF comm_get
        <2>2. 0 \in Nat
            OBVIOUS
        <2>3. PICK h \in Header : h = <<"GET", f, 0>> /\ Command(h) = "GET"
            BY <2>2, Names, MadeHeader
        <2> QED
            BY <1>5, <2>0, <2>1, <2>3, HeaderKinds
    <1>8. ASSUME NEW x \in Text, comm_sendmsg(x)
          PROVE  PutsRight'
        <2>0. ToServer
            BY <1>8 DEF comm_sendmsg, ServerGone
        <2>1. c2s' = (c2s \o <<Announced(x)>>) \o Original(x)
            BY <1>8 DEF comm_sendmsg, Announced
        <2>2. /\ Announced(x) \in Header /\ Announced(x) \notin Puts
              /\ Original(x) \in Seq(Byte) /\ Len(Original(x)) = DataSize(Announced(x))
            BY Names, MessageSends, HeaderKinds
        <2> QED
            BY <1>1, <2>0, <2>1, <2>2, MessageFollows, PutsRightSent
    <1> QED
        BY <1>2, <1>3, <1>4, <1>6, <1>7, <1>8 DEF Type

(***************************************************************************)
(* comm_get.                                                               *)
(***************************************************************************)
\* What it receives is what get_handler sends of its copy.
LEMMA AnswerContinues ==
    ASSUME TypeOK, CopiesRight, NEW q, Stream(q), Phase(q), cpc = "get",
           Len(s2c) >= 1, ~IsMessage(s2c[1]),
           NEW m \in Nat, m = Wanted, m <= Len(s2c), Place(ci) + m <= Len(cbuf)
    PROVE  Continues("exactly", <<"GET", cname, Len(cbuf)>>, Place(ci), SubSeq(s2c, 1, m), 0)
    <1>1. PICK f \in Name : f = cname
        BY Types
    <1>2. PICK data \in Seq(Byte) : data = disk["server"][f] /\ Len(data) \in Nat
        BY Hosts, DiskType
    <1>3. Whole(f, data, Place(Blocks(data))) /\ Len(cbuf) = Len(data)
        BY <1>1, <1>2, Hosts DEF CopiesRight, Phase
    <1>4. PICK h \in Header : h = <<"GET", f, Len(data)>> /\ DataSize(h) = Len(data)
        BY GetSends
    <1>5. \A j \in 1 .. Len(data) : Follows("exactly", h, j, Sent(data)[j])
        BY <1>3, <1>4, UnitKinds, BlockNat, SentFollows
    <1>6. PICK from \in Nat : from = Place(ci) /\ from + m <= Len(data)
        BY <1>3, Types
    <1>7. \A k \in 1 .. m : s2c[k] = Sent(data)[from + k]
        BY <1>1, <1>2, <1>6, AnswerGoesOn
    <1>8. PICK part \in Seq(Unit) : /\ part = SubSeq(s2c, 1, m) /\ Len(part) = m
                                    /\ \A k \in 1 .. m : part[k] = s2c[k]
        <2>1. s2c \in Seq(Unit)
            BY Types
        <2>2. SubSeq(s2c, 1, m) \in Seq(Unit) /\ Len(SubSeq(s2c, 1, m)) = m
              /\ \A k \in 1 .. m : SubSeq(s2c, 1, m)[k] = s2c[k]
            BY <2>1, FirstProperties
        <2> QED
            BY <2>2
    <1>9. ASSUME NEW k \in 1 .. Len(data) + 1 - from, 0 + k <= m
          PROVE  Follows("exactly", h, from + k, part[0 + k])
        <2>1. PICK n \in Nat : n = Len(data)
            BY <1>2
        <2>2. k \in 1 .. n + 1 - from /\ from + m <= n
            BY <1>6, <2>1
        <2>3. k \in 1 .. m /\ from + k \in 1 .. n /\ 0 + k = k
            BY <1>9, <2>2
        <2> QED
            BY <1>5, <1>7, <1>8, <2>1, <2>3
    <1>10. Continues("exactly", h, from, part, 0)
        BY <1>4, <1>8, <1>9 DEF Continues
    <1> QED
        BY <1>1, <1>3, <1>4, <1>6, <1>8, <1>10

LEMMA FirstOfFirst ==
    ASSUME NEW s \in Seq(Unit), NEW m \in Nat, m <= Len(s)
    PROVE  /\ SubSeq(s, 1, m) \in Seq(Unit) /\ Len(SubSeq(s, 1, m)) = m
           /\ SubSeq(SubSeq(s, 1, m), 1, m) = SubSeq(s, 1, m)
    <1>1. PICK t \in Seq(Unit) : t = SubSeq(s, 1, m) /\ Len(t) = m
        BY FirstProperties
    <1>2. SubSeq(t, 1, m) \in Seq(Unit) /\ Len(SubSeq(t, 1, m)) = m
          /\ \A k \in 1 .. m : SubSeq(t, 1, m)[k] = t[k]
        BY <1>1, FirstProperties
    <1>3. SubSeq(t, 1, m) = t
        BY <1>1, <1>2, SeqEqual
    <1> QED
        BY <1>1, <1>3

LEMMA RightGetHeader ==
    ASSUME TypeOK, PutsRight, GetsRight, CopiesRight, GetHeader, ~crossed'
    PROVE  PutsRight' /\ GetsRight' /\ CopiesRight'
    <1> USE DEF files, console, waiting, thread, input
    <1>1. /\ s2c # <<>> /\ IsHeader(Head(s2c)) /\ Command(Head(s2c)) # "ERROR"
          /\ cname' = FileName(Head(s2c))
          /\ cbuf' = Fresh(DataSize(Head(s2c))) /\ ci' = 0
          /\ s2c' = Tail(s2c)
          /\ crossed' = (crossed \/ IsMessage(Head(s2c)))
          /\ UNCHANGED <<stored, disk, c2s, client, spc, smsg, sbuf, si, out>>
        BY DEF GetHeader
    <1>2. client = "faulted" => client' = "faulted"
        BY <1>1
    <1>3. PutsRight' /\ CopiesRight'
        <2>1. PutsRight'
            BY <1>1, <1>2, PutsRightSame
        <2>2. CopiesRight'
            BY <1>1, <1>2, CopiesRightSame
        <2> QED
            BY <2>1, <2>2
    <1>4. PICK h \in Header : h = Head(s2c) /\ h = s2c[1]
        BY <1>1, Types, StreamTaken
    <1>5. /\ 1 \in Nat /\ 1 <= Len(s2c) /\ 1 \in 1 .. Len(s2c) /\ s2c' = After(s2c, 1)
        BY <1>1, Types, StreamTaken
    <1>6. h \in Answers
        <2>1. Command(h) # "SENDMSG"
            BY <1>1, <1>4 DEF IsMessage
        <2> QED
            BY <1>1, <1>4, <2>1, HeaderKinds
    <1>7. Fits(client, FileName(h), DataSize(h))
        BY <1>4, <1>5, <1>6 DEF GetsRight, AllFit
    <1>8. Fits(client', cname', Len(cbuf'))
        BY <1>1, <1>4, <1>7, FreshType
    <1>9. Whole(cname', cbuf', Place(ci'))
        BY <1>1, EmptyData, WholeNothing
    <1>10. AllFit(client', s2c', Answers)
        BY <1>1, <1>5, Types, FitAfter DEF GetsRight
    <1>11. \A j \in 1 .. Len(out') : AllFit(client', out'[j], Answers)
        BY <1>1 DEF GetsRight
    <1>12. GetsRight'
        BY <1>8, <1>9, <1>10, <1>11 DEF GetsRight
    <1> QED
        BY <1>3, <1>12

LEMMA RightGetBlock ==
    ASSUME TypeOK, ClientRight, PutsRight, GetsRight, CopiesRight, GetBlock,
           short = {}, ~crossed, short' = {}, ~crossed'
    PROVE  PutsRight' /\ GetsRight' /\ CopiesRight'
    <1> USE DEF files, console, waiting, thread, input
    <1>1. PICK m \in Lengths(s2c, Block, ServerGone) :
             /\ ~MeetsHeader(s2c, m)
             /\ cbuf' = Stored(cbuf, ci, SubSeq(s2c, 1, m))
             /\ s2c' = After(s2c, m)
             /\ Asked("client", Block, m)
             /\ crossed' = (crossed \/ \E k \in 1 .. m : IsMessage(s2c[k]))
        BY DEF GetBlock
    <1>2. /\ client = "up" /\ cpc = "get" /\ ci < Blocks(cbuf)
          /\ cname' = cname /\ ci' = ci + 1
          /\ UNCHANGED <<stored, disk, c2s, client, spc, smsg, sbuf, si, out>>
        BY DEF GetBlock
    <1>3. ci \in Int /\ Place(ci) \in Int
        BY Types
    <1>4. /\ m \in Nat /\ m <= Block /\ m <= Len(s2c)
          /\ Len(cbuf') = Len(cbuf)
        BY <1>1, <1>3, BlockNat, Types, Received
    <1>5. m = Block
        <2>1. m >= Block
            BY <1>1, <1>4, BlockNat, Hosts, AskedDoes DEF TypeOK
        <2> QED
            BY <1>4, <2>1, BlockNat
    <1>6. Len(s2c) >= 1 /\ ~IsMessage(s2c[1])
        <2>1. 1 \in 1 .. m /\ m >= 1 /\ Len(s2c) \in Nat
            BY <1>5, BlockNat, Types
        <2>2. Len(s2c) >= 1
            BY <1>4, <2>1
        <2>3. ~IsMessage(s2c[1])
            BY <1>1, <2>1
        <2> QED
            BY <2>2, <2>3
    <1>7. PICK q : Stream(q) /\ Phase(q)
        BY <1>2 DEF ClientRight, ToClient
    <1>8. m = Wanted
        BY <1>2, <1>5 DEF Wanted
    <1>9. Place(ci) + m <= Len(cbuf)
        <2>1. ci \in Nat /\ Blocks(cbuf) \in Nat /\ Place(Blocks(cbuf)) \in Nat
              /\ Place(Blocks(cbuf)) <= Len(cbuf) /\ Len(cbuf) \in Nat
            BY Types, BlockNat, BlocksOf
        <2>2. Place(ci) + Block <= Place(Blocks(cbuf)) /\ Place(ci) \in Nat
            BY <1>2, <2>1, BlockNat, PlacesInOrder, PlaceNat
        <2> QED
            BY <1>5, <2>1, <2>2, BlockNat
    <1>10. PICK h : h = <<"GET", cname, Len(cbuf)>>
        OBVIOUS
    <1>11. PICK part \in Seq(Unit) : /\ part = SubSeq(s2c, 1, m) /\ Len(part) = m
                                     /\ SubSeq(part, 1, m) = part
        <2>1. s2c \in Seq(Unit)
            BY Types
        <2> QED
            BY <1>4, <2>1, FirstOfFirst
    <1>12. Continues("exactly", h, Place(ci), part, 0)
        BY <1>2, <1>4, <1>6, <1>7, <1>8, <1>9, <1>10, <1>11, AnswerContinues
    <1>13. Whole(cname, cbuf, Place(ci)) /\ Fits(client, cname, Len(cbuf))
        BY <1>2 DEF GetsRight
    <1>14. Whole(cname, Stored(cbuf, ci, SubSeq(part, 1, Block)), Place(ci + 1))
        <2>1. Block <= Len(part) /\ cbuf \in Seq(Byte) /\ ci \in Nat
            BY <1>5, <1>11, BlockNat, Types
        <2> QED
            BY <1>2, <1>10, <1>12, <1>13, <2>1, UnitKinds, BlockNat, BlockRight
    <1>15. cbuf' = Stored(cbuf, ci, SubSeq(part, 1, Block))
        BY <1>1, <1>5, <1>11
    <1>16. Whole(cname', cbuf', Place(ci'))
        BY <1>2, <1>14, <1>15
    <1>17. Fits(client', cname', Len(cbuf'))
        BY <1>2, <1>4, <1>13
    <1>18. AllFit(client', s2c', Answers)
        BY <1>1, <1>2, <1>4, Types, FitAfter DEF GetsRight
    <1>19. \A j \in 1 .. Len(out') : AllFit(client', out'[j], Answers)
        BY <1>2 DEF GetsRight
    <1>20. GetsRight'
        BY <1>16, <1>17, <1>18, <1>19 DEF GetsRight
    <1>21. PutsRight'
        BY <1>2, PutsRightSame
    <1>22. CopiesRight'
        BY <1>2, CopiesRightSame
    <1> QED
        BY <1>20, <1>21, <1>22

LEMMA RightGetRest ==
    ASSUME TypeOK, ClientRight, PutsRight, GetsRight, CopiesRight, GetRest,
           short = {}, ~crossed, short' = {}, ~crossed'
    PROVE  PutsRight' /\ GetsRight' /\ CopiesRight'
    <1> USE DEF files, console, waiting, thread, input
    <1>1. PICK m \in Lengths(s2c, Rest(cbuf), ServerGone) :
             /\ ~MeetsHeader(s2c, m)
             /\ s2c' = After(s2c, m)
             /\ Asked("client", Rest(cbuf), m)
             /\ crossed' = (crossed \/ \E k \in 1 .. m : IsMessage(s2c[k]))
             /\ \/ /\ SaveFile("client", cname, Stored(cbuf, ci - 1, SubSeq(s2c, 1, m)))
                   /\ cpc' = "console"
                   /\ UNCHANGED client
                \/ /\ client' = "faulted"
                   /\ UNCHANGED <<stored, disk, cpc, cbuf, ci>>
        BY DEF GetRest
    <1>2. /\ client = "up" /\ cpc = "get" /\ ci = Blocks(cbuf) /\ cname' = cname
          /\ UNCHANGED <<c2s, spc, smsg, sbuf, si, out>>
        BY DEF GetRest
    <1>3. client = "faulted" => client' = "faulted"
        BY <1>2
    <1>4. PutsRight'
        BY <1>2, <1>3, PutsRightSame
    <1>5. PICK rest : rest \in Nat /\ rest = Rest(cbuf)
        BY Types, PlaceOfRest
    <1>6. m \in Nat /\ m <= rest /\ m <= Len(s2c)
        <2>1. s2c \in Seq(Unit) /\ ServerGone \in BOOLEAN
            BY Types
        <2> QED
            BY <1>1, <1>5, <2>1, LengthsProperties
    <1>7. m = rest
        <2>1. m >= rest
            BY <1>1, <1>5, <1>6, Hosts, AskedDoes DEF TypeOK
        <2> QED
            BY <1>5, <1>6, <2>1
    <1>8. AllFit(client', s2c', Answers)
        <2>1. AllFit(client, s2c, Answers) /\ s2c \in Seq(Unit)
            BY Types DEF GetsRight
        <2>2. AllFit(client, After(s2c, m), Answers)
            BY <1>6, <2>1, FitAfter
        <2> QED
            BY <1>1, <1>3, <2>2, FitMore
    <1>9. \A j \in 1 .. Len(out') : AllFit(client', out'[j], Answers)
        BY <1>2, <1>3, FitMore DEF GetsRight
    <1>10. Whole(cname, cbuf, Place(ci)) /\ Fits(client, cname, Len(cbuf))
        BY <1>2 DEF GetsRight
    <1>11. CASE client' = "faulted" /\ UNCHANGED <<stored, disk, cpc, cbuf, ci>>
        <2>1. CopiesRight'
            BY <1>11, CopiesRightSame
        <2>2. Whole(cname', cbuf', Place(ci')) /\ Fits(client', cname', Len(cbuf'))
            BY <1>2, <1>10, <1>11 DEF Fits
        <2>3. GetsRight'
            BY <1>8, <1>9, <2>2 DEF GetsRight
        <2> QED
            BY <1>4, <2>1, <2>3
    <1>12. CASE /\ SaveFile("client", cname, Stored(cbuf, ci - 1, SubSeq(s2c, 1, m)))
                /\ cpc' = "console" /\ UNCHANGED client
        <2>1. GetsRight'
            BY <1>8, <1>9, <1>12 DEF GetsRight
        <2>2. PICK h : h = <<"GET", cname, Len(cbuf)>>
            OBVIOUS
        <2>3. PICK part \in Seq(Unit) : /\ part = SubSeq(s2c, 1, m) /\ Len(part) = m
                                        /\ SubSeq(part, 1, m) = part
            <3>1. s2c \in Seq(Unit)
                BY Types
            <3> QED
                BY <1>6, <3>1, FirstOfFirst
        <2>4. Continues("exactly", h, Place(ci), part, 0)
            <3>1. CASE m = 0
                <4>1. \A k \in 1 .. DataSize(h) + 1 - Place(ci) : ~(0 + k <= Len(part))
                    BY <2>3, <3>1
                <4> QED
                    BY <4>1 DEF Continues
            <3>2. CASE m # 0
                <4>1. Len(s2c) >= 1 /\ ~IsMessage(s2c[1])
                    <5>1. 1 \in 1 .. m /\ m >= 1 /\ Len(s2c) \in Nat
                        BY <1>6, <3>2, Types
                    <5>2. Len(s2c) >= 1
                        BY <1>6, <5>1
                    <5> QED
                        BY <1>1, <5>1, <5>2
                <4>2. PICK q : Stream(q) /\ Phase(q)
                    BY <1>2 DEF ClientRight, ToClient
                <4>3. m = Wanted
                    <5>1. ~(ci < Blocks(cbuf))
                        BY <1>2, Types
                    <5> QED
                        BY <1>2, <1>5, <1>7, <5>1 DEF Wanted
                <4>4. Place(ci) + m <= Len(cbuf)
                    <5>1. Len(cbuf) = Place(ci) + rest /\ Len(cbuf) \in Nat
                        BY <1>2, <1>5, Types, BlockNat, BlocksOf
                    <5> QED
                        BY <1>7, <5>1
                <4> QED
                    BY <1>2, <1>6, <2>2, <2>3, <4>1, <4>2, <4>3, <4>4, AnswerContinues
            <3> QED
                BY <3>1, <3>2
        <2>5. PICK new : new = Stored(cbuf, ci - 1, SubSeq(s2c, 1, m))
            OBVIOUS
        <2>6. Whole(cname, new, Place(Blocks(new)))
            <3>1. cbuf \in Seq(Byte) /\ m <= Len(part) /\ m <= Rest(cbuf) /\ Place(ci) = Place(Blocks(cbuf))
                BY <1>2, <1>5, <1>6, <2>3, Types
            <3>2. new = Stored(cbuf, Blocks(cbuf) - 1, SubSeq(part, 1, m))
                BY <1>2, <2>3, <2>5
            <3> QED
                BY <1>2, <1>6, <1>10, <2>2, <2>4, <3>1, <3>2, UnitKinds, BlockNat, RestRight
        <2>7. new \in Seq(Byte) /\ Len(new) = Len(cbuf)
            <3>1. ci - 1 \in Int /\ Place(ci - 1) \in Int /\ Rest(cbuf) \in Nat
                BY <1>2, Types, PlaceOfRest
            <3> QED
                BY <1>1, <2>5, <3>1, Types, Received
        <2>8. Fits(client, cname, Len(new)) /\ SaveFile("client", cname, new) /\ cname \in Name
            BY <1>10, <1>12, <2>5, <2>7, Types
        <2>9. CopiesRight'
            BY <1>3, <2>6, <2>7, <2>8, Hosts, CopySaved
        <2> QED
            BY <1>4, <2>1, <2>9
    <1> QED
        BY <1>1, <1>11, <1>12

LEMMA RightGet ==
    ASSUME TypeOK, ClientRight, PutsRight, GetsRight, CopiesRight, Get,
           short = {}, ~crossed, short' = {}, ~crossed'
    PROVE  PutsRight' /\ GetsRight' /\ CopiesRight'
    <1>1. CASE GetNoFile \/ GetGarbled
        <2> USE DEF files, console, waiting, thread, input
        <2>1. /\ client = "up"
              /\ UNCHANGED <<stored, disk, c2s, s2c, cpc, cname, cbuf, ci, spc, smsg, sbuf, si, out>>
            <3>1. CASE GetNoFile
                BY <3>1 DEF GetNoFile
            <3>2. CASE GetGarbled
                BY <3>2 DEF GetGarbled
            <3> QED
                BY <1>1, <3>1, <3>2
        <2>2. client = "faulted" => client' = "faulted"
            BY <2>1
        <2>3. PutsRight'
            BY <2>1, <2>2, PutsRightSame
        <2>4. GetsRight'
            BY <2>1, <2>2, GetsRightSame
        <2>5. CopiesRight'
            BY <2>1, <2>2, CopiesRightSame
        <2> QED
            BY <2>3, <2>4, <2>5
    <1>2. CASE GetHeader
        BY <1>2, RightGetHeader
    <1>3. CASE GetBlock
        BY <1>3, RightGetBlock
    <1>4. CASE GetRest
        BY <1>4, RightGetRest
    <1> QED
        BY <1>1, <1>2, <1>3, <1>4 DEF Get

(***************************************************************************)
(* comm_waitmsg, and what loop_dispatch sends.                             *)
(***************************************************************************)
LEMMA RightWait ==
    ASSUME TypeOK, PutsRight, GetsRight, CopiesRight, comm_waitmsg \/ PartOfHeader
    PROVE  PutsRight' /\ GetsRight' /\ CopiesRight'
    <1> USE DEF files, console, thread, input
    <1>1. /\ client = "up"
          /\ UNCHANGED <<stored, disk, c2s, cpc, cname, cbuf, ci, spc, smsg, sbuf, si, out>>
        <2>1. CASE WaitHeader
            BY <2>1 DEF WaitHeader
        <2>2. CASE WaitData
            BY <2>2 DEF WaitData
        <2>3. CASE WaitGarbled
            BY <2>3 DEF WaitGarbled
        <2>4. CASE WaitEnd \/ PartOfHeader
            BY <2>4 DEF WaitEnd, PartOfHeader
        <2> QED
            BY <2>1, <2>2, <2>3, <2>4 DEF comm_waitmsg
    <1>2. client = "faulted" => client' = "faulted"
        BY <1>1
    <1>3. PutsRight'
        BY <1>1, <1>2, PutsRightSame
    <1>4. CopiesRight'
        BY <1>1, <1>2, CopiesRightSame
    <1>5. AllFit(client, s2c, Answers)
        BY DEF GetsRight
    <1>6. AllFit(client, s2c', Answers)
        <2>1. CASE WaitHeader
            <3>1. s2c' = After(s2c, 1) /\ 1 \in Nat /\ 1 <= Len(s2c) /\ s2c \in Seq(Unit)
                BY <2>1, Types, StreamTaken DEF WaitHeader
            <3> QED
                BY <1>5, <3>1, FitAfter
        <2>2. CASE WaitData
            <3>1. PICK m \in Lengths(s2c, DataSize(wmsg), ServerGone) : s2c' = After(s2c, m)
                BY <2>2 DEF WaitData
            <3>2. DataSize(wmsg) \in Nat /\ s2c \in Seq(Unit) /\ ServerGone \in BOOLEAN
                BY Types, HeaderProperties
            <3>3. m \in Nat /\ m <= Len(s2c)
                BY <3>2, LengthsProperties
            <3> QED
                BY <1>5, <3>1, <3>2, <3>3, FitAfter
        <2>3. CASE WaitGarbled \/ WaitEnd \/ PartOfHeader
            <3>1. s2c' = s2c
                BY <2>3 DEF WaitGarbled, WaitEnd, PartOfHeader
            <3> QED
                BY <1>5, <3>1
        <2> QED
            BY <2>1, <2>2, <2>3 DEF comm_waitmsg
    <1>7. AllFit(client', s2c', Answers)
        BY <1>2, <1>6, FitMore
    <1>8. \A j \in 1 .. Len(out') : AllFit(client', out'[j], Answers)
        BY <1>1, <1>2, FitMore DEF GetsRight
    <1>9. cpc' = "get" => Fits(client', cname', Len(cbuf')) /\ Whole(cname', cbuf', Place(ci'))
        <2>1. cpc = "get" => Fits(client', cname, Len(cbuf)) /\ Whole(cname, cbuf, Place(ci))
            BY <1>2, FitMore DEF GetsRight
        <2> QED
            BY <1>1, <2>1
    <1>10. GetsRight'
        BY <1>7, <1>8, <1>9 DEF GetsRight
    <1> QED
        BY <1>3, <1>4, <1>10

\* What comes to the client is more, and as announced.
LEMMA GetsRightMore ==
    ASSUME TypeOK, GetsRight, NEW t \in Seq(Unit), AllFit(client', t, Answers),
           s2c' = s2c \o t, UNCHANGED <<cpc, cname, cbuf, ci>>,
           \A j \in 1 .. Len(out') : AllFit(client', out'[j], Answers),
           client = "faulted" => client' = "faulted"
    PROVE  GetsRight'
    <1>1. AllFit(client', s2c, Answers) /\ s2c \in Seq(Unit)
        BY Types, FitMore DEF GetsRight
    <1>2. AllFit(client', s2c \o t, Answers)
        BY <1>1, FitConcat
    <1>3. cpc = "get" => Fits(client', cname, Len(cbuf)) /\ Whole(cname, cbuf, Place(ci))
        BY FitMore DEF GetsRight
    <1> QED
        BY <1>2, <1>3 DEF GetsRight

LEMMA RightDeliver ==
    ASSUME TypeOK, PutsRight, GetsRight, CopiesRight, NEW p \in Peer, Deliver(p)
    PROVE  PutsRight' /\ GetsRight' /\ CopiesRight'
    <1> USE DEF files, console, waiting, thread, input
    <1>1. /\ s2c' = (s2c \o <<Announced(p)>>) \o Original(p)
          /\ UNCHANGED <<stored, disk, c2s, client, cpc, cname, cbuf, ci, spc, smsg, sbuf, si, out>>
        BY DEF Deliver, Announced
    <1>2. client = "faulted" => client' = "faulted"
        BY <1>1
    <1>3. PutsRight'
        BY <1>1, <1>2, PutsRightSame
    <1>4. CopiesRight'
        BY <1>1, <1>2, CopiesRightSame
    <1>5. PICK h \in Header : h = Announced(p) /\ h \notin Answers
        BY Names, MessageSends, HeaderKinds
    <1>6. PICK t \in Seq(Byte) : t = Original(p)
        BY Names, MessageSends
    <1>7. <<h>> \in Seq(Unit) /\ AllFit(client', <<h>>, Answers)
        BY <1>5, FitOne
    <1>8. t \in Seq(Unit) /\ AllFit(client', t, Answers)
        BY HeaderKinds, FitData
    <1>9. PICK u : u = <<h>> \o t
        OBVIOUS
    <1>10. u \in Seq(Unit) /\ AllFit(client', u, Answers)
        <2>1. <<h>> \o t \in Seq(Unit)
            BY <1>7, <1>8, ConcatProperties
        <2>2. AllFit(client', <<h>> \o t, Answers)
            BY <1>7, <1>8, FitConcat
        <2> QED
            BY <1>9, <2>1, <2>2
    <1>11. s2c' = s2c \o u
        <2>1. (s2c \o <<h>>) \o t = s2c \o (<<h>> \o t)
            <3>1. s2c \in Seq(Unit)
                BY Types
            <3> QED
                BY <1>7, <1>8, <3>1, ConcatAssociative
        <2> QED
            BY <1>1, <1>5, <1>6, <1>9, <2>1
    <1>12. \A j \in 1 .. Len(out') : AllFit(client', out'[j], Answers)
        BY <1>1, <1>2, FitMore DEF GetsRight
    <1>13. GetsRight'
        BY <1>1, <1>2, <1>10, <1>11, <1>12, GetsRightMore
    <1> QED
        BY <1>3, <1>4, <1>13

(***************************************************************************)
(* clithread.                                                              *)
(***************************************************************************)
LEMMA RightParseHeader ==
    ASSUME TypeOK, PutsRight, ParseHeader
    PROVE  PutsRight'
    <1> USE DEF files, console, waiting, thread, input
    <1>1. /\ c2s # <<>> /\ IsHeader(Head(c2s))
          /\ spc' = IF DataSize(Head(c2s)) = 0 THEN "handle" ELSE "data"
          /\ smsg' = Head(c2s) /\ sbuf' = Fresh(DataSize(Head(c2s))) /\ si' = 0 /\ c2s' = Tail(c2s)
          /\ client' = client
        BY DEF ParseHeader
    <1>2. PICK h \in Header : h = Head(c2s) /\ h = c2s[1]
        BY <1>1, Types, StreamTaken
    <1>3. /\ c2s \in Seq(Unit) /\ 1 \in Nat /\ 1 <= Len(c2s) /\ 1 \in 1 .. Len(c2s)
          /\ c2s' = After(c2s, 1) /\ IsHeader(h)
        BY <1>1, <1>2, Types, StreamTaken
    <1>4. DataSize(h) \in Nat /\ sbuf' \in Seq(Byte) /\ Len(sbuf') = DataSize(h)
        BY <1>1, <1>2, HeaderProperties, FreshType
    <1>5. Frames("exactly", c2s) /\ AllFit(client, c2s, Puts)
        BY DEF PutsRight
    <1>6. Frames("exactly", c2s')
        BY <1>3, <1>5, UnitKinds, FramesAfter
    <1>7. AllFit(client', c2s', Puts)
        BY <1>1, <1>3, <1>5, FitAfter
    <1>8. h \in Puts => Fits(client', FileName(h), DataSize(h))
        BY <1>1, <1>2, <1>3, <1>5 DEF AllFit
    <1>9. Continues("exactly", h, 0, c2s', 0)
        <2>1. 1 + 0 = 1 /\ 0 \in Nat
            OBVIOUS
        <2>2. Continues("exactly", h, 0, c2s, 1 + 0)
            BY <1>2, <1>3, <1>5, <2>1 DEF Frames
        <2> QED
            BY <1>3, <1>4, <2>1, <2>2, ContinuesAfter
    <1>10. spc' = "handle" => Whole(FileName(smsg'), sbuf', Place(Blocks(sbuf')))
        <2>1. SUFFICES ASSUME spc' = "handle"
                       PROVE  Whole(FileName(smsg'), sbuf', Place(Blocks(sbuf')))
            OBVIOUS
        <2>2. Len(sbuf') = 0
            BY <1>1, <1>2, <1>4, <2>1
        <2>3. sbuf' = <<>>
            BY <1>4, <2>2, EmptySeq
        <2> QED
            BY <2>3, WholeNothing
    <1>11. Place(si') = 0 /\ Whole(FileName(smsg'), sbuf', 0)
        BY <1>1, EmptyData, WholeNothing
    <1> QED
        BY <1>1, <1>2, <1>6, <1>7, <1>8, <1>9, <1>10, <1>11 DEF PutsRight

LEMMA RightParseBlock ==
    ASSUME TypeOK, ToServer, PutsRight, ParseBlock, short' = {}
    PROVE  PutsRight'
    <1> USE DEF files, console, waiting, thread, input
    <1>1. PICK m \in Lengths(c2s, Block, ClientGone) :
              /\ ~MeetsHeader(c2s, m)
              /\ sbuf' = Stored(sbuf, si, SubSeq(c2s, 1, m))
              /\ c2s' = After(c2s, m)
              /\ Asked("server", Block, m)
        BY DEF ParseBlock
    <1>2. /\ spc = "data" /\ si < Blocks(sbuf) /\ si' = si + 1
          /\ UNCHANGED <<client, spc, smsg>>
        BY DEF ParseBlock
    <1>3. /\ c2s \in Seq(Unit) /\ sbuf \in Seq(Byte) /\ si \in Nat /\ si \in Int
          /\ Place(si) \in Nat /\ Place(si) \in Int /\ smsg \in Header
          /\ Block \in Nat /\ ClientGone \in BOOLEAN /\ Len(c2s) \in Nat /\ Len(sbuf) \in Nat
        BY Types, BlockNat
    <1>4. m \in Nat /\ m <= Block /\ m <= Len(c2s)
        BY <1>1, <1>3, Received
    <1>5. m = Block
        <2>1. m >= Block
            BY <1>1, <1>3, <1>4, Hosts, AskedDoes DEF TypeOK
        <2> QED
            BY <1>3, <1>4, <2>1
    <1>6. PICK h \in Header : /\ h = smsg /\ DataSize(h) = Len(sbuf)
                              /\ h = <<Command(h), FileName(h), Len(sbuf)>>
        BY <1>2, <1>3, HeaderProperties DEF ToServer
    <1>7. /\ Frames("exactly", c2s) /\ AllFit(client, c2s, Puts)
          /\ h \in Puts => Fits(client, FileName(h), DataSize(h))
          /\ Continues("exactly", h, Place(si), c2s, 0)
          /\ Whole(FileName(h), sbuf, Place(si))
        BY <1>2, <1>6 DEF PutsRight
    <1>8. Frames("exactly", c2s')
        BY <1>1, <1>3, <1>4, <1>7, UnitKinds, FramesAfter
    <1>9. AllFit(client', c2s', Puts)
        BY <1>1, <1>2, <1>3, <1>4, <1>7, FitAfter
    <1>10. Continues("exactly", h, Place(si'), c2s', 0)
        <2>1. Continues("exactly", h, Place(si) + m, After(c2s, m), 0)
            BY <1>3, <1>4, <1>6, <1>7, ContinuesOn
        <2>2. Place(si') = Place(si) + m
            BY <1>2, <1>3, <1>5, BlockNat, PlaceNext
        <2> QED
            BY <1>1, <2>1, <2>2
    <1>11. Whole(FileName(h), sbuf', Place(si'))
        <2>1. Block <= Len(c2s)
            BY <1>4, <1>5
        <2>2. Whole(FileName(h), Stored(sbuf, si, SubSeq(c2s, 1, Block)), Place(si + 1))
            BY <1>2, <1>3, <1>6, <1>7, <2>1, UnitKinds, BlockNat, BlockRight
        <2> QED
            BY <1>1, <1>2, <1>5, <2>2
    <1> QED
        BY <1>2, <1>6, <1>7, <1>8, <1>9, <1>10, <1>11 DEF PutsRight

LEMMA RightParseRest ==
    ASSUME TypeOK, ToServer, PutsRight, ParseRest
    PROVE  PutsRight'
    <1> USE DEF files, console, waiting, thread, input
    <1>1. PICK m \in Lengths(c2s, Rest(sbuf), ClientGone) :
              /\ ~MeetsHeader(c2s, m)
              /\ sbuf' = Stored(sbuf, RestBlock, SubSeq(c2s, 1, m))
              /\ c2s' = After(c2s, m)
        BY DEF ParseRest
    <1>2. /\ spc = "data" /\ si = Blocks(sbuf) /\ spc' = "handle"
          /\ UNCHANGED <<client, smsg>>
        BY DEF ParseRest
    <1>3. /\ c2s \in Seq(Unit) /\ sbuf \in Seq(Byte) /\ smsg \in Header /\ Rest(sbuf) \in Nat
          /\ ClientGone \in BOOLEAN /\ si \in Nat
        BY Types, PlaceOfRest
    <1>4. m \in Nat /\ m <= Rest(sbuf) /\ m <= Len(c2s)
        BY <1>3, LengthsProperties
    <1>5. PICK h \in Header : /\ h = smsg /\ DataSize(h) = Len(sbuf)
                              /\ h = <<Command(h), FileName(h), Len(sbuf)>>
        BY <1>2, <1>3, HeaderProperties DEF ToServer
    <1>6. /\ Frames("exactly", c2s) /\ AllFit(client, c2s, Puts)
          /\ h \in Puts => Fits(client, FileName(h), DataSize(h))
          /\ Continues("exactly", h, Place(si), c2s, 0)
          /\ Whole(FileName(h), sbuf, Place(si))
        BY <1>2, <1>5 DEF PutsRight
    <1>7. Frames("exactly", c2s')
        BY <1>1, <1>3, <1>4, <1>6, UnitKinds, FramesAfter
    <1>8. AllFit(client', c2s', Puts)
        BY <1>1, <1>2, <1>3, <1>4, <1>6, FitAfter
    <1>9. Whole(FileName(h), sbuf', Place(Blocks(sbuf')))
        <2>1. CASE si = 0
            <3>1. PICK part \in Seq(Byte) : part = SubSeq(c2s, 1, m)
                <4>1. RestBlock \in Int /\ Place(RestBlock) \in Int
                    BY <2>1, EmptyData DEF RestBlock
                <4> QED
                    BY <1>1, <1>3, <4>1, Received
            <3>2. Blocks(sbuf') = 0
                <4>1. 0 \in Int /\ Place(0) \in Int /\ RestBlock = 0
                    BY <2>1, EmptyData DEF RestBlock
                <4>2. Blocks(Stored(sbuf, 0, part)) = Blocks(sbuf)
                    BY <1>3, <4>1, StoredType
                <4> QED
                    BY <1>1, <1>2, <2>1, <3>1, <4>1, <4>2
            <3> QED
                BY <3>2, EmptyData, WholeNothing
        <2>2. CASE si # 0
            <3>1. sbuf' = Stored(sbuf, Blocks(sbuf) - 1, SubSeq(c2s, 1, m))
                BY <1>1, <1>2, <2>2 DEF RestBlock
            <3>2. Place(si) = Place(Blocks(sbuf))
                BY <1>2
            <3> QED
                BY <1>3, <1>4, <1>5, <1>6, <3>1, <3>2, UnitKinds, BlockNat, RestRight
        <2> QED
            BY <2>1, <2>2
    <1> QED
        BY <1>2, <1>5, <1>6, <1>7, <1>8, <1>9 DEF PutsRight

\* No command is in hand.
LEMMA PutsRightIdle ==
    ASSUME PutsRight, c2s' = c2s \/ c2s' = <<>>, spc' \notin {"data", "handle"},
           client' = client
    PROVE  PutsRight'
    <1>1. Frames("exactly", <<>>)
        <2>1. Len(<<>>) = 0 /\ 1 .. 0 = {}
            BY EmptySeq
        <2> QED
            BY <2>1 DEF Frames
    <1>2. Frames("exactly", c2s') /\ AllFit(client', c2s', Puts)
        BY <1>1, FitNothing DEF PutsRight
    <1> QED
        BY <1>2 DEF PutsRight

\* What get_handler sends announces the size of its copy.
LEMMA AnswerFits ==
    ASSUME NEW c, NEW f \in Name, NEW data \in Seq(Byte), Fits(c, f, Len(data))
    PROVE  \A j \in 1 .. Len(Answer(f, data)) : AllFit(c, Answer(f, data)[j], Answers)
    <1>1. Len(data) \in Nat /\ Blocks(data) \in Nat
        BY BlockNat, BlocksOf
    <1>2. PICK h \in Header : h = <<"GET", f, Len(data)>> /\ FileName(h) = f /\ DataSize(h) = Len(data)
        BY GetSends
    <1>3. AllFit(c, <<h>>, Answers)
        BY <1>2, FitOne
    <1>4. /\ Len(Answer(f, data)) = Blocks(data) + 2
          /\ Answer(f, data)[1] = <<h>>
        BY <1>2, AnswerType
    <1>5. ASSUME NEW i \in 1 .. Blocks(data) + 1
          PROVE  AllFit(c, Answer(f, data)[i + 1], Answers)
        <2>1. Answer(f, data)[i + 1] = Chunks(data)[i] /\ Chunks(data)[i] \in Seq(Byte)
            BY ChunkPiece
        <2> QED
            BY <2>1, HeaderKinds, FitData
    <1>6. ASSUME NEW j \in 1 .. Len(Answer(f, data))
          PROVE  AllFit(c, Answer(f, data)[j], Answers)
        <2>1. CASE j = 1
            BY <1>3, <1>4, <2>1
        <2>2. CASE j # 1
            <3>1. PICK i \in 1 .. Blocks(data) + 1 : i + 1 = j
                <4>1. j - 1 \in 1 .. Blocks(data) + 1 /\ (j - 1) + 1 = j
                    BY <1>1, <1>4, <2>2
                <4> QED
                    BY <4>1
            <3> QED
                BY <1>5, <3>1
        <2> QED
            BY <2>1, <2>2
    <1> QED
        BY <1>6

\* The thread sends nothing new, or an error response.
LEMMA GetsRightQuiet ==
    ASSUME TypeOK, GetsRight, UNCHANGED <<client, cpc, cname, cbuf, ci>>,
           \/ s2c' = s2c
           \/ \E x \in Name : s2c' = Append(s2c, <<"ERROR", x, 1>>),
           \A j \in 1 .. Len(out') : AllFit(client, out'[j], Answers)
    PROVE  GetsRight'
    <1>1. PICK t \in Seq(Unit) : s2c' = s2c \o t /\ AllFit(client, t, Answers)
        <2>1. CASE s2c' = s2c
            <3>1. <<>> \in Seq(Unit) /\ s2c' = s2c \o <<>>
                BY <2>1, Types, EmptyData, ConcatEmptySeq
            <3> QED
                BY <3>1, FitNothing
        <2>2. ASSUME NEW x \in Name, s2c' = Append(s2c, <<"ERROR", x, 1>>)
              PROVE  \E t \in Seq(Unit) : s2c' = s2c \o t /\ AllFit(client, t, Answers)
            <3>1. PICK h \in Header : /\ h = <<"ERROR", x, 1>> /\ h \in Unit /\ h \notin Answers
                BY ErrorSends, HeaderKinds
            <3>2. <<h>> \in Seq(Unit) /\ AllFit(client, <<h>>, Answers)
                BY <3>1, FitOne
            <3>3. s2c' = s2c \o <<h>>
                BY <2>2, <3>1, Types, AppendIsConcat
            <3> QED
                BY <3>2, <3>3
        <2> QED
            BY <2>1, <2>2
    <1> QED
        BY <1>1, GetsRightMore

LEMMA RightHandle ==
    ASSUME TypeOK, Sending, PutsRight, GetsRight, CopiesRight,
           spc \in {"data", "handle"} => ToServer,
           \/ sendmsg_handler \/ put_handler \/ put_handler_Fails \/ get_handler
           \/ SendChunk \/ CloseConn
    PROVE  PutsRight' /\ GetsRight' /\ CopiesRight'
    <1> USE DEF files, console, waiting, thread, input
    <1>0. FileName(smsg) \in Name
        BY Types, HeaderProperties
    <1>1. /\ UNCHANGED <<client, cpc, cname, cbuf, ci>>
          /\ c2s' = c2s \/ c2s' = <<>>
          /\ spc' \notin {"data", "handle"}
        <2>1. CASE sendmsg_handler
            BY <2>1 DEF sendmsg_handler
        <2>2. CASE put_handler
            BY <2>2 DEF put_handler
        <2>3. CASE put_handler_Fails
            BY <2>3 DEF put_handler_Fails
        <2>4. CASE get_handler
            BY <2>4 DEF get_handler
        <2>5. CASE SendChunk
            BY <2>5 DEF SendChunk
        <2>6. CASE CloseConn
            BY <2>6 DEF CloseConn
        <2> QED
            BY <2>1, <2>2, <2>3, <2>4, <2>5, <2>6
    <1>2. PutsRight' /\ (client = "faulted" => client' = "faulted")
        BY <1>1, PutsRightIdle
    <1>3. \A j \in 1 .. Len(out) : AllFit(client, out[j], Answers)
        BY DEF GetsRight
    <1>4. CASE sendmsg_handler \/ put_handler_Fails
        <2>1. /\ UNCHANGED <<stored, disk, out>>
              /\ s2c' = s2c \/ s2c' = Append(s2c, <<"ERROR", FileName(smsg), 1>>)
            BY <1>4 DEF sendmsg_handler, put_handler_Fails
        <2>2. CopiesRight'
            BY <1>2, <2>1, CopiesRightSame
        <2>3. GetsRight'
            BY <1>0, <1>1, <1>3, <2>1, GetsRightQuiet
        <2> QED
            BY <1>2, <2>2, <2>3
    <1>5. CASE put_handler
        <2>1. /\ spc = "handle" /\ Command(smsg) = "PUT"
              /\ SaveFile("server", FileName(smsg), sbuf)
              /\ UNCHANGED <<s2c, out>>
            BY <1>5 DEF put_handler, Handle
        <2>2. /\ DataSize(smsg) = Len(sbuf) /\ smsg \in Header /\ sbuf \in Seq(Byte)
              /\ smsg \in Puts
            BY <2>1, Types, HeaderKinds DEF ToServer
        <2>3. Fits(client, FileName(smsg), Len(sbuf))
              /\ Whole(FileName(smsg), sbuf, Place(Blocks(sbuf)))
            BY <2>1, <2>2 DEF PutsRight
        <2>4. CopiesRight'
            BY <1>0, <1>2, <2>1, <2>2, <2>3, Hosts, CopySaved
        <2>5. GetsRight'
            BY <1>1, <1>3, <2>1, GetsRightQuiet
        <2> QED
            BY <1>2, <2>4, <2>5
    <1>6. CASE get_handler
        <2>1. PICK f \in Name : f = FileName(smsg)
            BY <1>0
        <2>2. PICK data \in Seq(Byte) : data = disk["server"][f]
            BY Hosts, DiskType
        <2>3. UNCHANGED <<stored, disk>>
            BY <1>6 DEF get_handler
        <2>4. CopiesRight'
            BY <1>2, <2>3, CopiesRightSame
        <2>5. CASE f \in stored["server"]
            <3>1. out' = Answer(f, data) /\ s2c' = s2c
                BY <1>6, <2>1, <2>2, <2>5 DEF get_handler, Answer
            <3>2. Fits(client, f, Len(data))
                BY <2>2, <2>5, Hosts DEF CopiesRight
            <3>3. \A j \in 1 .. Len(out') : AllFit(client, out'[j], Answers)
                BY <3>1, <3>2, AnswerFits
            <3>4. GetsRight'
                BY <1>1, <3>1, <3>3, GetsRightQuiet
            <3> QED
                BY <1>2, <2>4, <3>4
        <2>6. CASE f \notin stored["server"]
            <3>1. s2c' = Append(s2c, <<"ERROR", f, 1>>) /\ out' = out
                BY <1>6, <2>1, <2>6 DEF get_handler
            <3>2. GetsRight'
                BY <1>1, <1>3, <3>1, GetsRightQuiet
            <3> QED
                BY <1>2, <2>4, <3>2
        <2> QED
            BY <2>5, <2>6
    <1>7. CASE SendChunk
        <2>1. /\ spc = "send" /\ s2c' = s2c \o Head(out) /\ out' = Tail(out)
              /\ UNCHANGED <<stored, disk>>
            BY <1>7 DEF SendChunk
        <2>2. CopiesRight'
            BY <1>2, <2>1, CopiesRightSame
        <2>3. out \in Seq(Seq(Unit)) /\ out # <<>>
            BY <2>1 DEF TypeOK, Sending, Unit
        <2>4. /\ Len(out) \in Nat /\ 1 \in 1 .. Len(out) /\ 1 <= Len(out)
              /\ Head(out) = out[1] /\ Head(out) \in Seq(Unit)
              /\ Tail(out) = After(out, 1) /\ Len(Tail(out)) = Len(out) - 1
            BY <2>3, HeadProperties
        <2>5. \A j \in 1 .. Len(out) - 1 : After(out, 1)[j] = out[1 + j] /\ 1 + j \in 1 .. Len(out)
            BY <2>3, <2>4, AfterProperties
        <2>6. \A j \in 1 .. Len(out') : AllFit(client', out'[j], Answers)
            BY <1>1, <1>3, <2>1, <2>4, <2>5
        <2>7. AllFit(client', Head(out), Answers)
            BY <1>1, <1>3, <2>4
        <2>8. GetsRight'
            BY <1>1, <1>2, <2>1, <2>4, <2>6, <2>7, GetsRightMore
        <2> QED
            BY <1>2, <2>2, <2>8
    <1>8. CASE CloseConn
        <2>1. out' = <<>> /\ UNCHANGED <<stored, disk, s2c>>
            BY <1>8 DEF CloseConn
        <2>2. CopiesRight'
            BY <1>2, <2>1, CopiesRightSame
        <2>3. \A j \in 1 .. Len(out') : AllFit(client, out'[j], Answers)
            <3>1. Len(<<>>) = 0 /\ 1 .. 0 = {}
                BY EmptySeq
            <3> QED
                BY <2>1, <3>1
        <2>4. GetsRight'
            BY <1>1, <2>1, <2>3, GetsRightQuiet
        <2> QED
            BY <1>2, <2>2, <2>4
    <1> QED
        BY <1>4, <1>5, <1>6, <1>7, <1>8

LEMMA RightThread ==
    ASSUME TypeOK, Sending, ServerRight, PutsRight, GetsRight, CopiesRight,
           clithread \/ PartOfCommand, short = {}, short' = {}
    PROVE  PutsRight' /\ GetsRight' /\ CopiesRight'
    <1>0. spc # "closed" => ToServer
        BY DEF ServerRight
    <1>1. CASE \/ sendmsg_handler \/ put_handler \/ put_handler_Fails \/ get_handler
               \/ SendChunk \/ CloseConn
        BY <1>0, <1>1, RightHandle
    <1>2. CASE ParseHeader \/ ParseBlock \/ ParseRest \/ ParseGarbled \/ PartOfCommand
        <2> USE DEF files, console, waiting, thread, input
        <2>1. UNCHANGED <<stored, disk, s2c, out, client, cpc, cname, cbuf, ci>>
            <3>1. CASE ParseHeader
                BY <3>1 DEF ParseHeader
            <3>2. CASE ParseBlock
                BY <3>2 DEF ParseBlock
            <3>3. CASE ParseRest
                BY <3>3 DEF ParseRest
            <3>4. CASE ParseGarbled \/ PartOfCommand
                BY <3>4 DEF ParseGarbled, PartOfCommand
            <3> QED
                BY <1>2, <3>1, <3>2, <3>3, <3>4
        <2>2. GetsRight'
            BY <2>1, GetsRightSame
        <2>3. CopiesRight'
            BY <2>1, CopiesRightSame
        <2>4. PutsRight'
            <3>1. CASE ParseHeader
                BY <3>1, RightParseHeader
            <3>2. CASE ParseBlock
                <4>1. ToServer
                    BY <1>0, <3>2 DEF ParseBlock
                <4> QED
                    BY <3>2, <4>1, RightParseBlock
            <3>3. CASE ParseRest
                <4>1. ToServer
                    BY <1>0, <3>3 DEF ParseRest
                <4> QED
                    BY <3>3, <4>1, RightParseRest
            <3>4. CASE ParseGarbled \/ PartOfCommand
                <4>1. c2s' = c2s /\ spc' = "lost"
                    BY <3>4 DEF ParseGarbled, PartOfCommand
                <4> QED
                    BY <2>1, <4>1, PutsRightIdle
            <3> QED
                BY <1>2, <3>1, <3>2, <3>3, <3>4
        <2> QED
            BY <2>2, <2>3, <2>4
    <1> QED
        BY <1>1, <1>2 DEF clithread, parse_msg

LEMMA RightStep ==
    ASSUME TypeOK, Sending, ServerRight, ClientRight, Right, [Next]_vars
    PROVE  Right'
    <1> SUFFICES ASSUME short' = {}, ~crossed'
                 PROVE  PutsRight' /\ GetsRight' /\ CopiesRight'
        BY DEF Right
    <1>1. short = {} /\ ~crossed /\ (client = "faulted" => client' = "faulted")
        BY HistoryKept
    <1>2. PutsRight /\ GetsRight /\ CopiesRight
        BY <1>1 DEF Right
    <1>3. CASE Type
        <2>1. spc # "closed" => ToServer
            BY <1>1 DEF ServerRight
        <2> QED
            BY <1>2, <1>3, <2>1, RightConsole
    <1>4. CASE Get
        BY <1>1, <1>2, <1>4, RightGet
    <1>5. CASE comm_waitmsg \/ PartOfHeader
        BY <1>2, <1>5, RightWait
    <1>6. CASE clithread \/ PartOfCommand
        BY <1>1, <1>2, <1>6, RightThread
    <1>7. ASSUME NEW p \in Peer, Deliver(p)
          PROVE  PutsRight' /\ GetsRight' /\ CopiesRight'
        BY <1>2, <1>7, RightDeliver
    <1>8. CASE UNCHANGED vars
        <2>1. UNCHANGED <<stored, disk, c2s, s2c, out, cpc, cname, cbuf, ci, spc, smsg, sbuf, si>>
            BY <1>8 DEF vars, files, console, thread
        <2>2. PutsRight'
            BY <1>1, <1>2, <2>1, PutsRightSame
        <2>3. GetsRight'
            BY <1>1, <1>2, <2>1, GetsRightSame
        <2>4. CopiesRight'
            BY <1>1, <1>2, <2>1, CopiesRightSame
        <2> QED
            BY <2>2, <2>3, <2>4
    <1> QED
        BY <1>3, <1>4, <1>5, <1>6, <1>7, <1>8 DEF Next


(***************************************************************************)
(* The theorems.                                                           *)
(***************************************************************************)
Inv == TypeOK /\ Sending /\ ServerRight /\ OwnBytes /\ ClientRight /\ Right

LEMMA Invariant == Spec => []Inv
    <1>1. Init => Inv
        BY TypeInit, ServerInit, OwnInit, ClientInit, RightInit DEF Inv
    <1>2. Inv /\ [Next]_vars => Inv'
        BY TypeStep, ServerStep, OwnStep, ClientStep, RightStep DEF Inv
    <1> QED
        BY <1>1, <1>2, PTL DEF Spec

\* comm_put, comm_get, comm_sendmsg, comm_waitmsg and the handlers of the
\* server's thread keep every variable in its type: only bytes of data get into
\* files, buffers and messages, never a header, however recv cuts the stream
\* and whichever of the client's threads receives it, for any files, messages
\* and block length.
THEOREM TypeCorrect == Spec => []TypeOK
    <1>1. Inv => TypeOK
        BY DEF Inv
    <1> QED
        BY <1>1, Invariant, PTL

\* What sendmsg_handler puts into the message strategy is what comm_sendmsg
\* was given, whole and in order, whatever was put and got in between, as long
\* as every recv of parse_msg gets what it asked for.
THEOREM MessagesForwarded == Spec => []ForwardedAsTyped
    <1>1. Inv => ForwardedAsTyped
        <2> SUFFICES ASSUME Inv, "server" \notin short
                     PROVE  \A i \in DOMAIN forwarded :
                                /\ i \in DOMAIN typed
                                /\ forwarded[i] = <<typed[i], Original(typed[i])>>
            BY DEF ForwardedAsTyped
        <2>1. Len(forwarded) \in Nat /\ DOMAIN forwarded = 1 .. Len(forwarded)
              /\ Len(typed) \in Nat /\ DOMAIN typed = 1 .. Len(typed)
            BY LenProperties DEF Inv, TypeOK
        <2>2. ForwardedRight
            BY DEF Inv, ServerRight
        <2> QED
            BY <2>1, <2>2 DEF ForwardedRight
    <1> QED
        BY <1>1, Invariant, PTL

\* What comm_put sends and parse_msg receives, and what get_handler sends and
\* comm_get receives, has the file's size and the bytes of all its whole blocks
\* in every copy, though both send the rest from a block too early and the two
\* programs store it in different places: for any files and block length,
\* unless a recv falls short or the client's threads cross.
THEOREM FilesArrive == Spec => []TransfersArrive
    <1>1. Inv => TransfersArrive
        <2> SUFFICES ASSUME Inv, short = {}, ~crossed, NEW h \in Host, NEW f \in File
                     PROVE  /\ f \in stored[h] => Len(Copy(h, f)) = Size[f] \/ client = "faulted"
                            /\ \A k \in 1 .. Blocks(Copy(h, f)) * Block : Copy(h, f)[k] = <<f, k>>
            BY DEF TransfersArrive
        <2>1. f \in Name /\ CopiesRight
            BY Names DEF Inv, Right
        <2>2. /\ f \in stored[h] => Fits(client, f, Len(disk[h][f]))
              /\ Whole(f, disk[h][f], Place(Blocks(disk[h][f])))
            BY <2>1 DEF CopiesRight
        <2> QED
            BY <2>2 DEF Copy, Fits, Whole, Place
    <1> QED
        BY <1>1, Invariant, PTL

\* Neither end takes data for a header or a header for data: parse_msg unless
\* one of its own recvs fell short, comm_get and comm_waitmsg unless one of
\* theirs did or one took what was sent for the other.
THEOREM KeepsInFrame == Spec => []InFrame
    <1>1. Inv => InFrame
        BY DEF Inv, ServerRight, ClientRight, InFrame
    <1> QED
        BY <1>1, Invariant, PTL

\* Each text comm_waitmsg displays begins with what loop_dispatch sent, whole
\* and in order, though it comes between the sends of a file that comm_get
\* receives from the same socket.
THEOREM MessagesShown == Spec => []ShownAsDelivered
    <1>1. Inv => ShownAsDelivered
        <2> SUFFICES ASSUME Inv, "client" \notin short, ~crossed
                     PROVE  \A i \in DOMAIN shown :
                                /\ i \in DOMAIN delivered
                                /\ Shows(shown[i], delivered[i])
            BY DEF ShownAsDelivered
        <2>1. Len(shown) \in Nat /\ DOMAIN shown = 1 .. Len(shown)
              /\ Len(delivered) \in Nat /\ DOMAIN delivered = 1 .. Len(delivered)
            BY LenProperties DEF Inv, TypeOK
        <2>2. ShownRight
            BY DEF Inv, ClientRight
        <2> QED
            BY <2>1, <2>2 DEF ShownRight
    <1> QED
        BY <1>1, Invariant, PTL
=============================================================================
