------------------------- MODULE FileTransferProofs -------------------------
(***************************************************************************)
(* Theorems about FileTransfer: for any files, sizes, block length and     *)
(* number of commands.                                                     *)
(***************************************************************************)
EXTENDS FileTransfer, BlockLoopProofs

Unit == Byte \cup Header

(***************************************************************************)
(* The inductive invariant.                                                *)
(***************************************************************************)
\* What get_handler has announced and not sent.
Owed == IF spc = "get" THEN Len(sbuf) ELSE 0

\* The headers whose data is being received, and how much of it is.
PutInHand == <<"PUT", sfile, Len(sbuf)>>
GetInHand == <<"GET", cfile, Len(cbuf)>>
PutDone == Place(si)
GetDone == Place(ci)

ToServer ==
    /\ Frames("somehow", c2s)
    /\ ~ClientGone => Complete(c2s, 0)
    /\ spc \in {"put", "rest"} => /\ si <= Blocks(sbuf)
                                  /\ Continues("somehow", PutInHand, PutDone, c2s, 0)
                                  /\ ~ClientGone => Len(sbuf) <= PutDone + Len(c2s)
    /\ spc = "rest" => si = Blocks(sbuf)

ToClient ==
    /\ Frames("somehow", s2c)
    /\ cpc = "get" => /\ ci <= Blocks(cbuf)
                      /\ Continues("somehow", GetInHand, GetDone, s2c, 0)
    /\ spc \in {"command", "get", "put", "rest"} =>
           /\ Complete(s2c, Owed)
           /\ cpc = "get" => Len(cbuf) <= GetDone + Len(s2c) + Owed

\* With whole recvs there is at most one get, at one place.
NoGet == \A p \in 1 .. Len(c2s) : IsHeader(c2s[p]) => Command(c2s[p]) # "GET"
GetIsLast == \A p \in 1 .. Len(c2s) : IsHeader(c2s[p]) /\ Command(c2s[p]) = "GET" => p = Len(c2s)

AtConsole == s2c = <<>> /\ Owed = 0 /\ NoGet
Requested == s2c = <<>> /\ Owed = 0 /\ GetIsLast
Answered == /\ NoGet
            /\ s2c # <<>>
            /\ Len(s2c) + Owed = 1 + DataSize(Head(s2c))
            /\ Owed > 0 => s2c = <<<<"GET", sfile, Len(sbuf)>>>>
Receiving == /\ NoGet
             /\ GetDone + Len(s2c) + Owed = Len(cbuf)
             /\ Owed > 0 => s2c = <<>> /\ cfile = sfile /\ ci = 0

InTurn ==
    ~short /\ ~ServerGone =>
        /\ cpc = "console" => AtConsole
        /\ cpc = "header" => Requested \/ Answered
        /\ cpc = "get" => Receiving

PutsRight ==
    /\ Frames("exactly", c2s)
    /\ spc \in {"put", "rest"} => /\ Whole(sfile, sbuf, PutDone)
                                  /\ Continues("exactly", PutInHand, PutDone, c2s, 0)

GetsRight ==
    /\ ~ClientGone => Frames("exactly", s2c)
    /\ cpc = "get" => /\ Whole(cfile, cbuf, GetDone)
                      /\ Continues("exactly", GetInHand, GetDone, s2c, 0)
    /\ spc = "get" => Len(disk["server"][sfile]) = Len(sbuf)

CopiesRight == \A h \in Host, f \in File : Whole(f, disk[h][f], Place(Blocks(disk[h][f])))

Right == ~short /\ ~raced => PutsRight /\ GetsRight /\ CopiesRight

Inv == TypeOK /\ ToServer /\ ToClient /\ InTurn /\ Right

(***************************************************************************)
(* Units of a stream.                                                      *)
(***************************************************************************)
LEMMA ByteProperties ==
    /\ Junk \in Byte
    /\ \A u \in Byte : ~IsHeader(u)
    BY DEF Byte, Junk, IsHeader

LEMMA HeaderProperties ==
    \A u \in Header :
        /\ IsHeader(u)
        /\ Command(u) \in {"PUT", "GET", "ERROR"}
        /\ FileName(u) \in File
        /\ DataSize(u) \in Nat
        /\ u = <<Command(u), FileName(u), DataSize(u)>>
    BY DEF Header, IsHeader, Command, FileName, DataSize

LEMMA MadeHeader ==
    ASSUME NEW c \in {"PUT", "GET", "ERROR"}, NEW f \in File, NEW n \in Nat
    PROVE  /\ <<c, f, n>> \in Header
           /\ IsHeader(<<c, f, n>>)
           /\ Command(<<c, f, n>>) = c
           /\ FileName(<<c, f, n>>) = f
           /\ DataSize(<<c, f, n>>) = n
    BY DEF Header, IsHeader, Command, FileName, DataSize

LEMMA UnitProperties ==
    \A u \in Unit : /\ IsHeader(u) => u \in Header
                    /\ ~IsHeader(u) => u \in Byte
    BY ByteProperties, HeaderProperties DEF Unit

LEMMA UnitKinds == Kinds(Unit, Byte, Header)
    BY ByteProperties, HeaderProperties DEF Unit, Kinds

LEMMA BlockNat == Block \in Nat /\ Block > 0 /\ Block \in Nat \ {0}
    BY TransferAssumption

(***************************************************************************)
(* Files.                                                                  *)
(***************************************************************************)
LEMMA Types ==
    ASSUME TypeOK
    PROVE  /\ c2s \in Seq(Unit) /\ s2c \in Seq(Unit)
           /\ Len(c2s) \in Nat /\ Len(s2c) \in Nat
           /\ cfile \in File /\ cbuf \in Seq(Byte) /\ ci \in Nat
           /\ sfile \in File /\ sbuf \in Seq(Byte) /\ si \in Nat
           /\ Len(cbuf) \in Nat /\ Len(sbuf) \in Nat
           /\ Place(ci) \in Nat /\ Place(si) \in Nat
           /\ rem_bytes \in Int /\ rem_bytes < Block
           /\ Owed \in Nat
    <1>1. /\ c2s \in Seq(Unit) /\ s2c \in Seq(Unit)
          /\ cfile \in File /\ cbuf \in Seq(Byte) /\ ci \in Nat
          /\ sfile \in File /\ sbuf \in Seq(Byte) /\ si \in Nat
        BY DEF TypeOK, Unit
    <1>2. Len(c2s) \in Nat /\ Len(s2c) \in Nat /\ Len(cbuf) \in Nat /\ Len(sbuf) \in Nat
        BY <1>1, LenProperties
    <1>3. Place(ci) \in Nat /\ Place(si) \in Nat
        BY <1>1, BlockNat, PlaceNat
    <1>4. rem_bytes \in Int /\ rem_bytes < Block
        BY BlockNat DEF TypeOK
    <1> QED
        BY <1>1, <1>2, <1>3, <1>4 DEF Owed

LEMMA DiskType ==
    ASSUME TypeOK, NEW h \in Host, NEW f \in File
    PROVE  disk[h][f] \in Seq(Byte) /\ Len(disk[h][f]) \in Nat
    <1>1. disk[h][f] \in Seq(Byte)
        BY DEF TypeOK
    <1> QED
        BY <1>1, LenProperties

LEMMA Hosts == "client" \in Host /\ "server" \in Host
    BY DEF Host

LEMMA SaveFileDoes ==
    ASSUME TypeOK, NEW h \in Host, NEW f \in File, NEW data \in Seq(Byte), SaveFile(h, f, data)
    PROVE  /\ stored' \in [Host -> SUBSET File]
           /\ disk' \in [Host -> [File -> Seq(Byte)]]
           /\ disk'[h][f] = data
           /\ \A g \in Host, k \in File : <<g, k>> # <<h, f>> => disk'[g][k] = disk[g][k]
    BY DEF TypeOK, SaveFile

LEMMA EmptyData ==
    /\ <<>> \in Seq(Byte) /\ Len(<<>>) = 0 /\ Blocks(<<>>) = 0
    /\ Place(0) = 0
    /\ <<>> \in Seq(Unit)
    <1>1. <<>> \in Seq(Byte) /\ Len(<<>>) = 0 /\ <<>> \in Seq(Unit)
        BY EmptySeq
    <1>2. Place(0) = 0
        BY BlockNat, PlaceNat
    <1>3. 0 \div Block = 0
        BY BlockNat
    <1> QED
        BY <1>1, <1>2, <1>3 DEF Blocks

LEMMA WriteFileDoes ==
    ASSUME TypeOK, NEW f \in File, NEW data \in Seq(Byte), WriteFile(f, data)
    PROVE  /\ stored' \in [Host -> SUBSET File]
           /\ disk' \in [Host -> [File -> Seq(Byte)]]
           /\ raced' \in BOOLEAN
           /\ raced => raced'
           /\ ~raced' => disk'["server"][f] = data /\ ~(spc = "get" /\ sfile = f)
           /\ \A g \in Host, k \in File : <<g, k>> # <<"server", f>> => disk'[g][k] = disk[g][k]
    <1> DEFINE old == disk["server"][f]
               end == SubSeq(old, Len(data) + 1, Len(old))
    <1>1. old \in Seq(Byte) /\ Len(old) \in Nat /\ Len(data) \in Nat
        BY DiskType, Hosts, LenProperties
    <1>2. SaveFile("server", f, data \o end)
          /\ raced' = (raced \/ (spc = "get" /\ sfile = f) \/ Len(old) > Len(data))
        BY DEF WriteFile
    <1> HIDE DEF old
    <1>3. \A k \in Len(data) + 1 .. Len(old) : old[k] \in Byte
        BY <1>1, LenProperties
    <1>4. end \in Seq(Byte) /\ (Len(old) <= Len(data) => Len(end) = 0)
        BY <1>1, <1>3, SubSeqProperties
    <1>5. Len(old) <= Len(data) => end = <<>>
        BY <1>4, EmptySeq
    <1> HIDE DEF end
    <1>6. data \o end \in Seq(Byte)
        BY <1>4, ConcatProperties
    <1>7. end = <<>> => data \o end = data
        BY ConcatEmptySeq
    <1>8. Len(old) > Len(data) \/ Len(old) <= Len(data)
        BY <1>1
    <1>9. /\ stored' \in [Host -> SUBSET File]
          /\ disk' \in [Host -> [File -> Seq(Byte)]]
          /\ disk'["server"][f] = data \o end
          /\ \A g \in Host, k \in File : <<g, k>> # <<"server", f>> => disk'[g][k] = disk[g][k]
        BY <1>2, <1>6, Hosts, SaveFileDoes
    <1> QED
        BY <1>2, <1>5, <1>7, <1>8, <1>9

LEMMA OverProperties ==
    ASSUME NEW data \in Seq(Byte), NEW buf \in Seq(Byte)
    PROVE  /\ Over(data, buf) \in Seq(Byte)
           /\ Len(Over(data, buf)) = Len(buf)
           /\ Len(data) = Len(buf) => Over(data, buf) = data
    <1> DEFINE n == Len(buf)
               new == Over(data, buf)
    <1>1. /\ n \in Nat /\ DOMAIN buf = 1 .. n /\ DOMAIN data = 1 .. Len(data)
          /\ \A k \in 1 .. n : buf[k] \in Byte
          /\ \A k \in 1 .. Len(data) : data[k] \in Byte
        BY LenProperties
    <1>2. new = [k \in 1 .. n |-> IF k \in 1 .. Len(data) THEN data[k] ELSE buf[k]]
        BY <1>1 DEF Over
    <1> HIDE DEF new
    <1>3. new \in [1 .. n -> Byte]
        BY <1>1, <1>2
    <1>4. new \in Seq(Byte) /\ Len(new) = n
        BY <1>1, <1>3, FunctionIsSeq
    <1>5. ASSUME Len(data) = n
          PROVE  new = data
        <2>1. \A k \in 1 .. n : new[k] = data[k]
            BY <1>2, <1>5
        <2> QED
            BY <1>4, <1>5, <2>1, SeqEqual
    <1> QED
        BY <1>4, <1>5 DEF new

(***************************************************************************)
(* The steps of both programs that receive data.                           *)
(***************************************************************************)
LEMMA DataPut ==
    ASSUME NEW s \in Seq(Unit), Frames("somehow", s), NEW t \in Seq(Byte)
    PROVE  /\ s \o t \in Seq(Unit) /\ Len(s \o t) = Len(s) + Len(t)
           /\ Frames("somehow", s \o t)
           /\ Complete(s, Len(t)) => Complete(s \o t, 0)
    BY UnitKinds, DataAppended, Zenon

(***************************************************************************)
(* A block, or the rest, of a put or a get is received.                    *)
(***************************************************************************)
LEMMA BlockOf ==
    ASSUME NEW buf \in Seq(Byte), NEW h, DataSize(h) = Len(buf),
           NEW i \in Nat, i < Blocks(buf), NEW s \in Seq(Unit), NEW ended \in BOOLEAN,
           NEW m \in Lengths(s, Block, ended), Continues("somehow", h, Place(i), s, 0)
    PROVE  /\ m \in Nat /\ m <= Block /\ m <= Len(s)
           /\ Stored(buf, i, SubSeq(s, 1, m)) \in Seq(Byte)
           /\ Len(Stored(buf, i, SubSeq(s, 1, m))) = Len(buf)
           /\ Blocks(Stored(buf, i, SubSeq(s, 1, m))) = Blocks(buf)
           /\ i + 1 <= Blocks(buf) /\ Place(i + 1) = Place(i) + Block /\ Place(i) \in Nat
           /\ Place(i) + Block <= Len(buf)
           /\ Continues("somehow", h, Place(i + 1), After(s, m), 0)
    BY UnitKinds, BlockNat, BlockReceived, Zenon

LEMMA BlockTaken ==
    ASSUME NEW c \in {"PUT", "GET"}, NEW f \in File, NEW buf \in Seq(Byte),
           NEW h, h = <<c, f, Len(buf)>>,
           NEW i \in Nat, i < Blocks(buf), NEW s \in Seq(Unit), NEW ended \in BOOLEAN,
           NEW m \in Lengths(s, Block, ended), Continues("somehow", h, Place(i), s, 0)
    PROVE  /\ m \in Nat /\ m <= Block /\ m <= Len(s)
           /\ Stored(buf, i, SubSeq(s, 1, m)) \in Seq(Byte)
           /\ Len(Stored(buf, i, SubSeq(s, 1, m))) = Len(buf)
           /\ Blocks(Stored(buf, i, SubSeq(s, 1, m))) = Blocks(buf)
           /\ i + 1 <= Blocks(buf) /\ Place(i + 1) = Place(i) + Block /\ Place(i) \in Nat
           /\ Place(i) + Block <= Len(buf)
           /\ Continues("somehow", h, Place(i + 1), After(s, m), 0)
    <1>1. DataSize(h) = Len(buf)
        BY DEF DataSize
    <1> QED
        BY <1>1, BlockOf

LEMMA RestTaken ==
    ASSUME NEW c \in {"PUT", "GET"}, NEW f \in File, NEW buf \in Seq(Byte),
           NEW h, h = <<c, f, Len(buf)>>, NEW s \in Seq(Unit), NEW ended \in BOOLEAN,
           NEW m \in Lengths(s, Rest(buf), ended),
           Continues("somehow", h, Place(Blocks(buf)), s, 0)
    PROVE  /\ m \in Nat /\ m <= Rest(buf) /\ m <= Len(s)
           /\ Rest(buf) \in Nat /\ Place(Blocks(buf)) \in Nat
           /\ Len(buf) = Place(Blocks(buf)) + Rest(buf)
           /\ Stored(buf, Blocks(buf) - 1, SubSeq(s, 1, m)) \in Seq(Byte)
    <1>1. DataSize(h) = Len(buf)
        BY DEF DataSize
    <1> QED
        BY <1>1, RestReceived, UnitKinds, BlockNat, Zenon

(***************************************************************************)
(* Types.                                                                  *)
(***************************************************************************)
LEMMA TypeInit == Init => TypeOK
    <1> SUFFICES ASSUME Init PROVE TypeOK
        OBVIOUS
    <1>1. \A f \in File : Original(f) \in Seq(Byte)
        <2> SUFFICES ASSUME NEW f \in File PROVE Original(f) \in Seq(Byte)
            OBVIOUS
        <2>1. Size[f] \in Nat
            BY TransferAssumption
        <2>2. Original(f) \in [1 .. Size[f] -> Byte]
            BY <2>1 DEF Original, Byte
        <2> QED
            BY <2>1, <2>2, FunctionIsSeq
    <1>2. stored \in [Host -> SUBSET File]
        BY TransferAssumption DEF Init, Host
    <1>3. disk \in [Host -> [File -> Seq(Byte)]]
        <2>1. \A h \in Host, f \in File :
                  (IF f \in stored[h] THEN Original(f) ELSE <<>>) \in Seq(Byte)
            BY <1>1, EmptyData
        <2> QED
            BY <2>1 DEF Init
    <1>4. cfile \in File /\ sfile \in File
        BY TransferAssumption DEF Init
    <1>5. 0 \in 1 - Block .. Block - 1 /\ 0 \in 0 .. MaxCommand
        BY TransferAssumption
    <1>6. c2s \in Seq(Unit) /\ s2c \in Seq(Unit) /\ cbuf \in Seq(Byte) /\ sbuf \in Seq(Byte)
        BY EmptyData DEF Init
    <1> QED
        BY <1>2, <1>3, <1>4, <1>5, <1>6 DEF Init, TypeOK, Unit, ClientPC, ServerPC

LEMMA CommandsType ==
    ASSUME TypeOK, Another
    PROVE  commands' \in 0 .. MaxCommand
    BY TransferAssumption DEF TypeOK, Another

\* What a put sends.
PutOf(f) == <<"PUT", f, Len(disk["client"][f])>>
PutData(f) == Sent(disk["client"][f])

LEMMA PutSends ==
    ASSUME TypeOK, NEW f \in File
    PROVE  /\ PutOf(f) \in Header /\ PutOf(f) \in Unit /\ IsHeader(PutOf(f))
           /\ Command(PutOf(f)) = "PUT"
           /\ DataSize(PutOf(f)) \in Nat
           /\ PutData(f) \in Seq(Byte) /\ Len(PutData(f)) = DataSize(PutOf(f))
           /\ c2s \o <<PutOf(f)>> \in Seq(Unit)
           /\ (c2s \o <<PutOf(f)>>) \o PutData(f) \in Seq(Unit)
    <1>1. disk["client"][f] \in Seq(Byte) /\ Len(disk["client"][f]) \in Nat
        BY DiskType, Hosts
    <1>2. /\ PutOf(f) \in Header /\ IsHeader(PutOf(f)) /\ Command(PutOf(f)) = "PUT"
          /\ DataSize(PutOf(f)) = Len(disk["client"][f])
        BY <1>1, MadeHeader DEF PutOf
    <1>3. PutData(f) \in Seq(Byte) /\ Len(PutData(f)) = Len(disk["client"][f])
        BY <1>1, BlockNat, ByteProperties, SentProperties DEF PutData
    <1>4. PutOf(f) \in Unit /\ <<PutOf(f)>> \in Seq(Unit)
        BY <1>2, OneUnit, UnitKinds DEF Unit
    <1>5. c2s \o <<PutOf(f)>> \in Seq(Unit)
        BY <1>4, Types, ConcatProperties
    <1>6. (c2s \o <<PutOf(f)>>) \o PutData(f) \in Seq(Unit)
        BY <1>3, <1>5, DataOnly, ConcatProperties, UnitKinds
    <1> QED
        BY <1>1, <1>2, <1>3, <1>4, <1>5, <1>6

LEMMA HeaderSent == \A h \in Header, s \in Seq(Unit) : Append(s, h) \in Seq(Unit)
    BY AppendProperties DEF Unit

LEMMA TypeConsole ==
    ASSUME TypeOK, console
    PROVE  TypeOK'
    <1> USE DEF files, client, server, other
    <1>1. ASSUME NEW f \in File, comm_put(f)
          PROVE  TypeOK'
        <2>1. commands' \in 0 .. MaxCommand
            BY <1>1, CommandsType DEF comm_put, Typed
        <2>2. c2s' = (c2s \o <<PutOf(f)>>) \o PutData(f)
            BY <1>1 DEF comm_put, PutOf, PutData
        <2>3. c2s' \in Seq(Unit)
            BY <2>2, PutSends
        <2> QED
            BY <1>1, <2>1, <2>3 DEF comm_put, TypeOK, Unit
    <1>2. ASSUME NEW f \in File, comm_put_Missing(f)
          PROVE  TypeOK'
        <2>1. commands' \in 0 .. MaxCommand
            BY <1>2, CommandsType DEF comm_put_Missing, Typed
        <2>2. PICK size \in 0 .. Block : c2s' = Append(c2s, <<"PUT", f, size>>)
            BY <1>2 DEF comm_put_Missing
        <2>3. <<"PUT", f, size>> \in Header
            BY <2>2, BlockNat, MadeHeader
        <2>4. c2s' \in Seq(Unit)
            BY <2>2, <2>3, Types, HeaderSent
        <2> QED
            BY <1>2, <2>1, <2>4 DEF comm_put_Missing, TypeOK, Unit, ClientPC
    <1>3. ASSUME NEW f \in File, comm_get(f)
          PROVE  TypeOK'
        <2>1. commands' \in 0 .. MaxCommand
            BY <1>3, CommandsType DEF comm_get, Typed
        <2>2. <<"GET", f, 0>> \in Header
            BY MadeHeader
        <2>3. c2s' \in Seq(Unit)
            BY <1>3, <2>2, Types, HeaderSent DEF comm_get
        <2> QED
            BY <1>3, <2>1, <2>3 DEF comm_get, TypeOK, Unit, ClientPC
    <1>4. CASE comm_Broken
        <2>1. commands' \in 0 .. MaxCommand
            BY <1>4, CommandsType DEF comm_Broken, Typed
        <2> QED
            BY <1>4, <2>1 DEF comm_Broken, TypeOK, ClientPC
    <1>5. CASE Quit
        BY <1>5 DEF Quit, TypeOK, ClientPC
    <1> QED
        BY <1>1, <1>2, <1>3, <1>4, <1>5 DEF console

LEMMA TypeReceive ==
    ASSUME TypeOK, ToClient, Receive
    PROVE  TypeOK'
    <1> USE DEF files, client, server, other
    <1>1. CASE GetReset
        BY <1>1, EmptyData DEF GetReset, TypeOK, Unit, ClientPC
    <1>2. CASE GetHeader
        <2>1. CASE s2c # <<>> /\ IsHeader(Head(s2c)) /\ Command(Head(s2c)) = "GET"
            <3>1. Head(s2c) \in Unit /\ Tail(s2c) \in Seq(Unit)
                BY <2>1, Types, HeadProperties
            <3>2. FileName(Head(s2c)) \in File /\ DataSize(Head(s2c)) \in Nat
                BY <2>1, <3>1, UnitProperties, HeaderProperties
            <3>3. Fresh(DataSize(Head(s2c))) \in Seq(Byte)
                BY <3>2, ByteProperties, FreshProperties
            <3>4. /\ cpc' = "get" /\ cfile' = FileName(Head(s2c))
                  /\ cbuf' = Fresh(DataSize(Head(s2c)))
                  /\ ci' = 0 /\ s2c' = Tail(s2c)
                BY <1>2, <2>1 DEF GetHeader
            <3>5. cfile' \in File /\ cbuf' \in Seq(Byte) /\ s2c' \in Seq(Unit) /\ ci' \in Nat
                BY <3>1, <3>2, <3>3, <3>4
            <3>6. UNCHANGED <<files, c2s, server, commands, short, other>>
                BY <1>2 DEF GetHeader
            <3> QED
                BY <3>4, <3>5, <3>6 DEF TypeOK, Unit, ClientPC
        <2>2. CASE ~(s2c # <<>> /\ IsHeader(Head(s2c)) /\ Command(Head(s2c)) = "GET")
            BY <1>2, <2>2 DEF GetHeader, TypeOK, ClientPC
        <2> QED
            BY <2>1, <2>2
    <1>3. CASE PartOfHeader
        BY <1>3 DEF PartOfHeader, TypeOK, ClientPC
    <1>4. CASE GetBlock
        <2>1. PICK m \in Lengths(s2c, Block, ServerGone) :
                  /\ cbuf' = Stored(cbuf, ci, SubSeq(s2c, 1, m))
                  /\ s2c' = After(s2c, m)
                  /\ short' = (short \/ m < Block)
            BY <1>4 DEF GetBlock
        <2>2. ServerGone \in BOOLEAN
            BY DEF ServerGone
        <2>3. ci < Blocks(cbuf) /\ Continues("somehow", GetInHand, Place(ci), s2c, 0)
            BY <1>4 DEF GetBlock, ToClient, GetDone
        <2>4. m \in Nat /\ m <= Len(s2c) /\ cbuf' \in Seq(Byte)
            BY <2>1, <2>2, <2>3, Types, BlockTaken DEF GetInHand
        <2>5. s2c' \in Seq(Unit)
            BY <2>1, <2>4, Types, AfterProperties
        <2>6. ci' \in Nat
            BY <1>4, Types DEF GetBlock
        <2> QED
            BY <1>4, <2>1, <2>4, <2>5, <2>6 DEF GetBlock, TypeOK, Unit
    <1>5. CASE GetRest
        <2>1. PICK m \in Lengths(s2c, Rest(cbuf), ServerGone) :
                  /\ s2c' = After(s2c, m)
                  /\ short' = (short \/ m < Rest(cbuf))
                  /\ \/ /\ SaveFile("client", cfile, Stored(cbuf, ci - 1, SubSeq(s2c, 1, m)))
                        /\ cpc' = "console" /\ cbuf' = <<>> /\ ci' = 0
                     \/ /\ ci = 0 /\ m > 0
                        /\ cpc' = "undefined"
                        /\ UNCHANGED <<files, cbuf, ci>>
            BY <1>5 DEF GetRest
        <2>2. ServerGone \in BOOLEAN
            BY DEF ServerGone
        <2>3. ci = Blocks(cbuf) /\ Continues("somehow", GetInHand, Place(Blocks(cbuf)), s2c, 0)
            BY <1>5 DEF GetRest, ToClient, GetDone
        <2>4. m \in Nat /\ m <= Len(s2c) /\ Stored(cbuf, ci - 1, SubSeq(s2c, 1, m)) \in Seq(Byte)
            BY <2>1, <2>2, <2>3, Types, RestTaken DEF GetInHand
        <2>5. s2c' \in Seq(Unit)
            BY <2>1, <2>4, Types, AfterProperties
        <2>6. CASE SaveFile("client", cfile, Stored(cbuf, ci - 1, SubSeq(s2c, 1, m)))
                   /\ cpc' = "console" /\ cbuf' = <<>> /\ ci' = 0
            <3>1. stored' \in [Host -> SUBSET File] /\ disk' \in [Host -> [File -> Seq(Byte)]]
                BY <2>4, <2>6, Types, Hosts, SaveFileDoes
            <3> QED
                BY <1>5, <2>1, <2>5, <2>6, <3>1, EmptyData DEF GetRest, TypeOK, Unit, ClientPC
        <2>7. CASE cpc' = "undefined" /\ UNCHANGED <<files, cbuf, ci>>
            BY <1>5, <2>1, <2>5, <2>7 DEF GetRest, TypeOK, Unit, ClientPC
        <2> QED
            BY <2>1, <2>6, <2>7
    <1> QED
        BY <1>1, <1>2, <1>3, <1>4, <1>5 DEF Receive

LEMMA TypeHandler ==
    ASSUME TypeOK, ToServer, clithread
    PROVE  TypeOK'
    <1> USE DEF files, client, server, other
    <1>1. CASE get_handler
        <2> DEFINE f == FileName(Head(c2s))
        <2>1. Head(c2s) \in Unit /\ Tail(c2s) \in Seq(Unit)
            BY <1>1, Types, HeadProperties DEF get_handler, Request
        <2>2. f \in File
            BY <1>1, <2>1, UnitProperties, HeaderProperties DEF get_handler, Request
        <2>3. c2s' \in Seq(Unit)
            BY <1>1, <2>1 DEF get_handler
        <2> HIDE DEF f
        <2>4. CASE f \in stored["server"]
            <3>1. /\ s2c' = Append(s2c, <<"GET", f, Len(disk["server"][f])>>)
                  /\ spc' = "get" /\ sfile' = f /\ sbuf' = Fresh(Len(disk["server"][f]))
                BY <1>1, <2>4 DEF get_handler, f
            <3>2. Len(disk["server"][f]) \in Nat
                BY <2>2, DiskType, Hosts
            <3>3. s2c' \in Seq(Unit)
                BY <2>2, <3>1, <3>2, Types, MadeHeader, HeaderSent
            <3>4. sbuf' \in Seq(Byte)
                BY <3>1, <3>2, ByteProperties, FreshProperties
            <3>5. UNCHANGED <<files, client, si, rem_bytes, commands, other, short>>
                BY <1>1 DEF get_handler
            <3> QED
                BY <2>2, <2>3, <3>1, <3>3, <3>4, <3>5 DEF TypeOK, Unit, ServerPC
        <2>5. CASE f \notin stored["server"]
            <3>1. /\ s2c' = Append(s2c, <<"ERROR", f, 0>>)
                  /\ spc' = "closed" /\ UNCHANGED <<sfile, sbuf>>
                BY <1>1, <2>5 DEF get_handler, f
            <3>2. s2c' \in Seq(Unit)
                BY <2>2, <3>1, Types, MadeHeader, HeaderSent
            <3>3. UNCHANGED <<files, client, si, rem_bytes, commands, other, short>>
                BY <1>1 DEF get_handler
            <3> QED
                BY <2>3, <3>1, <3>2, <3>3 DEF TypeOK, Unit, ServerPC
        <2> QED
            BY <2>4, <2>5
    <1>2. CASE GetData
        <2>1. disk["server"][sfile] \in Seq(Byte)
            BY DiskType, Hosts, Types
        <2>2. Over(disk["server"][sfile], sbuf) \in Seq(Byte)
            BY <2>1, Types, OverProperties
        <2>3. Sent(Over(disk["server"][sfile], sbuf)) \in Seq(Unit)
            BY <2>2, BlockNat, ByteProperties, SentProperties, DataOnly, UnitKinds
        <2>4. s2c' \in Seq(Unit)
            BY <1>2, <2>3, Types, ConcatProperties DEF GetData
        <2> QED
            BY <1>2, <2>4, EmptyData DEF GetData, TypeOK, Unit, ServerPC
    <1>3. CASE put_handler
        <2>1. Head(c2s) \in Unit /\ Tail(c2s) \in Seq(Unit)
            BY <1>3, Types, HeadProperties DEF put_handler, Request
        <2>2. FileName(Head(c2s)) \in File /\ DataSize(Head(c2s)) \in Nat
            BY <1>3, <2>1, UnitProperties, HeaderProperties DEF put_handler, Request
        <2>3. Fresh(DataSize(Head(c2s))) \in Seq(Byte)
            BY <2>2, ByteProperties, FreshProperties
        <2>4. stored' \in [Host -> SUBSET File] /\ disk' \in [Host -> [File -> Seq(Byte)]]
            BY <1>3, <2>2, Hosts, EmptyData, SaveFileDoes DEF put_handler
        <2> QED
            BY <1>3, <2>1, <2>2, <2>3, <2>4 DEF put_handler, TypeOK, Unit, ServerPC
    <1>4. CASE put_handler_Fails
        <2>1. Head(c2s) \in Unit /\ Tail(c2s) \in Seq(Unit)
            BY <1>4, Types, HeadProperties DEF put_handler_Fails, Request
        <2>2. FileName(Head(c2s)) \in File
            BY <1>4, <2>1, UnitProperties, HeaderProperties DEF put_handler_Fails, Request
        <2>3. s2c' \in Seq(Unit)
            BY <1>4, <2>2, Types, MadeHeader, HeaderSent DEF put_handler_Fails
        <2> QED
            BY <1>4, <2>1, <2>3 DEF put_handler_Fails, TypeOK, Unit, ServerPC
    <1>5. CASE PutBlock
        <2>1. PICK m \in Lengths(c2s, Block, ClientGone) :
                  /\ sbuf' = Stored(sbuf, si, SubSeq(c2s, 1, m))
                  /\ c2s' = After(c2s, m)
                  /\ short' = (short \/ m < Block)
            BY <1>5 DEF PutBlock
        <2>2. ClientGone \in BOOLEAN
            BY DEF ClientGone
        <2>3. si < Blocks(sbuf) /\ Continues("somehow", PutInHand, Place(si), c2s, 0)
            BY <1>5 DEF PutBlock, ToServer, PutDone
        <2>4. m \in Nat /\ m <= Len(c2s) /\ sbuf' \in Seq(Byte)
            BY <2>1, <2>2, <2>3, Types, BlockTaken DEF PutInHand
        <2>5. c2s' \in Seq(Unit)
            BY <2>1, <2>4, Types, AfterProperties
        <2>6. si' \in Nat
            BY <1>5, Types DEF PutBlock
        <2> QED
            BY <1>5, <2>1, <2>4, <2>5, <2>6 DEF PutBlock, TypeOK, Unit
    <1>6. CASE PutRemBytes
        BY <1>6 DEF PutRemBytes, TypeOK, ServerPC
    <1>7. CASE PutRest
        <2>0. /\ UNCHANGED <<s2c, client, sfile, commands, opened, short>>
              /\ spc = "rest" /\ si = Blocks(sbuf)
              /\ 0 \in 1 - Block .. Block - 1
            BY <1>7, BlockNat DEF PutRest, ToServer
        <2>1. ASSUME NEW m \in Lengths(c2s, rem_bytes, ClientGone), rem_bytes >= 0,
                     ~MeetsHeader(c2s, m), c2s' = After(c2s, m),
                     WriteFile(sfile, Stored(sbuf, si - 1, SubSeq(c2s, 1, m))),
                     spc' = "command", sbuf' = <<>>, si' = 0, rem_bytes' = 0
              PROVE  TypeOK'
            <3>1. ClientGone \in BOOLEAN /\ rem_bytes \in Nat
                BY <2>1, Types DEF ClientGone
            <3>2. m \in Nat /\ m <= Len(c2s) /\ Stored(sbuf, si - 1, SubSeq(c2s, 1, m)) \in Seq(Byte)
                BY <2>0, <2>1, <3>1, Types, BytesReceived, UnitKinds, BlockNat
            <3>3. c2s' \in Seq(Unit)
                BY <2>1, <3>2, Types, AfterProperties
            <3>4. stored' \in [Host -> SUBSET File] /\ disk' \in [Host -> [File -> Seq(Byte)]]
                  /\ raced' \in BOOLEAN
                BY <2>1, <3>2, Types, WriteFileDoes
            <3> QED
                BY <2>0, <2>1, <3>3, <3>4, EmptyData DEF TypeOK, Unit, ServerPC
        <2>2. ASSUME NEW m \in Lengths(c2s, rem_bytes, ClientGone), rem_bytes >= 0,
                     c2s' = After(c2s, m), spc' = "undefined",
                     UNCHANGED <<files, raced, sbuf, si, rem_bytes>>
              PROVE  TypeOK'
            <3>1. ClientGone \in BOOLEAN /\ rem_bytes \in Nat
                BY <2>2, Types DEF ClientGone
            <3>2. m \in Nat /\ m <= Len(c2s)
                BY <3>1, Types, LengthsProperties
            <3>3. c2s' \in Seq(Unit)
                BY <2>2, <3>2, Types, AfterProperties
            <3> QED
                BY <2>0, <2>2, <3>3 DEF TypeOK, Unit, ServerPC
        <2>3. ASSUME spc' \in {"undefined", "closed"},
                     UNCHANGED <<files, raced, c2s, sbuf, si, rem_bytes>>
              PROVE  TypeOK'
            BY <2>0, <2>3 DEF TypeOK, ServerPC
        <2>4. ASSUME WriteFile(sfile, sbuf), UNCHANGED c2s,
                     spc' = "command", sbuf' = <<>>, si' = 0, rem_bytes' = 0
              PROVE  TypeOK'
            <3>1. stored' \in [Host -> SUBSET File] /\ disk' \in [Host -> [File -> Seq(Byte)]]
                  /\ raced' \in BOOLEAN
                BY <2>4, Types, WriteFileDoes
            <3> QED
                BY <2>0, <2>4, <3>1, EmptyData DEF TypeOK, Unit, ServerPC
        <2> QED
            BY <1>7, <2>1, <2>2, <2>3, <2>4 DEF PutRest
    <1>8. CASE PartOfCommand
        BY <1>8 DEF PartOfCommand, TypeOK, ServerPC
    <1>9. CASE Garbled
        BY <1>9 DEF Garbled, TypeOK, ServerPC
    <1>10. CASE Reset
        BY <1>10, EmptyData DEF Reset, TypeOK, Unit, ServerPC
    <1>11. CASE Close
        BY <1>11 DEF Close, TypeOK, ServerPC
    <1> QED
        BY <1>1, <1>2, <1>3, <1>4, <1>5, <1>6, <1>7, <1>8, <1>9, <1>10, <1>11 DEF clithread

LEMMA OriginalBlocks ==
    ASSUME NEW f \in File
    PROVE  /\ Original(f) \in Seq(Byte) /\ OtherCopy(f) \in Seq(Byte)
           /\ Whole(f, OtherCopy(f), Place(Blocks(OtherCopy(f))))
           /\ Whole(f, Original(f), Place(Blocks(Original(f))))
    <1> DEFINE data == Original(f)
    <1>1. Size[f] \in Nat
        BY TransferAssumption
    <1>2. data \in [1 .. Size[f] -> Byte] /\ \A k \in 1 .. Size[f] : data[k] = <<f, k>>
        BY <1>1 DEF Original, Byte
    <1> HIDE DEF data
    <1>3. data \in Seq(Byte) /\ Len(data) = Size[f]
        BY <1>1, <1>2, FunctionIsSeq
    <1>4. Place(Blocks(data)) \in Nat /\ Place(Blocks(data)) <= Len(data)
        BY <1>3, BlocksOf, BlockNat
    <1>5. \A k \in 1 .. Place(Blocks(data)) : data[k] = <<f, k>>
        BY <1>2, <1>3, <1>4
    <1> DEFINE copy == OtherCopy(f)
    <1>6. /\ copy \in [1 .. Size[f] -> Byte]
          /\ \A k \in 1 .. Place(Blocks(data)) : copy[k] = <<f, k>>
        <2> DEFINE n == Place(Blocks(data))
        <2>1. copy = [k \in 1 .. Size[f] |-> IF k <= n THEN <<f, k>> ELSE Junk]
            BY DEF OtherCopy, Place, data
        <2>2. n \in Nat /\ n <= Size[f]
            BY <1>3, <1>4
        <2> HIDE DEF n, copy
        <2>3. \A k \in 1 .. Size[f] : <<f, k>> \in Byte
            BY <1>1 DEF Byte
        <2>4. copy \in [1 .. Size[f] -> Byte]
            BY <2>1, <2>3 DEF Byte
        <2>5. \A k \in 1 .. n : copy[k] = <<f, k>>
            BY <1>1, <2>1, <2>2
        <2> QED
            BY <2>4, <2>5 DEF n
    <1> HIDE DEF copy
    <1>7. copy \in Seq(Byte) /\ Blocks(copy) = Blocks(data)
        <2>1. copy \in Seq(Byte) /\ Len(copy) = Len(data)
            BY <1>1, <1>3, <1>6, FunctionIsSeq
        <2> QED
            BY <2>1 DEF Blocks
    <1> QED
        BY <1>3, <1>5, <1>6, <1>7 DEF Whole, data, copy

LEMMA TypeStep ==
    ASSUME TypeOK, ToServer, ToClient, [Next]_vars
    PROVE  TypeOK'
    <1> USE DEF files, client, server, other
    <1>1. CASE ServerEnds
        BY <1>1 DEF ServerEnds, TypeOK, ServerPC
    <1>2. ASSUME NEW f \in File, OtherOpen(f)
          PROVE  TypeOK'
        <2>1. commands' \in 0 .. MaxCommand
            BY <1>2, CommandsType DEF OtherOpen
        <2>2. stored' \in [Host -> SUBSET File] /\ disk' \in [Host -> [File -> Seq(Byte)]]
            BY <1>2, Hosts, EmptyData, SaveFileDoes DEF OtherOpen
        <2>3. raced' \in BOOLEAN
            BY <1>2 DEF OtherOpen, TypeOK
        <2> QED
            BY <1>2, <2>1, <2>2, <2>3 DEF OtherOpen, TypeOK
    <1>3. ASSUME NEW f \in File, OtherWrite(f)
          PROVE  TypeOK'
        <2>1. stored' \in [Host -> SUBSET File] /\ disk' \in [Host -> [File -> Seq(Byte)]]
              /\ raced' \in BOOLEAN
            BY <1>3, OriginalBlocks, WriteFileDoes DEF OtherWrite
        <2> QED
            BY <1>3, <2>1 DEF OtherWrite, TypeOK
    <1>4. CASE UNCHANGED vars
        BY <1>4 DEF vars, TypeOK
    <1> QED
        BY <1>1, <1>2, <1>3, <1>4, TypeConsole, TypeReceive, TypeHandler DEF Next

(***************************************************************************)
(* To the server: the data of every header is in front of the next one.    *)
(***************************************************************************)
\* What follows data that is all there does not disturb it.
LEMMA FrameFollows ==
    ASSUME NEW how, NEW g, DataSize(g) \in Nat, NEW from \in Nat, NEW s \in Seq(Unit),
           Continues(how, g, from, s, 0), DataSize(g) <= from + Len(s),
           NEW h \in Header, NEW t \in Seq(Byte)
    PROVE  /\ Continues(how, g, from, s \o <<h>>, 0)
           /\ Continues(how, g, from, (s \o <<h>>) \o t, 0)
    <1> DEFINE a == s \o <<h>>
    <1>1. h \in Unit /\ IsHeader(h) /\ <<h>> \in Seq(Unit) /\ Len(<<h>>) = 1 /\ <<h>>[1] = h
        BY HeaderProperties, OneUnit, UnitKinds DEF Unit
    <1>2. a \in Seq(Unit) /\ Len(a) = Len(s) + 1 /\ Len(s) \in Nat /\ t \in Seq(Unit) /\ Len(t) \in Nat
        BY <1>1, ConcatProperties, InStream, DataOnly, UnitKinds
    <1> HIDE DEF a
    <1>3. ASSUME NEW j \in 1 .. Len(<<h>>), (Len(s) - 0) + j <= DataSize(g) + 1 - from
          PROVE  Follows(how, g, from + ((Len(s) - 0) + j), <<h>>[j])
        <2>1. j = 1
            BY <1>1
        <2>2. from + ((Len(s) - 0) + 1) > DataSize(g) /\ ~(from + ((Len(s) - 0) + 1) <= DataSize(g))
            BY <1>2
        <2> QED
            BY <1>1, <2>1, <2>2 DEF Follows
    <1>4. 0 \in Nat /\ 0 <= Len(s) /\ 0 <= Len(a)
        BY <1>2
    <1>5. Continues(how, g, from, a, 0)
        BY <1>1, <1>3, <1>4, ContinuesConcat DEF a
    <1>6. ASSUME NEW j \in 1 .. Len(t), (Len(a) - 0) + j <= DataSize(g) + 1 - from
          PROVE  FALSE
        BY <1>2, <1>6
    <1>7. Continues(how, g, from, a \o t, 0)
        BY <1>2, <1>4, <1>5, <1>6, ContinuesConcat
    <1> QED
        BY <1>5, <1>7 DEF a

LEMMA SentToServer ==
    ASSUME TypeOK, ToServer, ~ClientGone, NEW h \in Header, NEW t \in Seq(Byte),
           c2s' = (c2s \o <<h>>) \o t, UNCHANGED <<spc, sfile, sbuf, si>>,
           ~ClientGone' => DataSize(h) = Len(t)
    PROVE  ToServer'
    <1> DEFINE a == Append(c2s, h)
    <1>1. Frames("somehow", c2s) /\ Complete(c2s, 0)
        BY DEF ToServer
    <1>2. a \in Seq(Unit) /\ a = c2s \o <<h>> /\ Frames("somehow", a) /\ Complete(a, DataSize(h))
          /\ Len(a) = Len(c2s) + 1
        <2>1. h \in Unit
            BY DEF Unit
        <2> QED
            BY <1>1, <2>1, Types, HeaderAppended, AppendProperties, UnitKinds
    <1> HIDE DEF a
    <1>3. Frames("somehow", c2s') /\ (Complete(a, Len(t)) => Complete(c2s', 0))
          /\ Len(c2s') = Len(a) + Len(t) /\ Len(t) \in Nat
        <2>1. /\ a \o t \in Seq(Unit) /\ Len(a \o t) = Len(a) + Len(t)
              /\ Frames("somehow", a \o t)
              /\ Complete(a, Len(t)) => Complete(a \o t, 0)
            BY <1>2, DataPut
        <2> QED
            BY <1>2, <2>1, LenProperties
    <1>4. ~ClientGone' => Complete(c2s', 0)
        BY <1>2, <1>3
    <1>5. ASSUME spc \in {"put", "rest"}
          PROVE  /\ Continues("somehow", PutInHand, PutDone, c2s', 0)
                 /\ Len(sbuf) <= PutDone + Len(c2s')
        <2>1. Continues("somehow", PutInHand, PutDone, c2s, 0) /\ Len(sbuf) <= PutDone + Len(c2s)
            BY <1>5 DEF ToServer
        <2>2. DataSize(PutInHand) = Len(sbuf) /\ PutDone \in Nat
            BY Types DEF PutInHand, DataSize, PutDone
        <2>3. Continues("somehow", PutInHand, PutDone, c2s', 0)
            BY <2>1, <2>2, Types, FrameFollows
        <2> QED
            BY <2>1, <2>2, <2>3, <1>2, <1>3, Types
    <1>6. PutInHand' = PutInHand /\ PutDone' = PutDone
        BY DEF PutInHand, PutDone
    <1> QED
        BY <1>3, <1>4, <1>5, <1>6 DEF ToServer

\* Nothing was put into the stream, and the handler has nothing in hand.
LEMMA TakenByServer ==
    ASSUME TypeOK, ToServer, NEW m \in Nat, m <= Len(c2s), c2s' = After(c2s, m),
           ClientGone' = ClientGone, spc' \notin {"put", "rest"}
    PROVE  ToServer'
    <1>1. Frames("somehow", c2s')
        BY Types, FramesAfter, UnitKinds DEF ToServer
    <1>2. ~ClientGone => Complete(c2s', 0)
        BY Types, CompleteAfter, UnitKinds DEF ToServer
    <1> QED
        BY <1>1, <1>2 DEF ToServer

LEMMA NothingForServer ==
    ASSUME ToServer, UNCHANGED <<c2s, spc, sfile, sbuf, si>>, ~ClientGone' => ~ClientGone
    PROVE  ToServer'
    BY DEF ToServer, PutInHand, PutDone

LEMMA ToServerInit == Init => ToServer
    <1>1. Frames("somehow", <<>>) /\ Complete(<<>>, 0)
        BY EmptyData, DataOnly, UnitKinds DEF Complete
    <1> QED
        BY <1>1 DEF Init, ToServer

\* What a header that is received announces is there.
LEMMA HeaderTaken ==
    ASSUME NEW how, NEW s \in Seq(Unit), s # <<>>, IsHeader(Head(s)), Frames(how, s)
    PROVE  /\ Head(s) \in Header
           /\ Head(s) = <<Command(Head(s)), FileName(Head(s)), DataSize(Head(s))>>
           /\ FileName(Head(s)) \in File /\ DataSize(Head(s)) \in Nat
           /\ Tail(s) = After(s, 1) /\ 1 <= Len(s) /\ Len(Tail(s)) = Len(s) - 1
           /\ Continues(how, Head(s), 0, Tail(s), 0)
           /\ \A owed \in Nat : Complete(s, owed) => DataSize(Head(s)) <= Len(Tail(s)) + owed
    <1>1. /\ Len(s) \in Nat /\ 1 <= Len(s) /\ 1 \in 1 .. Len(s)
          /\ Head(s) = s[1] /\ Head(s) \in Unit
          /\ Tail(s) = After(s, 1) /\ Len(Tail(s)) = Len(s) - 1
        BY HeadProperties
    <1>2. /\ Head(s) \in Header
          /\ Head(s) = <<Command(Head(s)), FileName(Head(s)), DataSize(Head(s))>>
          /\ FileName(Head(s)) \in File /\ DataSize(Head(s)) \in Nat
        BY <1>1, UnitProperties, HeaderProperties
    <1>3. Continues(how, Head(s), 0, s, 1)
        BY <1>1 DEF Frames
    <1>4. 1 + 0 = 1 /\ 0 \in Nat /\ 1 \in Nat
        OBVIOUS
    <1>5. Continues(how, Head(s), 0, s, 1 + 0)
        BY <1>3, <1>4
    <1>6. Continues(how, Head(s), 0, Tail(s), 0)
        BY <1>1, <1>2, <1>4, <1>5, ContinuesAfter
    <1>7. ASSUME NEW owed \in Nat, Complete(s, owed)
          PROVE  DataSize(Head(s)) <= Len(Tail(s)) + owed
        <2>1. 1 + DataSize(Head(s)) <= Len(s) + owed
            BY <1>1, <1>7 DEF Complete
        <2> QED
            BY <1>1, <1>2, <2>1
    <1> QED
        BY <1>1, <1>2, <1>6, <1>7

LEMMA ToServerHandler ==
    ASSUME TypeOK, ToServer, clithread
    PROVE  ToServer'
    <1> USE DEF files, client, server, other
    <1>1. /\ c2s \in Seq(Unit) /\ Frames("somehow", c2s) /\ (~ClientGone => Complete(c2s, 0))
        BY Types DEF ToServer
    <1>2. ASSUME NEW command, Request(command)
          PROVE  c2s # <<>> /\ IsHeader(Head(c2s)) /\ Command(Head(c2s)) = command /\ spc = "command"
                 /\ 1 \in Nat /\ 1 <= Len(c2s) /\ Tail(c2s) = After(c2s, 1)
        BY <1>1, <1>2, HeadProperties DEF Request
    <1>3. CASE get_handler
        <2>1. c2s' = Tail(c2s) /\ spc' \in {"get", "closed"} /\ Request("GET")
            BY <1>3 DEF get_handler
        <2>2. ClientGone' = ClientGone
            BY <1>3 DEF get_handler, ClientGone
        <2> QED
            BY <1>2, <2>1, <2>2, TakenByServer
    <1>4. CASE GetData
        BY <1>4, <1>1 DEF GetData, ClientGone, ToServer
    <1>5. CASE put_handler
        <2>1. /\ Request("PUT") /\ c2s' = Tail(c2s) /\ spc' = "put" /\ si' = 0
              /\ sfile' = FileName(Head(c2s)) /\ sbuf' = Fresh(DataSize(Head(c2s)))
            BY <1>5 DEF put_handler
        <2>2. ClientGone' = ClientGone
            BY <1>5 DEF put_handler, ClientGone
        <2>3. /\ DataSize(Head(c2s)) \in Nat
              /\ Head(c2s) = <<"PUT", FileName(Head(c2s)), DataSize(Head(c2s))>>
              /\ Continues("somehow", Head(c2s), 0, Tail(c2s), 0)
              /\ ~ClientGone => DataSize(Head(c2s)) <= Len(Tail(c2s)) + 0
              /\ Len(Tail(c2s)) \in Nat
            <3>1. c2s # <<>> /\ IsHeader(Head(c2s)) /\ Command(Head(c2s)) = "PUT"
                BY <1>2, <2>1
            <3>2. 0 \in Nat
                OBVIOUS
            <3> QED
                BY <1>1, <3>1, <3>2, HeaderTaken, HeadProperties, LenProperties
        <2>4. sbuf' \in Seq(Byte) /\ Len(sbuf') = DataSize(Head(c2s))
            BY <2>1, <2>3, ByteProperties, FreshProperties
        <2>5. PutInHand' = Head(c2s) /\ PutDone' = 0
            BY <2>1, <2>3, <2>4, EmptyData DEF PutInHand, PutDone
        <2>6. Frames("somehow", c2s') /\ (~ClientGone' => Complete(c2s', 0))
            <3>1. 1 \in Nat /\ 0 \in Nat /\ 1 <= Len(c2s) /\ c2s' = After(c2s, 1)
                BY <1>2, <2>1
            <3> QED
                BY <1>1, <2>2, <3>1, FramesAfter, CompleteAfter, UnitKinds
        <2>7. si' <= Blocks(sbuf')
            BY <2>1, <2>4, BlocksOf, BlockNat
        <2>8. ~ClientGone' => Len(sbuf') <= PutDone' + Len(c2s')
            BY <2>1, <2>2, <2>3, <2>4, <2>5
        <2> QED
            BY <2>1, <2>3, <2>5, <2>6, <2>7, <2>8 DEF ToServer
    <1>6. CASE put_handler_Fails
        <2>1. c2s' = Tail(c2s) /\ spc' = "closed" /\ Request("PUT")
            BY <1>6 DEF put_handler_Fails
        <2>2. ClientGone' = ClientGone
            BY <1>6 DEF put_handler_Fails, ClientGone
        <2> QED
            BY <1>2, <2>1, <2>2, TakenByServer
    <1>7. CASE PutBlock
        <2>1. PICK m \in Lengths(c2s, Block, ClientGone) :
                  /\ sbuf' = Stored(sbuf, si, SubSeq(c2s, 1, m))
                  /\ c2s' = After(c2s, m)
                  /\ short' = (short \/ m < Block)
            BY <1>7 DEF PutBlock
        <2>2. ClientGone \in BOOLEAN /\ ClientGone' = ClientGone
              /\ spc = "put" /\ spc' = spc /\ si' = si + 1 /\ sfile' = sfile
            BY <1>7 DEF PutBlock, ClientGone
        <2>3. /\ si < Blocks(sbuf) /\ Continues("somehow", PutInHand, Place(si), c2s, 0)
              /\ ~ClientGone => Len(sbuf) <= Place(si) + Len(c2s)
            BY <1>7 DEF PutBlock, ToServer, PutDone
        <2>4. /\ m \in Nat /\ m <= Block /\ m <= Len(c2s)
              /\ Len(sbuf') = Len(sbuf) /\ Blocks(sbuf') = Blocks(sbuf)
              /\ si' <= Blocks(sbuf') /\ Place(si') = Place(si) + Block
              /\ Continues("somehow", PutInHand, Place(si'), c2s', 0)
            BY <2>1, <2>2, <2>3, Types, BlockTaken DEF PutInHand
        <2>5. Len(c2s') = Len(c2s) - m /\ Frames("somehow", c2s') /\ (~ClientGone' => Complete(c2s', 0))
            <3>1. 0 \in Nat
                OBVIOUS
            <3>2. Len(c2s') = Len(c2s) - m
                BY <1>1, <2>1, <2>4, AfterProperties
            <3>3. Frames("somehow", c2s')
                BY <1>1, <2>1, <2>4, FramesAfter, UnitKinds
            <3>4. ~ClientGone' => Complete(c2s', 0)
                BY <1>1, <2>1, <2>2, <2>4, <3>1, CompleteAfter, UnitKinds
            <3> QED
                BY <3>2, <3>3, <3>4
        <2>6. PutInHand' = PutInHand /\ PutDone' = Place(si')
            BY <2>2, <2>4 DEF PutInHand, PutDone
        <2>7. ~ClientGone' => Len(sbuf') <= PutDone' + Len(c2s')
            <3>1. /\ m \in Nat /\ Block \in Nat /\ m <= Block
                  /\ Len(c2s) \in Nat /\ Len(sbuf) \in Nat /\ Place(si) \in Nat
                BY <2>4, Types, BlockNat
            <3>2. /\ Len(sbuf') = Len(sbuf) /\ PutDone' = Place(si) + Block /\ Len(c2s') = Len(c2s) - m
                  /\ ~ClientGone' => Len(sbuf) <= Place(si) + Len(c2s)
                BY <2>2, <2>3, <2>4, <2>5, <2>6
            <3> QED
                BY <3>1, <3>2
        <2> QED
            BY <2>2, <2>4, <2>5, <2>6, <2>7 DEF ToServer
    <1>8. CASE PutRemBytes
        <2>1. /\ spc = "put" /\ spc' = "rest" /\ si = Blocks(sbuf)
              /\ UNCHANGED <<c2s, sfile, sbuf, si>> /\ ClientGone' = ClientGone
            BY <1>8 DEF PutRemBytes, ClientGone
        <2>2. PutInHand' = PutInHand /\ PutDone' = PutDone
            BY <2>1 DEF PutInHand, PutDone
        <2> QED
            BY <2>1, <2>2 DEF ToServer
    <1>9. CASE PutRest
        <2>1. ClientGone' = ClientGone /\ ClientGone \in BOOLEAN
              /\ spc' \in {"command", "undefined", "closed"}
            BY <1>9 DEF PutRest, ClientGone
        <2>2. CASE \E m \in Lengths(c2s, rem_bytes, ClientGone) : rem_bytes >= 0 /\ c2s' = After(c2s, m)
            <3>1. PICK m \in Lengths(c2s, rem_bytes, ClientGone) : rem_bytes >= 0 /\ c2s' = After(c2s, m)
                BY <2>2
            <3>2. rem_bytes \in Nat
                BY <3>1, Types
            <3>3. m \in Nat /\ m <= Len(c2s)
                BY <2>1, <3>2, Types, LengthsProperties
            <3> QED
                BY <2>1, <3>1, <3>3, TakenByServer
        <2>3. CASE c2s' = c2s
            BY <1>1, <2>1, <2>3 DEF ToServer
        <2> QED
            BY <1>9, <2>2, <2>3 DEF PutRest
    <1>10. CASE PartOfCommand \/ Garbled \/ Close
        <2>1. c2s' = c2s /\ spc' \in {"undefined", "closed"} /\ ClientGone' = ClientGone
            BY <1>10 DEF PartOfCommand, Garbled, Close, ClientGone
        <2> QED
            BY <1>1, <2>1 DEF ToServer
    <1>11. CASE Reset
        <2>1. c2s' = <<>> /\ spc' = "closed"
            BY <1>11 DEF Reset
        <2>2. Frames("somehow", <<>>) /\ Complete(<<>>, 0)
            BY EmptyData, DataOnly, UnitKinds DEF Complete
        <2> QED
            BY <2>1, <2>2 DEF ToServer
    <1> QED
        BY <1>3, <1>4, <1>5, <1>6, <1>7, <1>8, <1>9, <1>10, <1>11 DEF clithread

LEMMA ToServerStep ==
    ASSUME TypeOK, ToServer, [Next]_vars
    PROVE  ToServer'
    <1> USE DEF files, client, server, other
    <1>1. ASSUME NEW f \in File, comm_put(f)
          PROVE  ToServer'
        <2>1. c2s' = (c2s \o <<PutOf(f)>>) \o PutData(f) /\ UNCHANGED <<spc, sfile, sbuf, si>>
            BY <1>1 DEF comm_put, PutOf, PutData
        <2>2. ~ClientGone
            BY <1>1 DEF comm_put, Typed, ClientGone
        <2> QED
            BY <2>1, <2>2, PutSends, SentToServer
    <1>2. ASSUME NEW h \in Header, c2s' = Append(c2s, h), UNCHANGED <<spc, sfile, sbuf, si>>,
                 cpc = "console", ClientGone' \/ DataSize(h) = 0
          PROVE  ToServer'
        <2>1. c2s' = (c2s \o <<h>>) \o <<>>
            <3>1. h \in Unit
                BY DEF Unit
            <3>2. c2s' = c2s \o <<h>> /\ c2s' \in Seq(Unit)
                BY <1>2, <3>1, Types, AppendIsConcat, AppendProperties
            <3> QED
                BY <3>2, ConcatEmptySeq
        <2>2. ~ClientGone
            BY <1>2 DEF ClientGone
        <2> QED
            BY <1>2, <2>1, <2>2, EmptyData, SentToServer
    <1>3. ASSUME NEW f \in File, comm_put_Missing(f)
          PROVE  ToServer'
        <2>1. PICK size \in 0 .. Block : c2s' = Append(c2s, <<"PUT", f, size>>)
            BY <1>3 DEF comm_put_Missing
        <2>2. <<"PUT", f, size>> \in Header
            BY <2>1, BlockNat, MadeHeader
        <2>3. UNCHANGED <<spc, sfile, sbuf, si>> /\ cpc = "console" /\ ClientGone'
            BY <1>3 DEF comm_put_Missing, Typed, ClientGone
        <2> QED
            BY <1>2, <2>1, <2>2, <2>3
    <1>4. ASSUME NEW f \in File, comm_get(f)
          PROVE  ToServer'
        <2>1. <<"GET", f, 0>> \in Header /\ DataSize(<<"GET", f, 0>>) = 0
            BY MadeHeader
        <2>2. c2s' = Append(c2s, <<"GET", f, 0>>)
              /\ UNCHANGED <<spc, sfile, sbuf, si>> /\ cpc = "console"
            BY <1>4 DEF comm_get, Typed
        <2> QED
            BY <1>2, <2>1, <2>2
    <1>5. CASE comm_Broken \/ Quit
        <2>1. UNCHANGED <<c2s, spc, sfile, sbuf, si>> /\ ~ClientGone
            BY <1>5 DEF comm_Broken, Quit, Typed, ClientGone
        <2> QED
            BY <2>1, NothingForServer
    <1>6. CASE Receive
        <2>1. UNCHANGED <<c2s, spc, sfile, sbuf, si>> /\ ~ClientGone
            BY <1>6 DEF Receive, GetReset, GetHeader, PartOfHeader, GetBlock, GetRest, ClientGone
        <2> QED
            BY <2>1, NothingForServer
    <1>7. CASE ServerEnds
        <2>1. UNCHANGED <<c2s, cpc, sfile, sbuf, si>> /\ spc' = "dead"
            BY <1>7 DEF ServerEnds
        <2> QED
            BY <2>1 DEF ToServer, ClientGone
    <1>8. ASSUME NEW f \in File, OtherOpen(f) \/ OtherWrite(f)
          PROVE  ToServer'
        <2>1. UNCHANGED <<c2s, cpc, spc, sfile, sbuf, si>>
            BY <1>8 DEF OtherOpen, OtherWrite
        <2> QED
            BY <2>1, NothingForServer DEF ClientGone
    <1>9. CASE UNCHANGED vars
        <2>1. UNCHANGED <<c2s, cpc, spc, sfile, sbuf, si>>
            BY <1>9 DEF vars
        <2> QED
            BY <2>1, NothingForServer DEF ClientGone
    <1> QED
        BY <1>1, <1>3, <1>4, <1>5, <1>6, <1>7, <1>8, <1>9, ToServerHandler DEF Next, console

(***************************************************************************)
(* To the client: but for what get_handler owes, the data of every header  *)
(* is in front of the next one.                                            *)
(***************************************************************************)
Serving == spc \in {"command", "get", "put", "rest"}

LEMMA NothingForClient ==
    ASSUME ToClient, UNCHANGED <<s2c, cfile, cbuf, ci>>, cpc' = "get" => cpc = "get",
           Owed' = Owed, Serving' => Serving
    PROVE  ToClient'
    BY DEF ToClient, GetInHand, GetDone, Serving

LEMMA TakenByClient ==
    ASSUME TypeOK, ToClient, NEW m \in Nat, m <= Len(s2c), s2c' = After(s2c, m),
           spc' = spc, sbuf' = sbuf, cpc' # "get"
    PROVE  ToClient'
    <1>1. Frames("somehow", s2c')
        BY Types, FramesAfter, UnitKinds DEF ToClient
    <1>2. Owed' = Owed
        BY DEF Owed
    <1>3. Serving => Complete(s2c', Owed)
        BY Types, CompleteAfter, UnitKinds DEF ToClient, Serving
    <1> QED
        BY <1>1, <1>2, <1>3 DEF ToClient, Serving

\* The response to a get, or an error response.
LEMMA SentToClient ==
    ASSUME TypeOK, ToClient, spc = "command", NEW h \in Header, s2c' = Append(s2c, h),
           UNCHANGED <<cpc, cfile, cbuf, ci>>,
           Owed' \in Nat, spc' # "closed" => Owed' = DataSize(h)
    PROVE  ToClient'
    <1>1. Frames("somehow", s2c) /\ Complete(s2c, 0) /\ Owed = 0
          /\ (cpc = "get" => Len(cbuf) <= GetDone + Len(s2c) + Owed)
        BY DEF ToClient, Owed
    <1>2. h \in Unit /\ DataSize(h) \in Nat
        BY HeaderProperties DEF Unit
    <1>3. /\ s2c' = s2c \o <<h>> /\ s2c' \in Seq(Unit) /\ Len(s2c') = Len(s2c) + 1
          /\ Frames("somehow", s2c') /\ Complete(s2c', DataSize(h))
        BY <1>1, <1>2, Types, HeaderAppended, AppendProperties, UnitKinds
    <1>4. ASSUME cpc = "get"
          PROVE  /\ ci <= Blocks(cbuf)
                 /\ Continues("somehow", GetInHand, GetDone, s2c', 0)
                 /\ Len(cbuf) <= GetDone + Len(s2c') + Owed'
        <2>1. /\ ci <= Blocks(cbuf) /\ Continues("somehow", GetInHand, GetDone, s2c, 0)
              /\ Len(cbuf) <= GetDone + Len(s2c)
            BY <1>1, <1>4, Types DEF ToClient, GetDone
        <2>2. DataSize(GetInHand) = Len(cbuf) /\ GetDone \in Nat
            BY Types DEF GetInHand, DataSize, GetDone
        <2>3. Continues("somehow", GetInHand, GetDone, s2c', 0)
            BY <1>3, <2>1, <2>2, Types, EmptyData, FrameFollows
        <2>4. Len(cbuf) <= GetDone + Len(s2c') + Owed'
            <3>1. /\ Len(cbuf) \in Nat /\ GetDone \in Nat /\ Len(s2c) \in Nat
                  /\ Len(cbuf) <= GetDone + Len(s2c) /\ Len(s2c') = Len(s2c) + 1
                BY <1>3, <2>1, <2>2, Types
            <3> QED
                BY <3>1
        <2> QED
            BY <2>1, <2>3, <2>4
    <1>5. GetInHand' = GetInHand /\ GetDone' = GetDone
        BY DEF GetInHand, GetDone
    <1> QED
        BY <1>3, <1>4, <1>5 DEF ToClient

LEMMA ToClientInit == Init => ToClient
    <1>1. Frames("somehow", <<>>) /\ Complete(<<>>, 0)
        BY EmptyData, DataOnly, UnitKinds DEF Complete
    <1> QED
        BY <1>1 DEF Init, ToClient, Owed

LEMMA ToClientReceive ==
    ASSUME TypeOK, ToClient, Receive
    PROVE  ToClient'
    <1> USE DEF files, client, server, other
    <1>1. CASE GetReset
        <2>1. s2c' = <<>> /\ cpc' = "closed" /\ ServerGone /\ spc' = spc
            BY <1>1 DEF GetReset
        <2>2. Frames("somehow", <<>>)
            BY EmptyData, DataOnly, UnitKinds
        <2> QED
            BY <2>1, <2>2 DEF ToClient, ServerGone
    <1>2. CASE GetHeader /\ cpc' = "get"
        <2>1. /\ s2c # <<>> /\ IsHeader(Head(s2c)) /\ Command(Head(s2c)) = "GET"
              /\ cfile' = FileName(Head(s2c)) /\ cbuf' = Fresh(DataSize(Head(s2c)))
              /\ ci' = 0 /\ s2c' = Tail(s2c)
            BY <1>2 DEF GetHeader
        <2>2. /\ DataSize(Head(s2c)) \in Nat
              /\ Head(s2c) = <<"GET", FileName(Head(s2c)), DataSize(Head(s2c))>>
              /\ s2c' = After(s2c, 1) /\ 1 <= Len(s2c) /\ Len(s2c') = Len(s2c) - 1
              /\ Continues("somehow", Head(s2c), 0, s2c', 0)
              /\ \A owed \in Nat : Complete(s2c, owed) => DataSize(Head(s2c)) <= Len(s2c') + owed
            BY <2>1, Types, HeaderTaken DEF ToClient
        <2>3. cbuf' \in Seq(Byte) /\ Len(cbuf') = DataSize(Head(s2c))
            BY <2>1, <2>2, ByteProperties, FreshProperties
        <2>4. GetInHand' = Head(s2c) /\ GetDone' = 0
            BY <2>1, <2>2, <2>3, EmptyData DEF GetInHand, GetDone
        <2>5. Owed' = Owed /\ Serving' = Serving
            BY <1>2 DEF GetHeader, Owed, Serving
        <2>6. Frames("somehow", s2c') /\ (Serving => Complete(s2c', Owed))
            <3>1. 1 \in Nat
                OBVIOUS
            <3> QED
                BY <2>2, <3>1, Types, FramesAfter, CompleteAfter, UnitKinds DEF ToClient, Serving
        <2>7. ci' <= Blocks(cbuf')
            BY <2>1, <2>3, BlocksOf, BlockNat
        <2>8. Serving => Len(cbuf') <= GetDone' + Len(s2c') + Owed'
            <3>1. Serving => Len(cbuf') <= Len(s2c') + Owed
                BY <2>2, <2>3, Types DEF ToClient, Serving
            <3> QED
                BY <2>2, <2>4, <2>5, <3>1, Types
        <2> QED
            BY <2>2, <2>4, <2>5, <2>6, <2>7, <2>8 DEF ToClient, Serving
    <1>3. CASE (GetHeader /\ cpc' # "get") \/ PartOfHeader
        <2>1. UNCHANGED <<s2c, cfile, cbuf, ci, spc, sbuf>> /\ cpc' = "undefined"
            BY <1>3 DEF GetHeader, PartOfHeader
        <2> QED
            BY <2>1, NothingForClient DEF Owed, Serving
    <1>4. CASE GetBlock
        <2>1. PICK m \in Lengths(s2c, Block, ServerGone) :
                  /\ cbuf' = Stored(cbuf, ci, SubSeq(s2c, 1, m))
                  /\ s2c' = After(s2c, m)
                  /\ short' = (short \/ m < Block)
            BY <1>4 DEF GetBlock
        <2>2. /\ ServerGone \in BOOLEAN
              /\ cpc = "get" /\ cpc' = cpc /\ ci' = ci + 1 /\ cfile' = cfile
              /\ spc' = spc /\ sbuf' = sbuf
            BY <1>4 DEF GetBlock, ServerGone
        <2>3. /\ ci < Blocks(cbuf) /\ Continues("somehow", GetInHand, Place(ci), s2c, 0)
              /\ Frames("somehow", s2c)
              /\ Serving => Complete(s2c, Owed) /\ Len(cbuf) <= Place(ci) + Len(s2c) + Owed
            BY <1>4 DEF GetBlock, ToClient, GetDone, Serving
        <2>4. /\ m \in Nat /\ m <= Block /\ m <= Len(s2c)
              /\ Len(cbuf') = Len(cbuf) /\ Blocks(cbuf') = Blocks(cbuf)
              /\ ci' <= Blocks(cbuf') /\ Place(ci') = Place(ci) + Block
              /\ Continues("somehow", GetInHand, Place(ci'), s2c', 0)
            BY <2>1, <2>2, <2>3, Types, BlockTaken DEF GetInHand
        <2>5. Len(s2c') = Len(s2c) - m /\ Frames("somehow", s2c') /\ (Serving => Complete(s2c', Owed))
            <3>1. Len(s2c') = Len(s2c) - m
                BY <2>1, <2>4, Types, AfterProperties
            <3>2. Frames("somehow", s2c')
                BY <2>1, <2>3, <2>4, Types, FramesAfter, UnitKinds
            <3>3. Serving => Complete(s2c', Owed)
                BY <2>1, <2>3, <2>4, Types, CompleteAfter, UnitKinds
            <3> QED
                BY <3>1, <3>2, <3>3
        <2>6. GetInHand' = GetInHand /\ GetDone' = Place(ci') /\ Owed' = Owed /\ Serving' = Serving
            BY <2>2, <2>4 DEF GetInHand, GetDone, Owed, Serving
        <2>7. Serving => Len(cbuf') <= GetDone' + Len(s2c') + Owed'
            <3>1. /\ m \in Nat /\ Block \in Nat /\ m <= Block /\ Owed \in Nat
                  /\ Len(s2c) \in Nat /\ Len(cbuf) \in Nat /\ Place(ci) \in Nat
                BY <2>4, Types, BlockNat
            <3>2. /\ Len(cbuf') = Len(cbuf) /\ GetDone' = Place(ci) + Block /\ Len(s2c') = Len(s2c) - m
                  /\ Owed' = Owed
                  /\ Serving => Len(cbuf) <= Place(ci) + Len(s2c) + Owed
                BY <2>3, <2>4, <2>5, <2>6
            <3> QED
                BY <3>1, <3>2
        <2> QED
            BY <2>2, <2>4, <2>5, <2>6, <2>7 DEF ToClient, Serving
    <1>5. CASE GetRest
        <2>1. PICK m \in Lengths(s2c, Rest(cbuf), ServerGone) :
                  s2c' = After(s2c, m) /\ cpc' \in {"console", "undefined"}
            BY <1>5 DEF GetRest
        <2>2. ServerGone \in BOOLEAN /\ spc' = spc /\ sbuf' = sbuf
            BY <1>5 DEF GetRest, ServerGone
        <2>3. Continues("somehow", GetInHand, Place(Blocks(cbuf)), s2c, 0)
            BY <1>5 DEF GetRest, ToClient, GetDone
        <2>4. m \in Nat /\ m <= Len(s2c)
            BY <2>1, <2>2, <2>3, Types, RestTaken DEF GetInHand
        <2> QED
            BY <2>1, <2>2, <2>4, TakenByClient
    <1> QED
        BY <1>1, <1>2, <1>3, <1>4, <1>5 DEF Receive

LEMMA DataSent ==
    ASSUME TypeOK
    PROVE  LET data == Sent(Over(disk["server"][sfile], sbuf))
           IN  data \in Seq(Byte) /\ data \in Seq(Unit) /\ Len(data) = Len(sbuf)
    <1>1. disk["server"][sfile] \in Seq(Byte)
        BY DiskType, Hosts, Types
    <1>2. Over(disk["server"][sfile], sbuf) \in Seq(Byte)
          /\ Len(Over(disk["server"][sfile], sbuf)) = Len(sbuf)
        BY <1>1, Types, OverProperties
    <1> QED
        BY <1>2, BlockNat, ByteProperties, SentProperties, DataOnly, UnitKinds

LEMMA ToClientHandler ==
    ASSUME TypeOK, ToClient, clithread
    PROVE  ToClient'
    <1> USE DEF files, client, server, other
    <1>1. ASSUME NEW command, Request(command)
          PROVE  FileName(Head(c2s)) \in File
        <2>1. c2s # <<>> /\ IsHeader(Head(c2s)) /\ c2s \in Seq(Unit)
            BY <1>1, Types DEF Request
        <2> QED
            BY <2>1, HeadProperties, UnitProperties, HeaderProperties
    <1>2. CASE get_handler
        <2> DEFINE f == FileName(Head(c2s))
        <2>1. f \in File /\ spc = "command" /\ UNCHANGED <<cpc, cfile, cbuf, ci>>
            BY <1>1, <1>2 DEF get_handler, Request
        <2>2. CASE f \in stored["server"]
            <3>1. /\ s2c' = Append(s2c, <<"GET", f, Len(disk["server"][f])>>)
                  /\ spc' = "get" /\ sbuf' = Fresh(Len(disk["server"][f]))
                BY <1>2, <2>2 DEF get_handler
            <3>2. Len(disk["server"][f]) \in Nat
                BY <2>1, DiskType, Hosts
            <3>3. Len(sbuf') = Len(disk["server"][f])
                BY <3>1, <3>2, ByteProperties, FreshProperties
            <3>4. Owed' = Len(disk["server"][f])
                BY <3>1, <3>3 DEF Owed
            <3> HIDE DEF f
            <3> QED
                BY <2>1, <3>1, <3>2, <3>4, MadeHeader, SentToClient
        <2>3. CASE f \notin stored["server"]
            <3>1. s2c' = Append(s2c, <<"ERROR", f, 0>>) /\ spc' = "closed"
                BY <1>2, <2>3 DEF get_handler
            <3>2. Owed' = 0 /\ 0 \in Nat
                BY <3>1 DEF Owed
            <3> HIDE DEF f
            <3>3. <<"ERROR", f, 0>> \in Header
                BY <2>1, <3>2, MadeHeader
            <3> QED
                BY <2>1, <3>1, <3>2, <3>3, SentToClient
        <2> QED
            BY <2>2, <2>3
    <1>3. CASE GetData
        <2> DEFINE data == Sent(Over(disk["server"][sfile], sbuf))
        <2>1. /\ s2c' = s2c \o data /\ spc = "get" /\ spc' = "command"
              /\ UNCHANGED <<cpc, cfile, cbuf, ci>>
            BY <1>3 DEF GetData
        <2>2. data \in Seq(Byte) /\ data \in Seq(Unit) /\ Len(data) = Len(sbuf) /\ Len(sbuf) \in Nat
            BY DataSent, Types
        <2> HIDE DEF data
        <2>3. /\ Frames("somehow", s2c) /\ Complete(s2c, Len(sbuf)) /\ Owed = Len(sbuf) /\ Owed' = 0
              /\ cpc = "get" => /\ ci <= Blocks(cbuf)
                                /\ Continues("somehow", GetInHand, GetDone, s2c, 0)
                                /\ Len(cbuf) <= GetDone + Len(s2c) + Len(sbuf)
            BY <2>1 DEF ToClient, Owed
        <2>4. /\ Frames("somehow", s2c') /\ Complete(s2c', 0)
              /\ Len(s2c') = Len(s2c) + Len(sbuf)
            BY <2>1, <2>2, <2>3, Types, DataAppended, UnitKinds
        <2>5. ASSUME cpc = "get"
              PROVE  /\ Continues("somehow", GetInHand, GetDone, s2c', 0)
                     /\ Len(cbuf) <= GetDone + Len(s2c') + 0
            <3>1. GetDone \in Nat /\ DataSize(GetInHand) \in Nat /\ 0 \in Nat /\ 0 <= Len(s2c)
                BY Types DEF GetDone, GetInHand, DataSize
            <3>2. \A k : \A j \in 1 .. Len(data) : Follows("somehow", GetInHand, k, data[j])
                BY <2>2, DataOnly, UnitKinds DEF Follows
            <3>3. Continues("somehow", GetInHand, GetDone, s2c', 0)
                BY <2>1, <2>2, <2>3, <2>5, <3>1, <3>2, Types, ContinuesConcat
            <3> QED
                BY <2>3, <2>4, <2>5, <3>1, <3>3, Types
        <2>6. GetInHand' = GetInHand /\ GetDone' = GetDone
            BY <2>1 DEF GetInHand, GetDone
        <2> QED
            BY <2>1, <2>3, <2>4, <2>5, <2>6 DEF ToClient
    <1>4. CASE put_handler_Fails
        <2>1. /\ FileName(Head(c2s)) \in File
              /\ s2c' = Append(s2c, <<"ERROR", FileName(Head(c2s)), 0>>)
              /\ spc = "command" /\ spc' = "closed" /\ UNCHANGED <<cpc, cfile, cbuf, ci>>
            BY <1>1, <1>4 DEF put_handler_Fails, Request
        <2>2. Owed' = 0 /\ 0 \in Nat
            BY <2>1 DEF Owed
        <2>3. <<"ERROR", FileName(Head(c2s)), 0>> \in Header
            BY <2>1, <2>2, MadeHeader
        <2> QED
            BY <2>1, <2>2, <2>3, SentToClient
    <1>5. CASE put_handler \/ PutBlock \/ PutRemBytes \/ PutRest \/ PartOfCommand \/ Garbled
               \/ Reset \/ Close
        <2>1. /\ UNCHANGED <<s2c, cpc, cfile, cbuf, ci>>
              /\ spc \in {"command", "put", "rest"} /\ spc' # "get"
            BY <1>5 DEF put_handler, PutBlock, PutRemBytes, PutRest, PartOfCommand, Garbled, Reset,
                        Close, Request
        <2>2. Owed' = Owed /\ Serving
            BY <2>1 DEF Owed, Serving
        <2> QED
            BY <2>1, <2>2, NothingForClient
    <1> QED
        BY <1>2, <1>3, <1>4, <1>5 DEF clithread

LEMMA ToClientStep ==
    ASSUME TypeOK, ToClient, [Next]_vars
    PROVE  ToClient'
    <1> USE DEF files, client, server, other
    <1>1. CASE console
        <2>1. UNCHANGED <<s2c, cfile, cbuf, ci, spc, sbuf>> /\ (cpc' = "get" => cpc = "get")
            BY <1>1 DEF console, comm_put, comm_put_Missing, comm_get, comm_Broken, Quit, Typed
        <2> QED
            BY <2>1, NothingForClient DEF Owed, Serving
    <1>2. CASE ServerEnds
        <2>1. UNCHANGED <<s2c, cpc, cfile, cbuf, ci>> /\ spc' = "dead"
            BY <1>2 DEF ServerEnds
        <2> QED
            BY <2>1 DEF ToClient, GetInHand, GetDone
    <1>3. CASE (\E f \in File : OtherOpen(f) \/ OtherWrite(f)) \/ UNCHANGED vars
        <2>1. UNCHANGED <<s2c, cpc, cfile, cbuf, ci, spc, sbuf>>
            BY <1>3 DEF OtherOpen, OtherWrite, vars
        <2> QED
            BY <2>1, NothingForClient DEF Owed, Serving
    <1> QED
        BY <1>1, <1>2, <1>3, ToClientReceive, ToClientHandler DEF Next

(***************************************************************************)
(* With whole recvs there is one command at a time.                        *)
(***************************************************************************)
LEMMA GetsTaken ==
    ASSUME TypeOK, NEW m \in Nat, m <= Len(c2s), c2s' = After(c2s, m)
    PROVE  (NoGet => NoGet') /\ (GetIsLast => GetIsLast')
    <1>1. /\ Len(c2s') = Len(c2s) - m /\ Len(c2s) \in Nat
          /\ \A p \in 1 .. Len(c2s) - m : c2s'[p] = c2s[m + p]
        BY Types, AfterProperties
    <1>2. \A p \in 1 .. Len(c2s') : c2s'[p] = c2s[m + p] /\ m + p \in 1 .. Len(c2s)
        BY <1>1
    <1>3. \A p \in 1 .. Len(c2s') : m + p = Len(c2s) => p = Len(c2s')
        <2>1. Len(c2s') = Len(c2s) - m /\ Len(c2s) \in Nat
            BY <1>1
        <2> QED
            BY <2>1
    <1> QED
        BY <1>2, <1>3 DEF NoGet, GetIsLast

LEMMA PutIsNoGet ==
    ASSUME TypeOK, NEW f \in File, c2s' = (c2s \o <<PutOf(f)>>) \o PutData(f), NoGet
    PROVE  NoGet'
    <1> DEFINE a == c2s \o <<PutOf(f)>>
               t == PutData(f)
    <1>1. /\ PutOf(f) \in Unit /\ Command(PutOf(f)) # "GET"
          /\ a \in Seq(Unit) /\ t \in Seq(Byte)
        BY PutSends
    <1>2. /\ Len(a) = Len(c2s) + 1 /\ Len(a) \in Nat /\ Len(c2s) \in Nat
          /\ \A k \in 1 .. Len(c2s) + 1 : a[k] = IF k <= Len(c2s) THEN c2s[k] ELSE PutOf(f)
        <2>1. <<PutOf(f)>> \in Seq(Unit) /\ Len(<<PutOf(f)>>) = 1 /\ <<PutOf(f)>>[1] = PutOf(f)
            BY <1>1, OneUnit, UnitKinds
        <2>2. /\ Len(a) = Len(c2s) + Len(<<PutOf(f)>>)
              /\ \A k \in 1 .. Len(c2s) + Len(<<PutOf(f)>>) :
                     a[k] = IF k <= Len(c2s) THEN c2s[k] ELSE <<PutOf(f)>>[k - Len(c2s)]
            BY <2>1, Types, ConcatProperties
        <2>3. Len(c2s) \in Nat
            BY Types
        <2>4. \A k \in 1 .. Len(c2s) + 1 : k <= Len(c2s) \/ k - Len(c2s) = 1
            BY <2>3
        <2> QED
            BY <2>1, <2>2, <2>3, <2>4
    <1>3. Len(t) \in Nat /\ t \in Seq(Unit) /\ \A j \in 1 .. Len(t) : ~IsHeader(t[j])
        BY <1>1, DataOnly, UnitKinds
    <1> HIDE DEF a, t
    <1>4. /\ Len(c2s') = Len(a) + Len(t)
          /\ \A k \in 1 .. Len(a) + Len(t) : c2s'[k] = IF k <= Len(a) THEN a[k] ELSE t[k - Len(a)]
        BY <1>1, <1>3, ConcatProperties DEF a, t
    <1>5. ASSUME NEW p \in 1 .. Len(c2s'), IsHeader(c2s'[p])
          PROVE  Command(c2s'[p]) # "GET"
        <2>1. CASE p <= Len(c2s)
            <3>1. p \in 1 .. Len(c2s) /\ c2s'[p] = c2s[p]
                BY <1>2, <1>3, <1>4, <2>1
            <3> QED
                BY <1>5, <3>1 DEF NoGet
        <2>2. CASE p = Len(c2s) + 1
            <3>1. c2s'[p] = PutOf(f)
                BY <1>2, <1>3, <1>4, <2>2
            <3> QED
                BY <1>1, <3>1
        <2>3. CASE p > Len(c2s) + 1
            <3>1. p - Len(a) \in 1 .. Len(t) /\ c2s'[p] = t[p - Len(a)]
                BY <1>2, <1>3, <1>4, <2>3
            <3> QED
                BY <1>3, <1>5, <3>1
        <2> QED
            BY <1>2, <2>1, <2>2, <2>3
    <1> QED
        BY <1>5 DEF NoGet

LEMMA GetComesLast ==
    ASSUME TypeOK, NEW h \in Header, c2s' = Append(c2s, h), NoGet
    PROVE  GetIsLast'
    <1>1. h \in Unit
        BY DEF Unit
    <1>2. /\ Len(c2s') = Len(c2s) + 1 /\ Len(c2s) \in Nat
          /\ \A i \in 1 .. Len(c2s) : c2s'[i] = c2s[i]
        BY <1>1, Types, AppendProperties
    <1>3. \A p \in 1 .. Len(c2s') : p = Len(c2s') \/ p \in 1 .. Len(c2s)
        BY <1>2
    <1> QED
        BY <1>2, <1>3 DEF NoGet, GetIsLast

\* The client stays where it is, and no more is owed to it.
LEMMA TurnStays ==
    ASSUME InTurn, UNCHANGED <<s2c, cpc, cfile, cbuf, ci>>, Owed' = Owed,
           Owed > 0 => sfile' = sfile /\ sbuf' = sbuf,
           ~short' => ~short, ~ServerGone' => ~ServerGone,
           NoGet => NoGet', cpc = "header" /\ GetIsLast => GetIsLast'
    PROVE  InTurn'
    <1> SUFFICES ASSUME ~short', ~ServerGone'
                 PROVE  /\ cpc = "console" => AtConsole'
                        /\ cpc = "header" => Requested' \/ Answered'
                        /\ cpc = "get" => Receiving'
        BY DEF InTurn
    <1>1. ~short /\ ~ServerGone
        OBVIOUS
    <1>2. cpc = "console" => AtConsole'
        BY <1>1 DEF InTurn, AtConsole
    <1>3. cpc = "header" => Requested' \/ Answered'
        <2>1. Requested /\ cpc = "header" => Requested'
            BY DEF Requested
        <2>2. Answered => Answered'
            BY DEF Answered
        <2> QED
            BY <1>1, <2>1, <2>2 DEF InTurn
    <1>4. cpc = "get" => Receiving'
        <2>1. Receiving => Receiving'
            BY DEF Receiving, GetDone
        <2> QED
            BY <1>1, <2>1 DEF InTurn
    <1> QED
        BY <1>2, <1>3, <1>4

LEMMA InTurnInit == Init => InTurn
    BY EmptyData DEF Init, InTurn, AtConsole, NoGet, Owed

LEMMA InTurnReceive ==
    ASSUME TypeOK, ToClient, InTurn, Receive
    PROVE  InTurn'
    <1> USE DEF files, client, server, other
    <1>1. CASE cpc' \in {"closed", "undefined"}
        BY <1>1 DEF InTurn
    <1>2. CASE GetHeader /\ cpc' = "get"
        <2> SUFFICES ASSUME ~short', ~ServerGone' PROVE Receiving'
            BY <1>2 DEF InTurn
        <2>1. /\ s2c # <<>> /\ IsHeader(Head(s2c)) /\ cpc = "header"
              /\ cfile' = FileName(Head(s2c)) /\ cbuf' = Fresh(DataSize(Head(s2c)))
              /\ ci' = 0 /\ s2c' = Tail(s2c) /\ UNCHANGED <<c2s, spc, sfile, sbuf, short>>
            BY <1>2 DEF GetHeader
        <2>2. Answered
            BY <2>1 DEF InTurn, Requested, ServerGone
        <2>3. /\ DataSize(Head(s2c)) \in Nat /\ s2c' \in Seq(Unit) /\ Len(s2c') = Len(s2c) - 1
              /\ Len(s2c) \in Nat
            BY <2>1, Types, HeaderTaken, HeadProperties DEF ToClient
        <2>4. cbuf' \in Seq(Byte) /\ Len(cbuf') = DataSize(Head(s2c))
            BY <2>1, <2>3, ByteProperties, FreshProperties
        <2>5. Owed' = Owed /\ NoGet' = NoGet /\ GetDone' = 0
            BY <2>1, EmptyData DEF Owed, NoGet, GetDone
        <2>6. GetDone' + Len(s2c') + Owed' = Len(cbuf')
            <3>1. Len(s2c) + Owed = 1 + DataSize(Head(s2c)) /\ Owed \in Nat
                BY <2>2, Types DEF Answered
            <3> QED
                BY <2>3, <2>4, <2>5, <3>1
        <2>7. ASSUME Owed > 0
              PROVE  s2c' = <<>> /\ cfile' = sfile
            <3>1. s2c = <<<<"GET", sfile, Len(sbuf)>>>>
                BY <2>2, <2>7 DEF Answered
            <3>2. Head(s2c) = <<"GET", sfile, Len(sbuf)>> /\ Tail(s2c) = <<>>
                BY <3>1
            <3> QED
                BY <2>1, <3>2 DEF FileName
        <2> QED
            BY <2>1, <2>2, <2>5, <2>6, <2>7 DEF Receiving, Answered
    <1>3. CASE GetBlock
        <2> SUFFICES ASSUME ~short', ~ServerGone' PROVE Receiving'
            BY <1>3 DEF InTurn, GetBlock
        <2>1. PICK m \in Lengths(s2c, Block, ServerGone) :
                  /\ cbuf' = Stored(cbuf, ci, SubSeq(s2c, 1, m))
                  /\ s2c' = After(s2c, m)
                  /\ short' = (short \/ m < Block)
            BY <1>3 DEF GetBlock
        <2>0. ~short /\ ~(m < Block)
            BY <2>1, Zenon
        <2>2. /\ ServerGone \in BOOLEAN /\ ~ServerGone
              /\ cpc = "get" /\ ci' = ci + 1 /\ cfile' = cfile
              /\ UNCHANGED <<c2s, spc, sfile, sbuf>>
            BY <1>3 DEF GetBlock, ServerGone
        <2>3. /\ ci < Blocks(cbuf) /\ Continues("somehow", GetInHand, Place(ci), s2c, 0)
            BY <1>3 DEF GetBlock, ToClient, GetDone
        <2>4. /\ m \in Nat /\ m <= Block /\ m <= Len(s2c)
              /\ Len(cbuf') = Len(cbuf) /\ Place(ci') = Place(ci) + Block
            BY <2>1, <2>2, <2>3, Types, BlockTaken DEF GetInHand
        <2>5. m = Block /\ Len(s2c') = Len(s2c) - m
            <3>1. m = Block
                BY <2>0, <2>4, BlockNat
            <3> QED
                BY <2>1, <2>4, <3>1, Types, AfterProperties
        <2>6. Receiving
            BY <2>0, <2>2 DEF InTurn
        <2>7. Owed = 0
            <3>1. Len(s2c) > 0
                BY <2>4, <2>5, BlockNat, Types
            <3>2. s2c # <<>>
                BY <3>1, EmptyData
            <3> QED
                BY <2>6, <3>2, Types DEF Receiving
        <2>8. Owed' = Owed /\ NoGet' = NoGet
            BY <2>2 DEF Owed, NoGet
        <2>9. Place(ci) + Len(s2c) = Len(cbuf)
            BY <2>6, <2>7, Types DEF Receiving, GetDone
        <2>10. Place(ci') + Len(s2c') + 0 = Len(cbuf')
            BY <2>4, <2>5, <2>9, Types, BlockNat
        <2> QED
            BY <2>6, <2>7, <2>8, <2>10 DEF Receiving, GetDone
    <1>4. CASE GetRest /\ cpc' = "console"
        <2> SUFFICES ASSUME ~short', ~ServerGone' PROVE AtConsole'
            BY <1>4 DEF InTurn
        <2>1. PICK m \in Lengths(s2c, Rest(cbuf), ServerGone) :
                  s2c' = After(s2c, m) /\ short' = (short \/ m < Rest(cbuf))
            BY <1>4 DEF GetRest
        <2>0. ~short /\ ~(m < Rest(cbuf))
            BY <2>1, Zenon
        <2>2. ServerGone \in BOOLEAN /\ ~ServerGone /\ cpc = "get" /\ ci = Blocks(cbuf)
              /\ UNCHANGED <<c2s, spc, sbuf>>
            BY <1>4 DEF GetRest, ServerGone
        <2>3. Continues("somehow", GetInHand, Place(Blocks(cbuf)), s2c, 0)
            BY <1>4 DEF GetRest, ToClient, GetDone
        <2>4. /\ m \in Nat /\ m <= Rest(cbuf) /\ m <= Len(s2c) /\ Rest(cbuf) \in Nat
              /\ Place(Blocks(cbuf)) \in Nat
              /\ Len(cbuf) = Place(Blocks(cbuf)) + Rest(cbuf)
            BY <2>1, <2>2, <2>3, Types, RestTaken DEF GetInHand
        <2>5. m = Rest(cbuf) /\ Len(s2c') = Len(s2c) - m /\ s2c' \in Seq(Unit)
            BY <2>0, <2>1, <2>4, Types, AfterProperties
        <2>6. Receiving
            BY <2>0, <2>2 DEF InTurn
        <2>7. Place(Blocks(cbuf)) + Len(s2c) + Owed = Len(cbuf)
            BY <2>2, <2>6 DEF Receiving, GetDone
        <2>8. Owed = 0 /\ Len(s2c') = 0
            <3>1. /\ Place(Blocks(cbuf)) \in Nat /\ Rest(cbuf) \in Nat /\ Len(s2c) \in Nat /\ Owed \in Nat
                  /\ Place(Blocks(cbuf)) + Len(s2c) + Owed = Place(Blocks(cbuf)) + Rest(cbuf)
                  /\ Rest(cbuf) <= Len(s2c) /\ Len(s2c') = Len(s2c) - Rest(cbuf)
                BY <2>4, <2>5, <2>7, Types
            <3> QED
                BY <3>1
        <2>9. s2c' = <<>>
            BY <2>5, <2>8, EmptySeq
        <2>10. Owed' = Owed /\ NoGet' = NoGet
            BY <2>2 DEF Owed, NoGet
        <2> QED
            BY <2>6, <2>8, <2>9, <2>10 DEF AtConsole, Receiving
    <1>5. CASE GetReset \/ PartOfHeader
        BY <1>1, <1>5 DEF GetReset, PartOfHeader
    <1> QED
        BY <1>1, <1>2, <1>3, <1>4, <1>5 DEF Receive, GetHeader, GetRest

LEMMA RequestTaken ==
    ASSUME TypeOK, NEW command, Request(command), c2s' = Tail(c2s)
    PROVE  /\ c2s # <<>> /\ Head(c2s) = c2s[1] /\ 1 \in 1 .. Len(c2s) /\ Len(c2s) \in Nat
           /\ IsHeader(Head(c2s)) /\ Command(Head(c2s)) = command /\ FileName(Head(c2s)) \in File
           /\ 1 \in Nat /\ 1 <= Len(c2s) /\ c2s' = After(c2s, 1)
           /\ (NoGet => NoGet') /\ (GetIsLast => GetIsLast')
    <1>1. c2s # <<>> /\ IsHeader(Head(c2s)) /\ Command(Head(c2s)) = command /\ c2s \in Seq(Unit)
        BY Types DEF Request
    <1>2. /\ Head(c2s) = c2s[1] /\ 1 \in 1 .. Len(c2s) /\ Len(c2s) \in Nat
          /\ 1 \in Nat /\ 1 <= Len(c2s) /\ c2s' = After(c2s, 1)
          /\ FileName(Head(c2s)) \in File
        BY <1>1, HeadProperties, UnitProperties, HeaderProperties
    <1> QED
        BY <1>1, <1>2, GetsTaken

LEMMA InTurnHandler ==
    ASSUME TypeOK, InTurn, clithread
    PROVE  InTurn'
    <1> USE DEF files, client, server, other
    <1>1. CASE spc' = "closed" \/ short'
        BY <1>1 DEF InTurn, ServerGone
    <1>2. CASE get_handler /\ spc' = "get"
        <2> DEFINE f == FileName(Head(c2s))
                   h == <<"GET", f, Len(disk["server"][f])>>
        <2> SUFFICES ASSUME ~short', ~ServerGone'
                     PROVE  /\ cpc # "console" /\ cpc # "get"
                            /\ cpc = "header" => Answered'
            BY <1>2 DEF InTurn, get_handler
        <2>1. /\ Request("GET") /\ c2s' = Tail(c2s) /\ s2c' = Append(s2c, h)
              /\ spc = "command" /\ sfile' = f /\ sbuf' = Fresh(Len(disk["server"][f]))
              /\ UNCHANGED <<cpc, short>>
            BY <1>2 DEF get_handler, Request
        <2>2. /\ c2s # <<>> /\ Head(c2s) = c2s[1] /\ 1 \in 1 .. Len(c2s) /\ Len(c2s) \in Nat
              /\ IsHeader(c2s[1]) /\ Command(c2s[1]) = "GET" /\ f \in File
              /\ c2s' = After(c2s, 1) /\ 1 \in Nat /\ 1 <= Len(c2s)
            BY <2>1, RequestTaken
        <2>3. ~NoGet
            BY <2>2 DEF NoGet
        <2>4. ~ServerGone /\ ~short
            BY <2>1 DEF ServerGone
        <2>5. cpc # "console" /\ cpc # "get"
            BY <2>3, <2>4 DEF InTurn, AtConsole, Receiving
        <2>6. ASSUME cpc = "header"
              PROVE  Answered'
            <3>1. Requested
                BY <2>3, <2>4, <2>6 DEF InTurn, Answered
            <3>2. Len(c2s) = 1
                BY <2>2, <3>1 DEF Requested, GetIsLast
            <3>3. Len(c2s') = 0
                <4>1. c2s \in Seq(Unit) /\ 1 \in Nat /\ 1 <= Len(c2s)
                    BY <2>2, Types
                <4>2. Len(After(c2s, 1)) = Len(c2s) - 1
                    BY <4>1, AfterProperties
                <4> QED
                    BY <2>2, <3>2, <4>2
            <3>4. NoGet'
                BY <3>3 DEF NoGet
            <3>5. Len(disk["server"][f]) \in Nat
                BY <2>2, DiskType, Hosts
            <3>6. Len(sbuf') = Len(disk["server"][f])
                BY <2>1, <3>5, ByteProperties, FreshProperties
            <3>7. s2c' = <<h>> /\ DataSize(h) = Len(disk["server"][f])
                BY <2>1, <3>1 DEF Requested, DataSize
            <3>8. Owed' = Len(sbuf')
                BY <1>2 DEF Owed
            <3> HIDE DEF f
            <3>9. s2c' # <<>> /\ Len(s2c') = 1 /\ Head(s2c') = h
                BY <3>7
            <3>10. Len(s2c') + Owed' = 1 + DataSize(Head(s2c'))
                BY <3>5, <3>6, <3>7, <3>8, <3>9
            <3>11. s2c' = <<<<"GET", sfile', Len(sbuf')>>>>
                BY <2>1, <3>6, <3>7
            <3> QED
                BY <3>4, <3>9, <3>10, <3>11 DEF Answered
        <2> QED
            BY <2>5, <2>6
    <1>3. CASE GetData
        <2> DEFINE data == Sent(Over(disk["server"][sfile], sbuf))
        <2>1. /\ s2c' = s2c \o data /\ spc = "get" /\ spc' = "command" /\ sbuf' = <<>>
              /\ UNCHANGED <<c2s, cpc, cfile, cbuf, ci, short>>
            BY <1>3 DEF GetData
        <2>2. data \in Seq(Unit) /\ Len(data) = Len(sbuf) /\ Len(sbuf) \in Nat /\ Len(s2c) \in Nat
            BY DataSent, Types
        <2> HIDE DEF data
        <2>3. /\ Len(s2c') = Len(s2c) + Len(sbuf) /\ s2c' \in Seq(Unit)
              /\ s2c # <<>> => Head(s2c') = Head(s2c) /\ s2c' # <<>>
            <3>1. /\ Len(s2c') = Len(s2c) + Len(data) /\ s2c' \in Seq(Unit)
                  /\ \A k \in 1 .. Len(s2c) + Len(data) :
                         s2c'[k] = IF k <= Len(s2c) THEN s2c[k] ELSE data[k - Len(s2c)]
                <4>1. s2c \in Seq(Unit) /\ data \in Seq(Unit)
                    BY <2>2, Types
                <4> QED
                    BY <2>1, <4>1, ConcatProperties
            <3>2. ASSUME s2c # <<>>
                  PROVE  Head(s2c') = Head(s2c) /\ s2c' # <<>>
                <4>1. Len(s2c) >= 1 /\ Head(s2c) = s2c[1]
                    BY <3>2, Types, HeadProperties
                <4>2. s2c'[1] = s2c[1] /\ Len(s2c') >= 1
                    BY <2>2, <3>1, <4>1
                <4>3. s2c' # <<>>
                    BY <4>2, EmptyData
                <4> QED
                    BY <3>1, <4>1, <4>2, <4>3, HeadProperties
            <3> QED
                BY <2>2, <3>1, <3>2
        <2>4. Owed = Len(sbuf) /\ Owed' = 0 /\ NoGet' = NoGet /\ GetIsLast' = GetIsLast
            BY <2>1 DEF Owed, NoGet, GetIsLast
        <2>5. ServerGone = FALSE
            BY <2>1 DEF ServerGone
        <2> SUFFICES ASSUME ~short'
                     PROVE  /\ cpc = "console" => AtConsole'
                            /\ cpc = "header" => Requested' \/ Answered'
                            /\ cpc = "get" => Receiving'
            BY <2>1 DEF InTurn
        <2>6. ~short
            BY <2>1
        <2>7. s2c = <<>> /\ Owed = 0 => s2c' = <<>>
            BY <2>2, <2>3, <2>4, EmptySeq
        <2>8. cpc = "console" => AtConsole'
            BY <2>4, <2>5, <2>6, <2>7 DEF InTurn, AtConsole
        <2>9. cpc = "header" => Requested' \/ Answered'
            <3>1. Requested => Requested'
                BY <2>4, <2>7 DEF Requested
            <3>2. Answered => Answered'
                <4>1. Answered => Len(s2c') + 0 = 1 + DataSize(Head(s2c'))
                    BY <2>2, <2>3, <2>4 DEF Answered
                <4> QED
                    BY <2>3, <2>4, <4>1 DEF Answered
            <3> QED
                BY <2>5, <2>6, <3>1, <3>2 DEF InTurn
        <2>10. cpc = "get" => Receiving'
            <3>1. Receiving => GetDone + Len(s2c') + 0 = Len(cbuf)
                <4>1. GetDone \in Nat
                    BY Types DEF GetDone
                <4> QED
                    BY <2>2, <2>3, <2>4, <4>1 DEF Receiving
            <3>2. GetDone' = GetDone
                BY <2>1 DEF GetDone
            <3>3. Receiving => Receiving'
                BY <2>1, <2>4, <3>1, <3>2 DEF Receiving
            <3> QED
                BY <2>5, <2>6, <3>3 DEF InTurn
        <2> QED
            BY <2>8, <2>9, <2>10
    <1>4. CASE put_handler
        <2>1. /\ Request("PUT") /\ c2s' = Tail(c2s) /\ spc = "command" /\ spc' = "put"
              /\ UNCHANGED <<s2c, cpc, cfile, cbuf, ci, short>>
            BY <1>4 DEF put_handler, Request
        <2>2. Owed' = 0 /\ Owed = 0 /\ ~ServerGone
            BY <2>1 DEF Owed, ServerGone
        <2>3. ~(0 > 0)
            OBVIOUS
        <2> QED
            BY <2>1, <2>2, <2>3, RequestTaken, TurnStays
    <1>5. CASE PutBlock
        <2>1. PICK m \in Lengths(c2s, Block, ClientGone) :
                  c2s' = After(c2s, m) /\ short' = (short \/ m < Block)
            BY <1>5 DEF PutBlock
        <2>2. /\ spc = "put" /\ spc' = "put" /\ UNCHANGED <<s2c, cpc, cfile, cbuf, ci>>
              /\ ClientGone \in BOOLEAN
            BY <1>5 DEF PutBlock, ClientGone
        <2>3. m \in Nat /\ m <= Len(c2s)
            BY <2>2, BlockNat, Types, LengthsProperties
        <2>4. (NoGet => NoGet') /\ (GetIsLast => GetIsLast')
            BY <2>1, <2>3, GetsTaken
        <2>5. Owed' = 0 /\ Owed = 0 /\ ~ServerGone /\ ~(0 > 0)
            BY <2>2 DEF Owed, ServerGone
        <2>6. ~short' => ~short
            BY <2>1, Zenon
        <2> QED
            BY <2>2, <2>4, <2>5, <2>6, TurnStays
    <1>6. CASE PutRest
        <2>1. /\ spc = "rest" /\ spc' # "get" /\ UNCHANGED <<s2c, cpc, cfile, cbuf, ci, short>>
              /\ ClientGone \in BOOLEAN
            BY <1>6 DEF PutRest, ClientGone
        <2>2. Owed' = 0 /\ Owed = 0 /\ ~ServerGone /\ ~(0 > 0)
            BY <2>1 DEF Owed, ServerGone
        <2>3. (NoGet => NoGet') /\ (GetIsLast => GetIsLast')
            <3>1. CASE \E m \in Lengths(c2s, rem_bytes, ClientGone) : rem_bytes >= 0 /\ c2s' = After(c2s, m)
                <4>1. PICK m \in Lengths(c2s, rem_bytes, ClientGone) : rem_bytes >= 0 /\ c2s' = After(c2s, m)
                    BY <3>1
                <4>2. rem_bytes \in Nat
                    BY <4>1, Types
                <4>3. m \in Nat /\ m <= Len(c2s)
                    BY <2>1, <4>2, Types, LengthsProperties
                <4> QED
                    BY <4>1, <4>3, GetsTaken
            <3>2. CASE c2s' = c2s
                BY <3>2 DEF NoGet, GetIsLast
            <3> QED
                BY <1>6, <3>1, <3>2 DEF PutRest
        <2> QED
            BY <2>1, <2>2, <2>3, TurnStays
    <1>7. CASE PutRemBytes \/ Garbled
        <2>1. /\ spc \in {"command", "put"} /\ spc' # "get"
              /\ UNCHANGED <<c2s, s2c, cpc, cfile, cbuf, ci, short>>
            BY <1>7 DEF PutRemBytes, Garbled
        <2>2. Owed' = 0 /\ Owed = 0 /\ ~ServerGone /\ ~(0 > 0)
            BY <2>1 DEF Owed, ServerGone
        <2>3. NoGet' = NoGet /\ GetIsLast' = GetIsLast
            BY <2>1 DEF NoGet, GetIsLast
        <2> QED
            BY <2>1, <2>2, <2>3, TurnStays
    <1>8. CASE put_handler_Fails \/ PartOfCommand \/ Reset \/ Close
        BY <1>1, <1>8 DEF put_handler_Fails, PartOfCommand, Reset, Close
    <1>9. CASE get_handler /\ spc' # "get"
        BY <1>1, <1>9 DEF get_handler
    <1> QED
        BY <1>2, <1>3, <1>4, <1>5, <1>6, <1>7, <1>8, <1>9 DEF clithread

LEMMA InTurnStep ==
    ASSUME TypeOK, ToClient, InTurn, [Next]_vars
    PROVE  InTurn'
    <1> USE DEF files, client, server, other
    <1>1. ASSUME NEW f \in File, comm_put(f)
          PROVE  InTurn'
        <2>1. /\ c2s' = (c2s \o <<PutOf(f)>>) \o PutData(f) /\ cpc = "console"
              /\ UNCHANGED <<s2c, cpc, cfile, cbuf, ci, spc, sfile, sbuf, short>>
            BY <1>1 DEF comm_put, PutOf, PutData, Typed
        <2>2. Owed' = Owed /\ ServerGone' = ServerGone
            BY <2>1 DEF Owed, ServerGone
        <2> QED
            BY <2>1, <2>2, PutIsNoGet, TurnStays
    <1>2. ASSUME NEW f \in File, comm_get(f)
          PROVE  InTurn'
        <2>1. /\ c2s' = Append(c2s, <<"GET", f, 0>>) /\ cpc = "console" /\ cpc' = "header"
              /\ UNCHANGED <<s2c, spc, sbuf, short>>
            BY <1>2 DEF comm_get, Typed
        <2>2. Owed' = Owed /\ ServerGone' = ServerGone
            BY <2>1 DEF Owed, ServerGone
        <2>3. <<"GET", f, 0>> \in Header
            BY MadeHeader
        <2>4. NoGet => GetIsLast'
            BY <2>1, <2>3, GetComesLast
        <2> QED
            BY <2>1, <2>2, <2>4 DEF InTurn, AtConsole, Requested
    <1>3. CASE (\E f \in File : comm_put_Missing(f)) \/ comm_Broken \/ Quit
        <2>1. cpc' \in {"undefined", "closed"}
            BY <1>3 DEF comm_put_Missing, comm_Broken, Quit
        <2> QED
            BY <2>1 DEF InTurn
    <1>4. CASE ServerEnds
        BY <1>4 DEF ServerEnds, InTurn, ServerGone
    <1>5. CASE (\E f \in File : OtherOpen(f) \/ OtherWrite(f)) \/ UNCHANGED vars
        <2>1. UNCHANGED <<c2s, s2c, cpc, cfile, cbuf, ci, spc, sfile, sbuf, short>>
            BY <1>5 DEF OtherOpen, OtherWrite, vars
        <2>2. Owed' = Owed /\ ServerGone' = ServerGone /\ NoGet' = NoGet /\ GetIsLast' = GetIsLast
            BY <2>1 DEF Owed, ServerGone, NoGet, GetIsLast
        <2> QED
            BY <2>1, <2>2, TurnStays
    <1> QED
        BY <1>1, <1>2, <1>3, <1>4, <1>5, InTurnReceive, InTurnHandler DEF Next, console

(***************************************************************************)
(* With whole recvs, and no race for a file, every block arrives.          *)
(***************************************************************************)
LEMMA WritingRaces == \A f, data : WriteFile(f, data) /\ raced => raced'
    BY Zenon DEF WriteFile

LEMMA HistoryKept ==
    ASSUME [Next]_vars
    PROVE  (short => short') /\ (raced => raced')
    <1> USE DEF files, client, server, other
    <1>1. CASE UNCHANGED <<short, raced>>
        BY <1>1, Zenon
    <1>2. CASE console
        <2>1. UNCHANGED <<short, raced>>
            BY <1>2 DEF console, comm_put, comm_put_Missing, comm_get, comm_Broken, Quit
        <2> QED
            BY <1>1, <2>1
    <1>3. CASE GetReset \/ GetHeader
        <2>1. UNCHANGED <<short, raced>>
            BY <1>3 DEF GetReset, GetHeader
        <2> QED
            BY <1>1, <2>1
    <1>4. CASE PartOfHeader \/ PartOfCommand
        <2>1. short' = TRUE /\ raced' = raced
            BY <1>4 DEF PartOfHeader, PartOfCommand
        <2> QED
            BY <2>1, Zenon
    <1>5. CASE GetBlock \/ GetRest \/ PutBlock
        <2>1. raced' = raced
            BY <1>5 DEF GetBlock, GetRest, PutBlock
        <2>2. \E m, n : short' = (short \/ m < n)
            BY <1>5, Zenon DEF GetBlock, GetRest, PutBlock
        <2> QED
            BY <2>1, <2>2, Zenon
    <1>6. CASE PutRest
        <2>1. short' = short
            BY <1>6 DEF PutRest
        <2>2. raced' = raced \/ \E f, data : WriteFile(f, data)
            BY <1>6, Zenon DEF PutRest
        <2>3. CASE raced' = raced
            BY <2>1, <2>3, Zenon
        <2>4. CASE \E f, data : WriteFile(f, data)
            <3>1. raced => raced'
                BY <2>4, WritingRaces, Zenon
            <3> QED
                BY <2>1, <3>1, Zenon
        <2> QED
            BY <2>2, <2>3, <2>4
    <1>7. CASE clithread
        <2>1. CASE get_handler \/ GetData \/ put_handler \/ put_handler_Fails \/ PutRemBytes
                   \/ Garbled \/ Reset \/ Close
            <3>1. UNCHANGED <<short, raced>>
                BY <2>1 DEF get_handler, GetData, put_handler, put_handler_Fails, PutRemBytes,
                            Garbled, Reset, Close
            <3> QED
                BY <1>1, <3>1
        <2> QED
            BY <1>4, <1>5, <1>6, <1>7, <2>1 DEF clithread
    <1>8. ASSUME NEW f \in File, OtherOpen(f)
          PROVE  (short => short') /\ (raced => raced')
        <2>1. short' = short
            BY <1>8 DEF OtherOpen
        <2>2. raced => raced'
            BY <1>8, Zenon DEF OtherOpen
        <2> QED
            BY <2>1, <2>2, Zenon
    <1>9. ASSUME NEW f \in File, OtherWrite(f)
          PROVE  (short => short') /\ (raced => raced')
        <2>1. short' = short
            BY <1>9 DEF OtherWrite
        <2>2. raced => raced'
            BY <1>9, WritingRaces, Zenon DEF OtherWrite
        <2> QED
            BY <2>1, <2>2, Zenon
    <1>10. CASE ServerEnds \/ UNCHANGED vars
        <2>1. UNCHANGED <<short, raced>>
            BY <1>10 DEF ServerEnds, vars
        <2> QED
            BY <1>1, <2>1
    <1> QED
        BY <1>2, <1>3, <1>4, <1>5, <1>7, <1>8, <1>9, <1>10 DEF Next, Receive

LEMMA FileReplaced ==
    ASSUME CopiesRight, NEW h \in Host, NEW f \in File, NEW data,
           Whole(f, data, Place(Blocks(data))), disk'[h][f] = data,
           \A g \in Host, k \in File : <<g, k>> # <<h, f>> => disk'[g][k] = disk[g][k]
    PROVE  CopiesRight'
    <1>1. ASSUME NEW g \in Host, NEW k \in File
          PROVE  Whole(k, disk'[g][k], Place(Blocks(disk'[g][k])))
        <2>1. CASE <<g, k>> = <<h, f>>
            BY <2>1
        <2>2. CASE <<g, k>> # <<h, f>>
            BY <2>2 DEF CopiesRight
        <2> QED
            BY <2>1, <2>2
    <1> QED
        BY <1>1 DEF CopiesRight

LEMMA NothingWhole == \A f, data : Whole(f, data, 0) /\ Whole(f, <<>>, Place(Blocks(<<>>)))
    BY EmptyData DEF Whole

LEMMA BlockWhole ==
    ASSUME NEW c \in {"PUT", "GET"}, NEW f \in File, NEW buf \in Seq(Byte),
           NEW h, h = <<c, f, Len(buf)>>,
           NEW i \in Nat, i < Blocks(buf), NEW s \in Seq(Unit), NEW ended \in BOOLEAN,
           NEW m \in Lengths(s, Block, ended), ~(m < Block),
           Continues("exactly", h, Place(i), s, 0), Whole(f, buf, Place(i))
    PROVE  /\ Whole(f, Stored(buf, i, SubSeq(s, 1, m)), Place(i + 1))
           /\ Continues("exactly", h, Place(i + 1), After(s, m), 0)
    <1>1. m \in Nat /\ m <= Block /\ m <= Len(s)
        BY BlockNat, LengthsProperties
    <1>2. m = Block
        BY <1>1, BlockNat
    <1>3. Place(i) \in Nat /\ Place(i + 1) = Place(i) + m
        BY <1>2, BlockNat, PlaceNat, PlaceNext
    <1>4. DataSize(h) \in Nat
        BY BlocksOf, BlockNat DEF DataSize
    <1>5. Continues("exactly", h, Place(i) + m, After(s, m), 0)
        BY <1>1, <1>3, <1>4, ContinuesOn
    <1>6. Whole(f, Stored(buf, i, SubSeq(s, 1, m)), Place(i + 1))
        BY <1>1, <1>2, BlockRight, UnitKinds, BlockNat
    <1> QED
        BY <1>3, <1>5, <1>6

\* The rest of a put asks for no certain number of bytes, and gets no more of
\* them than there are.
LEMMA RestOnly ==
    ASSUME NEW buf \in Seq(Byte), NEW h, DataSize(h) = Len(buf), NEW s \in Seq(Unit),
           NEW m \in Nat, m <= Len(s), \A k \in 1 .. m : ~IsHeader(s[k]),
           Continues("exactly", h, Place(Blocks(buf)), s, 0)
    PROVE  m <= Rest(buf)
    <1>0. Rest(buf) \in Nat
        BY BlocksOf, BlockNat
    <1> SUFFICES ASSUME m > Rest(buf) PROVE FALSE
        BY <1>0
    <1> DEFINE r == Rest(buf)
               w == Place(Blocks(buf))
    <1>1. r \in Nat /\ w \in Nat /\ DataSize(h) = w + r /\ r + 1 <= m
        <2>1. r \in Nat /\ w \in Nat /\ Len(buf) = w + r
            BY BlocksOf, BlockNat
        <2> QED
            BY <2>1
    <1> HIDE DEF r, w
    <1>2. /\ r + 1 \in 1 .. DataSize(h) + 1 - w /\ r + 1 \in 1 .. m
          /\ 0 + (r + 1) = r + 1 /\ 0 + (r + 1) <= Len(s)
          /\ w + (r + 1) > DataSize(h)
        BY <1>1, InStream, UnitKinds
    <1>3. Follows("exactly", h, w + (r + 1), s[0 + (r + 1)])
        BY <1>2 DEF Continues, w
    <1>4. IsHeader(s[r + 1])
        BY <1>2, <1>3 DEF Follows
    <1> QED
        BY <1>2, <1>4

LEMMA PutsRightSent ==
    ASSUME TypeOK, ToServer, PutsRight, ~ClientGone, NEW h \in Header, NEW t \in Seq(Byte),
           c2s' = (c2s \o <<h>>) \o t, UNCHANGED <<spc, sfile, sbuf, si>>,
           Frames("exactly", c2s')
    PROVE  PutsRight'
    <1>1. ASSUME spc \in {"put", "rest"}
          PROVE  Continues("exactly", PutInHand, PutDone, c2s', 0)
        <2>1. Continues("exactly", PutInHand, PutDone, c2s, 0) /\ Len(sbuf) <= PutDone + Len(c2s)
            BY <1>1 DEF ToServer, PutsRight
        <2>2. DataSize(PutInHand) = Len(sbuf) /\ PutDone \in Nat
            BY Types DEF PutInHand, DataSize, PutDone
        <2> QED
            BY <2>1, <2>2, Types, FrameFollows
    <1>2. PutInHand' = PutInHand /\ PutDone' = PutDone
        BY DEF PutInHand, PutDone
    <1> QED
        BY <1>1, <1>2 DEF PutsRight

LEMMA PutsRightSame ==
    ASSUME PutsRight, UNCHANGED <<c2s, spc, sfile, sbuf, si>>
    PROVE  PutsRight'
    BY DEF PutsRight, PutInHand, PutDone

LEMMA PutsRightTaken ==
    ASSUME TypeOK, PutsRight, NEW m \in Nat, m <= Len(c2s), c2s' = After(c2s, m),
           spc' \notin {"put", "rest"}
    PROVE  PutsRight'
    BY Types, FramesAfter, UnitKinds DEF PutsRight

LEMMA GetsRightSame ==
    ASSUME GetsRight, UNCHANGED <<s2c, cpc, cfile, cbuf, ci>>, spc' # "get"
    PROVE  GetsRight'
    BY DEF GetsRight, GetInHand, GetDone, ClientGone

\* A header may follow: what was sent before it is all there.
LEMMA GetsRightSent ==
    ASSUME TypeOK, ToClient, GetsRight, spc = "command", NEW h \in Header, s2c' = Append(s2c, h),
           UNCHANGED <<cpc, cfile, cbuf, ci>>,
           spc' = "get" => Len(disk'["server"][sfile']) = Len(sbuf')
    PROVE  GetsRight'
    <1>1. Complete(s2c, 0) /\ Owed = 0
        BY DEF ToClient, Owed
    <1>2. h \in Unit
        BY DEF Unit
    <1>3. s2c' = s2c \o <<h>> /\ (~ClientGone => Frames("exactly", s2c'))
        BY <1>1, <1>2, Types, HeaderAppended, AppendIsConcat, UnitKinds DEF GetsRight
    <1>4. ASSUME cpc = "get"
          PROVE  Continues("exactly", GetInHand, GetDone, s2c', 0)
        <2>1. /\ Continues("exactly", GetInHand, GetDone, s2c, 0)
              /\ Len(cbuf) <= GetDone + Len(s2c)
            <3>1. Len(cbuf) <= GetDone + Len(s2c) + Owed /\ GetDone \in Nat
                BY <1>4, Types DEF ToClient, GetDone
            <3> QED
                BY <1>1, <1>4, <3>1, Types DEF GetsRight
        <2>2. DataSize(GetInHand) = Len(cbuf) /\ GetDone \in Nat
            BY Types DEF GetInHand, DataSize, GetDone
        <2> QED
            BY <1>3, <2>1, <2>2, Types, EmptyData, FrameFollows
    <1>5. GetInHand' = GetInHand /\ GetDone' = GetDone /\ ClientGone' = ClientGone
        BY DEF GetInHand, GetDone, ClientGone
    <1> QED
        BY <1>3, <1>4, <1>5 DEF GetsRight

LEMMA RightInit == Init => Right
    <1> SUFFICES ASSUME Init PROVE PutsRight /\ GetsRight /\ CopiesRight
        BY DEF Right
    <1>1. Frames("exactly", <<>>)
        BY EmptyData, DataOnly, UnitKinds
    <1>2. PutsRight /\ GetsRight
        BY <1>1 DEF Init, PutsRight, GetsRight
    <1>3. ASSUME NEW h \in Host, NEW f \in File
          PROVE  Whole(f, disk[h][f], Place(Blocks(disk[h][f])))
        <2>1. disk[h][f] = Original(f) \/ disk[h][f] = <<>>
            BY DEF Init
        <2> QED
            BY <2>1, OriginalBlocks, NothingWhole
    <1> QED
        BY <1>2, <1>3 DEF CopiesRight

LEMMA RightConsole ==
    ASSUME TypeOK, ToServer, PutsRight, GetsRight, CopiesRight, console
    PROVE  PutsRight' /\ GetsRight' /\ CopiesRight'
    <1> USE DEF files, client, server, other
    <1>1. CopiesRight'
        <2>1. disk' = disk
            BY DEF console, comm_put, comm_put_Missing, comm_get, comm_Broken, Quit
        <2> QED
            BY <2>1 DEF CopiesRight
    <1>2. GetsRight'
        <2>1. UNCHANGED <<s2c, cfile, cbuf, ci, spc, sfile, sbuf, disk>> /\ ~ClientGone
              /\ (cpc' = "get" => cpc = "get")
            BY DEF console, comm_put, comm_put_Missing, comm_get, comm_Broken, Quit, Typed, ClientGone
        <2> QED
            BY <2>1 DEF GetsRight, GetInHand, GetDone
    <1>3. ASSUME NEW f \in File, comm_put(f)
          PROVE  PutsRight'
        <2> DEFINE data == disk["client"][f]
                   h == PutOf(f)
                   t == PutData(f)
        <2>1. c2s' = (c2s \o <<h>>) \o t /\ UNCHANGED <<spc, sfile, sbuf, si>> /\ ~ClientGone
            BY <1>3 DEF comm_put, PutOf, PutData, Typed, ClientGone
        <2>2. data \in Seq(Byte) /\ Whole(f, data, Place(Blocks(data)))
            BY DiskType, Hosts DEF CopiesRight
        <2>3. /\ h \in Header /\ t \in Seq(Byte) /\ Len(t) = DataSize(h)
              /\ \A j \in 1 .. Len(t) : Follows("exactly", h, j, t[j])
            <3>1. h = <<"PUT", f, Len(data)>> /\ t = Sent(data)
                BY DEF PutOf, PutData
            <3> HIDE DEF data, h, t
            <3>2. Len(t) = Len(data) /\ \A j \in 1 .. Len(data) : Follows("exactly", h, j, t[j])
                BY <2>2, <3>1, SentFollows, UnitKinds, BlockNat
            <3> QED
                BY <3>2, PutSends DEF h, t
        <2>4. Frames("exactly", c2s) /\ Complete(c2s, 0)
            BY <2>1 DEF PutsRight, ToServer
        <2>5. Frames("exactly", c2s')
            BY <2>1, <2>3, <2>4, Types, FrameAppended, UnitKinds
        <2> QED
            BY <2>1, <2>3, <2>5, PutsRightSent
    <1>4. ASSUME NEW h \in Header, c2s' = Append(c2s, h), UNCHANGED <<spc, sfile, sbuf, si>>,
                 cpc = "console"
          PROVE  PutsRight'
        <2>1. ~ClientGone
            BY <1>4 DEF ClientGone
        <2>2. Frames("exactly", c2s) /\ Complete(c2s, 0)
            BY <2>1 DEF PutsRight, ToServer
        <2>3. c2s' \in Seq(Unit) /\ c2s' = c2s \o <<h>> /\ Frames("exactly", c2s')
            BY <1>4, <2>2, Types, HeaderAppended, UnitKinds
        <2>4. c2s' = (c2s \o <<h>>) \o <<>>
            BY <2>3, ConcatEmptySeq
        <2> QED
            BY <1>4, <2>1, <2>3, <2>4, EmptyData, PutsRightSent
    <1>5. ASSUME NEW f \in File, comm_put_Missing(f)
          PROVE  PutsRight'
        <2>1. PICK size \in 0 .. Block : c2s' = Append(c2s, <<"PUT", f, size>>)
            BY <1>5 DEF comm_put_Missing
        <2>2. <<"PUT", f, size>> \in Header
            BY <2>1, BlockNat, MadeHeader
        <2>3. UNCHANGED <<spc, sfile, sbuf, si>> /\ cpc = "console"
            BY <1>5 DEF comm_put_Missing, Typed
        <2> QED
            BY <1>4, <2>1, <2>2, <2>3
    <1>6. ASSUME NEW f \in File, comm_get(f)
          PROVE  PutsRight'
        <2>1. <<"GET", f, 0>> \in Header
            BY MadeHeader
        <2>2. c2s' = Append(c2s, <<"GET", f, 0>>)
              /\ UNCHANGED <<spc, sfile, sbuf, si>> /\ cpc = "console"
            BY <1>6 DEF comm_get, Typed
        <2> QED
            BY <1>4, <2>1, <2>2
    <1>7. CASE comm_Broken \/ Quit
        <2>1. UNCHANGED <<c2s, spc, sfile, sbuf, si>>
            BY <1>7 DEF comm_Broken, Quit
        <2> QED
            BY <1>1, <1>2, <2>1, PutsRightSame
    <1> QED
        BY <1>1, <1>2, <1>3, <1>5, <1>6, <1>7 DEF console

LEMMA RightReceive ==
    ASSUME TypeOK, ToClient, PutsRight, GetsRight, CopiesRight, Receive, ~short'
    PROVE  PutsRight' /\ GetsRight' /\ CopiesRight'
    <1> USE DEF files, client, server, other
    <1>1. PutsRight'
        <2>1. UNCHANGED <<c2s, spc, sfile, sbuf, si>>
            BY DEF Receive, GetReset, GetHeader, PartOfHeader, GetBlock, GetRest
        <2> QED
            BY <2>1, PutsRightSame
    <1>2. spc' = spc /\ sfile' = sfile /\ sbuf' = sbuf /\ ~ClientGone
        BY DEF Receive, GetReset, GetHeader, PartOfHeader, GetBlock, GetRest, ClientGone
    <1>3. Frames("exactly", s2c) /\ (spc = "get" => Len(disk["server"][sfile]) = Len(sbuf))
        BY <1>2 DEF GetsRight
    <1>4. CASE disk' = disk /\ cpc' \in {"closed", "undefined"}
        BY <1>1, <1>2, <1>3, <1>4 DEF GetsRight, CopiesRight, ClientGone
    <1>5. CASE GetHeader /\ cpc' = "get"
        <2>1. /\ s2c # <<>> /\ IsHeader(Head(s2c)) /\ Command(Head(s2c)) = "GET"
              /\ cfile' = FileName(Head(s2c)) /\ cbuf' = Fresh(DataSize(Head(s2c)))
              /\ ci' = 0 /\ s2c' = Tail(s2c) /\ disk' = disk
            BY <1>5 DEF GetHeader
        <2>2. /\ DataSize(Head(s2c)) \in Nat
              /\ Head(s2c) = <<"GET", FileName(Head(s2c)), DataSize(Head(s2c))>>
              /\ s2c' = After(s2c, 1) /\ 1 <= Len(s2c) /\ 1 \in Nat
              /\ Continues("exactly", Head(s2c), 0, s2c', 0)
            BY <1>3, <2>1, Types, HeaderTaken
        <2>3. cbuf' \in Seq(Byte) /\ Len(cbuf') = DataSize(Head(s2c))
            BY <2>1, <2>2, ByteProperties, FreshProperties
        <2>4. GetInHand' = Head(s2c) /\ GetDone' = 0
            BY <2>1, <2>2, <2>3, EmptyData DEF GetInHand, GetDone
        <2>5. Frames("exactly", s2c')
            BY <1>3, <2>2, Types, FramesAfter, UnitKinds
        <2> QED
            BY <1>1, <1>2, <1>3, <2>1, <2>2, <2>4, <2>5, NothingWhole DEF GetsRight, CopiesRight
    <1>6. CASE GetBlock
        <2>1. PICK m \in Lengths(s2c, Block, ServerGone) :
                  /\ cbuf' = Stored(cbuf, ci, SubSeq(s2c, 1, m))
                  /\ s2c' = After(s2c, m)
                  /\ short' = (short \/ m < Block)
            BY <1>6 DEF GetBlock
        <2>2. ~(m < Block)
            BY <2>1, Zenon
        <2>3. /\ ServerGone \in BOOLEAN
              /\ cpc = "get" /\ cpc' = cpc /\ ci' = ci + 1 /\ cfile' = cfile /\ disk' = disk
            BY <1>6 DEF GetBlock, ServerGone
        <2>4. /\ ci < Blocks(cbuf) /\ Continues("somehow", GetInHand, Place(ci), s2c, 0)
              /\ Continues("exactly", GetInHand, Place(ci), s2c, 0) /\ Whole(cfile, cbuf, Place(ci))
            BY <1>6 DEF GetBlock, ToClient, GetsRight, GetDone
        <2>5. m \in Nat /\ m <= Len(s2c) /\ Len(cbuf') = Len(cbuf)
            BY <2>1, <2>3, <2>4, Types, BlockTaken DEF GetInHand
        <2>6. Whole(cfile, cbuf', Place(ci')) /\ Continues("exactly", GetInHand, Place(ci'), s2c', 0)
            BY <2>1, <2>2, <2>3, <2>4, Types, BlockWhole DEF GetInHand
        <2>7. Frames("exactly", s2c')
            BY <1>3, <2>1, <2>5, Types, FramesAfter, UnitKinds
        <2>8. GetInHand' = GetInHand /\ GetDone' = Place(ci')
            BY <2>3, <2>5 DEF GetInHand, GetDone
        <2> QED
            BY <1>1, <1>2, <1>3, <2>3, <2>6, <2>7, <2>8 DEF GetsRight, CopiesRight
    <1>7. CASE GetRest /\ cpc' = "console"
        <2>1. PICK m \in Lengths(s2c, Rest(cbuf), ServerGone) :
                  /\ s2c' = After(s2c, m)
                  /\ SaveFile("client", cfile, Stored(cbuf, ci - 1, SubSeq(s2c, 1, m)))
            BY <1>7 DEF GetRest
        <2>2. ServerGone \in BOOLEAN /\ cpc = "get" /\ ci = Blocks(cbuf)
            BY <1>7 DEF GetRest, ServerGone
        <2>3. /\ Continues("somehow", GetInHand, Place(Blocks(cbuf)), s2c, 0)
              /\ Continues("exactly", GetInHand, Place(Blocks(cbuf)), s2c, 0)
              /\ Whole(cfile, cbuf, Place(Blocks(cbuf)))
            BY <2>2 DEF ToClient, GetsRight, GetDone
        <2> DEFINE new == Stored(cbuf, Blocks(cbuf) - 1, SubSeq(s2c, 1, m))
        <2>4. /\ m \in Nat /\ m <= Rest(cbuf) /\ m <= Len(s2c) /\ new \in Seq(Byte)
            BY <2>1, <2>2, <2>3, Types, RestTaken DEF GetInHand
        <2>5. Whole(cfile, new, Place(Blocks(new)))
            BY <2>3, <2>4, Types, RestRight, UnitKinds, BlockNat DEF GetInHand
        <2>6. SaveFile("client", cfile, new)
            BY <2>1, <2>2
        <2> HIDE DEF new
        <2>7. /\ disk'["client"][cfile] = new
              /\ \A g \in Host, k \in File : <<g, k>> # <<"client", cfile>> => disk'[g][k] = disk[g][k]
            BY <2>4, <2>6, Types, Hosts, SaveFileDoes
        <2>8. CopiesRight'
            BY <2>5, <2>7, Types, Hosts, FileReplaced
        <2>9. disk'["server"][sfile] = disk["server"][sfile]
            BY <2>7, Types, Hosts
        <2>10. Frames("exactly", s2c')
            BY <1>3, <2>1, <2>4, Types, FramesAfter, UnitKinds
        <2> QED
            BY <1>1, <1>2, <1>3, <1>7, <2>8, <2>9, <2>10 DEF GetsRight
    <1>8. CASE GetReset \/ PartOfHeader \/ (GetHeader /\ cpc' # "get") \/ (GetRest /\ cpc' # "console")
        <2>1. disk' = disk /\ cpc' \in {"closed", "undefined"}
            BY <1>8 DEF GetReset, PartOfHeader, GetHeader, GetRest
        <2> QED
            BY <1>4, <2>1
    <1> QED
        BY <1>5, <1>6, <1>7, <1>8 DEF Receive

LEMMA RightHandler ==
    ASSUME TypeOK, ToServer, ToClient, InTurn, PutsRight, GetsRight, CopiesRight, clithread,
           ~short', ~raced', ~short, ~raced
    PROVE  PutsRight' /\ GetsRight' /\ CopiesRight'
    <1> USE DEF files, client, server, other
    <1>1. Frames("exactly", c2s)
        BY DEF PutsRight
    <1>2. CASE get_handler
        <2> DEFINE f == FileName(Head(c2s))
        <2>1. /\ Request("GET") /\ c2s' = Tail(c2s) /\ spc' \in {"get", "closed"} /\ spc = "command"
              /\ UNCHANGED <<cpc, cfile, cbuf, ci, disk>>
            BY <1>2 DEF get_handler, Request
        <2>2. f \in File /\ c2s' = After(c2s, 1) /\ 1 \in Nat /\ 1 <= Len(c2s)
            BY <2>1, RequestTaken
        <2>3. PutsRight'
            BY <2>1, <2>2, PutsRightTaken
        <2>4. CopiesRight'
            BY <2>1 DEF CopiesRight
        <2>5. CASE f \in stored["server"]
            <3>1. /\ s2c' = Append(s2c, <<"GET", f, Len(disk["server"][f])>>)
                  /\ sfile' = f /\ sbuf' = Fresh(Len(disk["server"][f]))
                BY <1>2, <2>5 DEF get_handler
            <3> HIDE DEF f
            <3>2. Len(disk["server"][f]) \in Nat
                BY <2>2, DiskType, Hosts
            <3>3. Len(sbuf') = Len(disk["server"][f])
                BY <3>1, <3>2, ByteProperties, FreshProperties
            <3>4. <<"GET", f, Len(disk["server"][f])>> \in Header
                BY <2>2, <3>2, MadeHeader
            <3>5. GetsRight'
                BY <2>1, <3>1, <3>3, <3>4, GetsRightSent
            <3> QED
                BY <2>3, <2>4, <3>5
        <2>6. CASE f \notin stored["server"]
            <3>1. s2c' = Append(s2c, <<"ERROR", f, 0>>) /\ spc' = "closed"
                BY <1>2, <2>6 DEF get_handler
            <3> HIDE DEF f
            <3>2. 0 \in Nat
                OBVIOUS
            <3>3. <<"ERROR", f, 0>> \in Header
                BY <2>2, <3>2, MadeHeader
            <3>4. GetsRight'
                BY <2>1, <3>1, <3>3, GetsRightSent
            <3> QED
                BY <2>3, <2>4, <3>4
        <2> QED
            BY <2>5, <2>6
    <1>3. CASE GetData
        <2> DEFINE old == disk["server"][sfile]
                   data == Sent(Over(old, sbuf))
                   h == <<"GET", sfile, Len(sbuf)>>
        <2>1. /\ s2c' = s2c \o data /\ spc = "get" /\ spc' = "command"
              /\ UNCHANGED <<c2s, cpc, cfile, cbuf, ci, disk>>
            BY <1>3 DEF GetData
        <2>2. old \in Seq(Byte) /\ Len(old) = Len(sbuf) /\ Whole(sfile, old, Place(Blocks(old)))
            BY <2>1, DiskType, Types, Hosts DEF GetsRight, CopiesRight
        <2>3. Over(old, sbuf) = old
            BY <2>2, Types, OverProperties
        <2>4. /\ data \in Seq(Byte) /\ data \in Seq(Unit) /\ Len(data) = Len(sbuf) /\ Len(sbuf) \in Nat
              /\ \A j \in 1 .. Len(sbuf) : Follows("exactly", h, j, data[j])
            <3>1. data = Sent(old) /\ h = <<"GET", sfile, Len(old)>>
                BY <2>2, <2>3
            <3> HIDE DEF old, data, h
            <3>2. data \in Seq(Byte) /\ Len(data) = Len(old)
                  /\ \A j \in 1 .. Len(old) : Follows("exactly", h, j, data[j])
                BY <2>2, <3>1, Types, SentFollows, UnitKinds, BlockNat
            <3> QED
                BY <2>2, <3>2, Types, DataOnly, UnitKinds
        <2>5. h \in Header /\ DataSize(h) = Len(sbuf)
            BY <2>4, Types, MadeHeader
        <2>6. PutsRight' /\ CopiesRight'
            BY <2>1 DEF PutsRight, CopiesRight
        <2> HIDE DEF old, data
        <2>7. ASSUME Len(sbuf) = 0
              PROVE  s2c' = s2c
            <3>1. data = <<>>
                BY <2>4, <2>7, EmptySeq
            <3> QED
                BY <2>1, <3>1, Types, ConcatEmptySeq
        <2>8. CASE ClientGone \/ Len(sbuf) = 0
            BY <2>1, <2>6, <2>7, <2>8 DEF GetsRight, GetInHand, GetDone, ClientGone
        <2>9. CASE ~ClientGone /\ Len(sbuf) > 0
            <3>1. cpc \in {"console", "header", "get"} /\ ~ServerGone /\ Owed = Len(sbuf) /\ Owed > 0
                BY <2>1, <2>9 DEF TypeOK, ClientPC, ClientGone, ServerGone, Owed
            <3>2. CASE cpc = "console"
                BY <2>4, <2>9, <3>1, <3>2 DEF InTurn, AtConsole
            <3>3. CASE cpc = "header"
                <4>1. s2c = <<h>>
                    BY <2>4, <2>9, <3>1, <3>3 DEF InTurn, Requested, Answered
                <4> HIDE DEF h
                <4>2. Frames("exactly", <<>>) /\ Complete(<<>>, 0) /\ <<>> \in Seq(Unit)
                    BY EmptyData, DataOnly, UnitKinds DEF Complete
                <4>3. Frames("exactly", (<<>> \o <<h>>) \o data)
                    BY <2>4, <2>5, <4>2, FrameAppended, UnitKinds
                <4>4. <<>> \o <<h>> = <<h>>
                    BY <4>1, Types, ConcatEmptySeq
                <4>5. Frames("exactly", s2c')
                    BY <2>1, <4>1, <4>3, <4>4
                <4> QED
                    BY <2>1, <2>6, <3>3, <4>5 DEF GetsRight
            <3>4. CASE cpc = "get"
                <4>1. s2c = <<>> /\ cfile = sfile /\ ci = 0 /\ GetDone + Len(s2c) + Owed = Len(cbuf)
                    BY <3>1, <3>4 DEF InTurn, Receiving
                <4>2. s2c' = data /\ GetDone = 0
                    <5>1. s2c' = <<>> \o data
                        BY <2>1, <4>1
                    <5>2. <<>> \o data = data
                        BY <2>4, ConcatEmptySeq
                    <5> QED
                        BY <4>1, <5>1, <5>2, EmptyData DEF GetDone
                <4>3. Len(cbuf) = Len(sbuf)
                    BY <2>4, <3>1, <4>1, <4>2, EmptyData
                <4>4. GetInHand = h
                    BY <4>1, <4>3 DEF GetInHand
                <4>5. Continues("exactly", h, 0, data, 0)
                    <5>1. ASSUME NEW k \in 1 .. DataSize(h) + 1 - 0, 0 + k <= Len(data)
                          PROVE  k \in 1 .. Len(sbuf) /\ 0 + k = k
                        BY <2>4, <2>5, <5>1
                    <5> HIDE DEF h
                    <5> QED
                        BY <2>4, <5>1 DEF Continues
                <4>6. Frames("exactly", s2c')
                    BY <2>4, <4>2, DataOnly, UnitKinds
                <4>7. GetInHand' = GetInHand /\ GetDone' = GetDone
                    BY <2>1 DEF GetInHand, GetDone
                <4>8. Whole(cfile, cbuf, 0)
                    BY NothingWhole
                <4> QED
                    BY <2>1, <2>6, <4>2, <4>4, <4>5, <4>6, <4>7, <4>8 DEF GetsRight
            <3> QED
                BY <3>1, <3>2, <3>3, <3>4
        <2> QED
            BY <2>4, <2>8, <2>9
    <1>4. CASE put_handler
        <2> DEFINE f == FileName(Head(c2s))
        <2>1. /\ Request("PUT") /\ c2s' = Tail(c2s) /\ spc = "command" /\ spc' = "put" /\ si' = 0
              /\ sfile' = f /\ sbuf' = Fresh(DataSize(Head(c2s)))
              /\ SaveFile("server", f, <<>>)
              /\ UNCHANGED <<s2c, cpc, cfile, cbuf, ci>>
            BY <1>4 DEF put_handler, Request
        <2>2. /\ f \in File /\ c2s' = After(c2s, 1) /\ 1 \in Nat /\ 1 <= Len(c2s)
              /\ c2s # <<>> /\ IsHeader(Head(c2s)) /\ Command(Head(c2s)) = "PUT"
            BY <2>1, RequestTaken
        <2>3. /\ DataSize(Head(c2s)) \in Nat /\ Head(c2s) = <<"PUT", f, DataSize(Head(c2s))>>
              /\ Continues("exactly", Head(c2s), 0, Tail(c2s), 0)
            BY <1>1, <2>2, Types, HeaderTaken
        <2>4. Len(sbuf') = DataSize(Head(c2s))
            BY <2>1, <2>3, ByteProperties, FreshProperties
        <2>5. PutInHand' = Head(c2s) /\ PutDone' = 0
            BY <2>1, <2>3, <2>4, EmptyData DEF PutInHand, PutDone
        <2> HIDE DEF f
        <2>6. Frames("exactly", c2s')
            BY <1>1, <2>2, Types, FramesAfter, UnitKinds
        <2>7. PutsRight'
            BY <2>1, <2>3, <2>5, <2>6, NothingWhole DEF PutsRight
        <2>8. GetsRight'
            BY <2>1, GetsRightSame
        <2>9. /\ disk'["server"][f] = <<>>
              /\ \A g \in Host, k \in File : <<g, k>> # <<"server", f>> => disk'[g][k] = disk[g][k]
            BY <2>1, <2>2, Hosts, EmptyData, SaveFileDoes
        <2>10. CopiesRight'
            BY <2>2, <2>9, Hosts, NothingWhole, FileReplaced
        <2> QED
            BY <2>7, <2>8, <2>10
    <1>5. CASE put_handler_Fails
        <2>1. /\ Request("PUT") /\ c2s' = Tail(c2s) /\ spc = "command" /\ spc' = "closed"
              /\ s2c' = Append(s2c, <<"ERROR", FileName(Head(c2s)), 0>>)
              /\ UNCHANGED <<cpc, cfile, cbuf, ci, disk>>
            BY <1>5 DEF put_handler_Fails, Request
        <2>2. FileName(Head(c2s)) \in File /\ c2s' = After(c2s, 1) /\ 1 \in Nat /\ 1 <= Len(c2s)
            BY <2>1, RequestTaken
        <2>3. PutsRight'
            BY <2>1, <2>2, PutsRightTaken
        <2>4. CopiesRight'
            BY <2>1 DEF CopiesRight
        <2>5. 0 \in Nat
            OBVIOUS
        <2>6. <<"ERROR", FileName(Head(c2s)), 0>> \in Header
            BY <2>2, <2>5, MadeHeader
        <2>7. GetsRight'
            BY <2>1, <2>6, GetsRightSent
        <2> QED
            BY <2>3, <2>4, <2>7
    <1>6. CASE PutBlock
        <2>1. PICK m \in Lengths(c2s, Block, ClientGone) :
                  /\ sbuf' = Stored(sbuf, si, SubSeq(c2s, 1, m))
                  /\ c2s' = After(c2s, m)
                  /\ short' = (short \/ m < Block)
            BY <1>6 DEF PutBlock
        <2>2. ~(m < Block)
            BY <2>1, Zenon
        <2>3. /\ ClientGone \in BOOLEAN
              /\ spc = "put" /\ spc' = spc /\ si' = si + 1 /\ sfile' = sfile
              /\ UNCHANGED <<s2c, cpc, cfile, cbuf, ci, disk>>
            BY <1>6 DEF PutBlock, ClientGone
        <2>4. /\ si < Blocks(sbuf) /\ Continues("somehow", PutInHand, Place(si), c2s, 0)
              /\ Continues("exactly", PutInHand, Place(si), c2s, 0) /\ Whole(sfile, sbuf, Place(si))
            BY <1>6 DEF PutBlock, ToServer, PutsRight, PutDone
        <2>5. m \in Nat /\ m <= Len(c2s) /\ Len(sbuf') = Len(sbuf)
            BY <2>1, <2>3, <2>4, Types, BlockTaken DEF PutInHand
        <2>6. Whole(sfile, sbuf', Place(si')) /\ Continues("exactly", PutInHand, Place(si'), c2s', 0)
            BY <2>1, <2>2, <2>3, <2>4, Types, BlockWhole DEF PutInHand
        <2>7. Frames("exactly", c2s')
            BY <1>1, <2>1, <2>5, Types, FramesAfter, UnitKinds
        <2>8. PutInHand' = PutInHand /\ PutDone' = Place(si')
            BY <2>3, <2>5 DEF PutInHand, PutDone
        <2>9. PutsRight'
            BY <2>3, <2>6, <2>7, <2>8 DEF PutsRight
        <2>10. GetsRight'
            BY <2>3, GetsRightSame
        <2> QED
            BY <2>3, <2>9, <2>10 DEF CopiesRight
    <1>7. CASE PutRemBytes
        <2>1. /\ spc = "put" /\ spc' = "rest"
              /\ UNCHANGED <<c2s, sfile, sbuf, si, s2c, cpc, cfile, cbuf, ci, disk>>
            BY <1>7 DEF PutRemBytes
        <2>2. PutInHand' = PutInHand /\ PutDone' = PutDone
            BY <2>1 DEF PutInHand, PutDone
        <2>3. PutsRight'
            BY <2>1, <2>2 DEF PutsRight
        <2>4. GetsRight'
            BY <2>1, GetsRightSame
        <2> QED
            BY <2>1, <2>3, <2>4 DEF CopiesRight
    <1>8. CASE PutRest
        <2>1. /\ spc = "rest" /\ spc' \in {"command", "undefined", "closed"} /\ si = Blocks(sbuf)
              /\ ClientGone \in BOOLEAN /\ UNCHANGED <<s2c, cpc, cfile, cbuf, ci>>
            BY <1>8 DEF PutRest, ToServer, ClientGone
        <2>2. GetsRight'
            BY <2>1, GetsRightSame
        <2>3. /\ Whole(sfile, sbuf, Place(Blocks(sbuf)))
              /\ Continues("exactly", PutInHand, Place(Blocks(sbuf)), c2s, 0)
            BY <2>1 DEF PutsRight, PutDone
        <2>4. ASSUME NEW m \in Lengths(c2s, rem_bytes, ClientGone), rem_bytes >= 0,
                     c2s' = After(c2s, m)
              PROVE  PutsRight'
            <3>1. rem_bytes \in Nat
                BY <2>4, Types
            <3>2. m \in Nat /\ m <= Len(c2s)
                BY <2>1, <3>1, Types, LengthsProperties
            <3> QED
                BY <2>1, <2>4, <3>2, PutsRightTaken
        <2>5. ASSUME NEW m \in Lengths(c2s, rem_bytes, ClientGone), rem_bytes >= 0,
                     ~MeetsHeader(c2s, m), WriteFile(sfile, Stored(sbuf, si - 1, SubSeq(c2s, 1, m)))
              PROVE  CopiesRight'
            <3> DEFINE new == Stored(sbuf, Blocks(sbuf) - 1, SubSeq(c2s, 1, m))
            <3>1. rem_bytes \in Nat
                BY <2>5, Types
            <3>2. m \in Nat /\ m <= Len(c2s) /\ new \in Seq(Byte) /\ \A k \in 1 .. m : ~IsHeader(c2s[k])
                BY <2>1, <2>5, <3>1, Types, BytesReceived, UnitKinds, BlockNat
            <3>3. DataSize(PutInHand) = Len(sbuf)
                BY DEF PutInHand, DataSize
            <3>4. m <= Rest(sbuf)
                BY <2>3, <3>2, <3>3, Types, RestOnly
            <3>5. Whole(sfile, new, Place(Blocks(new)))
                BY <2>3, <3>2, <3>4, Types, RestRight, UnitKinds, BlockNat DEF PutInHand
            <3>6. WriteFile(sfile, new)
                BY <2>1, <2>5
            <3> HIDE DEF new
            <3>7. /\ disk'["server"][sfile] = new
                  /\ \A g \in Host, k \in File : <<g, k>> # <<"server", sfile>> => disk'[g][k] = disk[g][k]
                BY <3>2, <3>6, Types, WriteFileDoes
            <3> QED
                BY <3>5, <3>7, Types, Hosts, FileReplaced
        <2>6. ASSUME WriteFile(sfile, sbuf)
              PROVE  CopiesRight'
            <3>1. /\ disk'["server"][sfile] = sbuf
                  /\ \A g \in Host, k \in File : <<g, k>> # <<"server", sfile>> => disk'[g][k] = disk[g][k]
                BY <2>6, Types, WriteFileDoes
            <3> QED
                BY <2>3, <3>1, Types, Hosts, FileReplaced
        <2>7. ASSUME c2s' = c2s
              PROVE  PutsRight'
            BY <1>1, <2>1, <2>7 DEF PutsRight
        <2>8. ASSUME disk' = disk
              PROVE  CopiesRight'
            BY <2>8 DEF CopiesRight
        <2>9. PutsRight'
            BY <1>8, <2>4, <2>7 DEF PutRest
        <2>10. CopiesRight'
            BY <1>8, <2>5, <2>6, <2>8 DEF PutRest
        <2> QED
            BY <2>2, <2>9, <2>10
    <1>9. CASE Garbled \/ Close \/ PartOfCommand
        <2>1. /\ spc' \in {"undefined", "closed"}
              /\ UNCHANGED <<c2s, s2c, cpc, cfile, cbuf, ci, disk>>
            BY <1>9 DEF Garbled, Close, PartOfCommand
        <2>2. PutsRight'
            BY <1>1, <2>1 DEF PutsRight
        <2>3. GetsRight'
            BY <2>1, GetsRightSame
        <2> QED
            BY <2>1, <2>2, <2>3 DEF CopiesRight
    <1>10. CASE Reset
        <2>1. /\ spc' = "closed" /\ c2s' = <<>> /\ UNCHANGED <<s2c, cpc, cfile, cbuf, ci, disk>>
            BY <1>10 DEF Reset
        <2>2. Frames("exactly", <<>>)
            BY EmptyData, DataOnly, UnitKinds
        <2>3. PutsRight'
            BY <2>1, <2>2 DEF PutsRight
        <2>4. GetsRight'
            BY <2>1, GetsRightSame
        <2> QED
            BY <2>1, <2>3, <2>4 DEF CopiesRight
    <1> QED
        BY <1>2, <1>3, <1>4, <1>5, <1>6, <1>7, <1>8, <1>9, <1>10 DEF clithread

LEMMA RightStep ==
    ASSUME TypeOK, ToServer, ToClient, InTurn, Right, [Next]_vars
    PROVE  Right'
    <1> USE DEF files, client, server, other
    <1> SUFFICES ASSUME ~short', ~raced'
                 PROVE  PutsRight' /\ GetsRight' /\ CopiesRight'
        BY DEF Right
    <1>1. ~short /\ ~raced
        BY HistoryKept
    <1>2. PutsRight /\ GetsRight /\ CopiesRight
        BY <1>1 DEF Right
    <1>3. CASE ServerEnds
        <2>1. /\ UNCHANGED <<c2s, s2c, cpc, cfile, cbuf, ci, sfile, sbuf, si, disk>> /\ spc' = "dead"
            BY <1>3 DEF ServerEnds
        <2> QED
            BY <1>2, <2>1, GetsRightSame DEF PutsRight, CopiesRight
    <1>4. CASE UNCHANGED vars
        <2>1. UNCHANGED <<c2s, s2c, cpc, cfile, cbuf, ci, spc, sfile, sbuf, si, disk>>
            BY <1>4 DEF vars
        <2> QED
            BY <1>2, <2>1, PutsRightSame
            DEF GetsRight, GetInHand, GetDone, ClientGone, CopiesRight
    <1>5. ASSUME NEW f \in File, NEW data \in Seq(Byte),
                 Whole(f, data, Place(Blocks(data))),
                 UNCHANGED <<c2s, s2c, cpc, cfile, cbuf, ci, spc, sfile, sbuf, si>>,
                 disk'["server"][f] = data, ~(spc = "get" /\ sfile = f),
                 \A g \in Host, k \in File : <<g, k>> # <<"server", f>> => disk'[g][k] = disk[g][k]
          PROVE  PutsRight' /\ GetsRight' /\ CopiesRight'
        <2>1. PutsRight'
            BY <1>2, <1>5, PutsRightSame
        <2>2. CopiesRight'
            BY <1>2, <1>5, Hosts, FileReplaced
        <2>3. spc = "get" => disk'["server"][sfile] = disk["server"][sfile]
            BY <1>5, Types, Hosts
        <2>4. GetsRight'
            BY <1>2, <1>5, <2>3 DEF GetsRight, GetInHand, GetDone, ClientGone
        <2> QED
            BY <2>1, <2>2, <2>4
    <1>6. ASSUME NEW f \in File, OtherOpen(f)
          PROVE  PutsRight' /\ GetsRight' /\ CopiesRight'
        <2>1. /\ SaveFile("server", f, <<>>)
              /\ UNCHANGED <<c2s, s2c, cpc, cfile, cbuf, ci, spc, sfile, sbuf, si>>
            BY <1>6 DEF OtherOpen
        <2>2. ~(spc = "get" /\ sfile = f)
            BY <1>6, Zenon DEF OtherOpen
        <2>3. /\ disk'["server"][f] = <<>>
              /\ \A g \in Host, k \in File : <<g, k>> # <<"server", f>> => disk'[g][k] = disk[g][k]
            BY <2>1, Hosts, EmptyData, SaveFileDoes
        <2> QED
            BY <1>5, <2>1, <2>2, <2>3, EmptyData, NothingWhole
    <1>7. ASSUME NEW f \in File, OtherWrite(f)
          PROVE  PutsRight' /\ GetsRight' /\ CopiesRight'
        <2>1. /\ WriteFile(f, OtherCopy(f))
              /\ UNCHANGED <<c2s, s2c, cpc, cfile, cbuf, ci, spc, sfile, sbuf, si>>
            BY <1>7 DEF OtherWrite
        <2>2. /\ OtherCopy(f) \in Seq(Byte)
              /\ Whole(f, OtherCopy(f), Place(Blocks(OtherCopy(f))))
            BY OriginalBlocks
        <2>3. /\ disk'["server"][f] = OtherCopy(f) /\ ~(spc = "get" /\ sfile = f)
              /\ \A g \in Host, k \in File : <<g, k>> # <<"server", f>> => disk'[g][k] = disk[g][k]
            BY <2>1, <2>2, WriteFileDoes
        <2> QED
            BY <1>5, <2>1, <2>2, <2>3
    <1> QED
        BY <1>1, <1>2, <1>3, <1>4, <1>6, <1>7, RightConsole, RightReceive, RightHandler DEF Next

(***************************************************************************)
(* The theorems.                                                           *)
(***************************************************************************)
LEMMA Invariant == Spec => []Inv
    <1>1. Init => Inv
        BY TypeInit, ToServerInit, ToClientInit, InTurnInit, RightInit DEF Inv
    <1>2. Inv /\ [Next]_vars => Inv'
        BY TypeStep, ToServerStep, ToClientStep, InTurnStep, RightStep DEF Inv
    <1> QED
        BY <1>1, <1>2, PTL DEF Spec

\* comm_put, comm_get and the handlers of the server keep every variable in its
\* type: the bytes each of them stores in a file or a buffer are bytes of data
\* and never a header, however recv cuts the stream, for any block length and
\* any sizes of files.
THEOREM TypeCorrect == Spec => []TypeOK
    <1>1. Inv => TypeOK
        BY DEF Inv
    <1> QED
        BY <1>1, Invariant, PTL

\* comm_get and get_handler agree on how much of the stream one file is: as
\* long as every recv gets what it asked for, nothing of it is left when the
\* client is back at its console, even if the file changed its size between
\* get_handler's stat and its fread.
THEOREM GetsInFrame == Spec => []GetsStayInFrame
    <1>1. Inv => GetsStayInFrame
        BY DEF Inv, InTurn, AtConsole, GetsStayInFrame
    <1> QED
        BY <1>1, Invariant, PTL

\* The loops of comm_put, comm_get, get_handler and put_handler move whole
\* blocks to their places: neither the rest, which is sent from and received to
\* the block before, nor the unset rem_bytes, nor another thread's puts harm
\* them, as long as every recv gets what it asked for and no put falls into a
\* get or shortens a file.
THEOREM BlocksComeThrough == Spec => []BlocksArrive
    <1>1. Inv => BlocksArrive
        <2> SUFFICES ASSUME Inv, ~short, ~raced, NEW h \in Host, NEW f \in File,
                            NEW k \in 1 .. Blocks(Copy(h, f)) * Block
                     PROVE  Copy(h, f)[k] = <<f, k>>
            BY DEF BlocksArrive
        <2>1. Whole(f, disk[h][f], Place(Blocks(disk[h][f])))
            BY DEF Inv, Right, CopiesRight
        <2> QED
            BY <2>1 DEF Whole, Place, Copy
    <1> QED
        BY <1>1, Invariant, PTL
=============================================================================
