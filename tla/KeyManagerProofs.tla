--------------------------- MODULE KeyManagerProofs ---------------------------
(***************************************************************************)
(* Proofs about a key manager, for any channels and users, any number of   *)
(* answers under way, initializations and kills.                           *)
(***************************************************************************)
EXTENDS KeyManager, SequenceLemmas

Texts == Ids \cup {Root}

USE DEF Lists, Texts, files, keyFiles, main

-----------------------------------------------------------------------------
(* The lists *)

\* x stands among the first n texts of the list, and is not its root.
StandsWithin(list, n, x) ==
    \E j \in 1 .. Len(list) : j <= n /\ list[j] = x /\ (j = 1 => list[1] # Root)

\* The file's first n texts, or all there are: what sendFile reads of it.
FirstTexts(list, n) == SubSeq(list, 1, Min({n, Len(list)}))

\* revokeUser adds no id that indexOf finds, so none follows the head twice.
TailDistinct(list) ==
    \A j, k \in 2 .. Len(list) : list[j] = list[k] => j = k

\* StoodFor says in two cases what StandsWithin says of every position.
LEMMA StoodForIs ==
    ASSUME NEW list \in Lists, NEW x
    PROVE  x \in StoodFor(list) <=> StandsWithin(list, Len(list), x)
<1>1. list # NoFile
  BY KeyManagerAssumption
<1>2. CASE list = <<>>
  BY <1>2 DEF StoodFor, StandsWithin
<1>3. CASE list # <<>>
  <2>1. Len(list) \in Nat /\ Len(list) >= 1 /\ DOMAIN list = 1 .. Len(list)
    BY <1>3, EmptySeq
  <2>2. CASE list[1] = Root
    <3>1. StoodFor(list) = TailIds(list)
      BY <1>1, <1>3, <2>2 DEF StoodFor
    <3>2. QED
      BY <2>1, <2>2, <3>1 DEF TailIds, StandsWithin
  <2>3. CASE list[1] # Root
    <3>1. StoodFor(list) = ToSet(list)
      BY <1>1, <1>3, <2>3 DEF StoodFor
    <3>2. QED
      BY <2>1, <2>3, <3>1 DEF ToSet, StandsWithin
  <2>4. QED
    BY <2>2, <2>3
<1>4. QED
  BY <1>2, <1>3

\* Min of two numbers.
LEMMA MinOfTwo ==
    ASSUME NEW m \in Nat, NEW n \in Nat
    PROVE  Min({m, n}) = IF m <= n THEN m ELSE n
<1>1. \E x \in {m, n} : \A y \in {m, n} : x <= y
  OBVIOUS
<1>2. /\ Min({m, n}) \in {m, n}
      /\ \A y \in {m, n} : Min({m, n}) <= y
  BY <1>1 DEF Min
<1>3. QED
  BY <1>2

LEMMA FirstTextsIs ==
    ASSUME NEW list \in Lists, NEW n \in Nat
    PROVE  /\ FirstTexts(list, n) \in Lists
           /\ Len(FirstTexts(list, n)) = IF n <= Len(list) THEN n ELSE Len(list)
           /\ \A j \in 1 .. Len(FirstTexts(list, n)) : FirstTexts(list, n)[j] = list[j]
           /\ n = 0 => FirstTexts(list, n) = <<>>
           /\ n = Len(list) => FirstTexts(list, n) = list
<1> DEFINE m == IF n <= Len(list) THEN n ELSE Len(list)
<1>1. Len(list) \in Nat /\ m \in 0 .. Len(list)
  OBVIOUS
<1>2. FirstTexts(list, n) = SubSeq(list, 1, m)
  BY <1>1, MinOfTwo DEF FirstTexts
<1>3. /\ SubSeq(list, 1, m) \in Lists /\ Len(SubSeq(list, 1, m)) = m
      /\ \A j \in 1 .. m : SubSeq(list, 1, m)[j] = list[j]
  BY <1>1
<1>4. n = 0 => SubSeq(list, 1, m) = <<>>
  BY <1>1, <1>3, EmptySeq
<1>5. n = Len(list) => SubSeq(list, 1, m) = list
  BY <1>1, <1>3
<1>6. QED
  BY <1>2, <1>3, <1>4, <1>5

\* Of an emptied file nothing is read.
LEMMA NoTexts ==
    ASSUME NEW n \in Nat
    PROVE  FirstTexts(<<>>, n) = <<>>
<1>1. Len(<<>>) = 0
  OBVIOUS
<1>2. Min({n, Len(<<>>)}) = 0
  BY <1>1, MinOfTwo
<1>3. SubSeq(<<>>, 1, 0) = <<>>
  OBVIOUS
<1>4. QED
  BY <1>2, <1>3 DEF FirstTexts

\* What a shortened answer stands for.
LEMMA FirstStoodFor ==
    ASSUME NEW list \in Lists, NEW n \in Nat, NEW x
    PROVE  x \in StoodFor(FirstTexts(list, n)) <=> StandsWithin(list, n, x)
<1> DEFINE first == FirstTexts(list, n)
<1>1. /\ first \in Lists
      /\ Len(first) = IF n <= Len(list) THEN n ELSE Len(list)
      /\ \A j \in 1 .. Len(first) : first[j] = list[j]
      /\ Len(list) \in Nat
  BY FirstTextsIs
<1> HIDE DEF first
<1>2. x \in StoodFor(first) <=> StandsWithin(first, Len(first), x)
  BY <1>1, StoodForIs
<1>3. StandsWithin(first, Len(first), x) <=> StandsWithin(list, n, x)
  BY <1>1 DEF StandsWithin
<1>4. QED
  BY <1>2, <1>3 DEF first

\* Everybody who stood among the first n texts still does after a revocation.
LEMMA AppendStands ==
    ASSUME NEW list \in Lists, NEW n \in Nat, NEW id \in Texts, NEW x,
           StandsWithin(list, n, x)
    PROVE  StandsWithin(Append(list, id), n, x)
<1>1. PICK j \in 1 .. Len(list) : j <= n /\ list[j] = x /\ (j = 1 => list[1] # Root)
  BY DEF StandsWithin
<1>2. /\ j \in 1 .. Len(Append(list, id))
      /\ Append(list, id)[j] = list[j]
  OBVIOUS
<1>3. QED
  BY <1>1, <1>2 DEF StandsWithin

\* Everybody but one id did so before it was appended.
LEMMA AppendOnly ==
    ASSUME NEW list \in Lists, NEW id \in Texts, NEW x,
           StandsWithin(Append(list, id), Len(list) + 1, x)
    PROVE  x = id \/ StandsWithin(list, Len(list), x)
<1> DEFINE new == Append(list, id)
<1>1. /\ new \in Lists /\ Len(new) = Len(list) + 1
      /\ \A j \in 1 .. Len(list) : new[j] = list[j]
      /\ new[Len(list) + 1] = id /\ Len(list) \in Nat
  OBVIOUS
<1> HIDE DEF new
<1>2. PICK j \in 1 .. Len(new) : new[j] = x /\ (j = 1 => new[1] # Root)
  BY DEF StandsWithin, new
<1>3. CASE j = Len(list) + 1
  BY <1>1, <1>2, <1>3
<1>4. CASE j \in 1 .. Len(list)
  <2>1. list[j] = x /\ (j = 1 => list[1] # Root)
    BY <1>1, <1>2, <1>4
  <2>2. j <= Len(list)
    BY <1>1, <1>4
  <2>3. QED
    BY <1>4, <2>1, <2>2 DEF StandsWithin
<1>5. QED
  BY <1>1, <1>3, <1>4

\* In a list whose tail holds no id twice, indexOf finds the one there is.
LEMMA PositionIs ==
    ASSUME NEW list \in Lists, TailDistinct(list), NEW id, InTail(list, id)
    PROVE  Position(list, id) \in 2 .. Len(list) /\ list[Position(list, id)] = id
<1>1. PICK j \in 2 .. Len(list) : list[j] = id
  BY DEF InTail
<1>2. {i \in 2 .. Len(list) : list[i] = id} = {j}
  BY <1>1 DEF TailDistinct
<1>3. Min({j}) = j
  <2>1. \E x \in {j} : \A y \in {j} : x <= y
    BY <1>1
  <2>2. QED
    BY <2>1 DEF Min
<1>4. Position(list, id) = j
  BY <1>2, <1>3 DEF Position, SelectInSubSeq
<1>5. QED
  BY <1>1, <1>4

\* Everybody else who stood among the first n texts still does after unrevokeUser.
LEMMA UnrevokedStands ==
    ASSUME NEW list \in Lists, TailDistinct(list), NEW id, InTail(list, id),
           NEW n \in Nat, NEW x, x # id, StandsWithin(list, n, x)
    PROVE  StandsWithin(Unrevoked(list, id), n, x)
<1> DEFINE p == Position(list, id)
           new == Unrevoked(list, id)
<1>1. p \in 2 .. Len(list) /\ list[p] = id /\ p \in DOMAIN list /\ Len(list) \in Nat
  BY PositionIs
<1>2. /\ Len(new) = Len(list) - 1
      /\ \A j \in 1 .. Len(list) - 1 : new[j] = IF j < p THEN list[j] ELSE list[j + 1]
  BY <1>1, RemoveAtIs DEF Unrevoked
<1>3. PICK j \in 1 .. Len(list) : j <= n /\ list[j] = x /\ (j = 1 => list[1] # Root)
  BY DEF StandsWithin
<1> HIDE DEF p, new
<1>4. CASE j < p
  <2>1. j \in 1 .. Len(new) /\ new[j] = list[j] /\ (j = 1 => new[1] = list[1])
    BY <1>1, <1>2, <1>4
  <2>2. QED
    BY <1>3, <2>1 DEF StandsWithin, new
<1>5. CASE j > p
  <2>1. /\ j - 1 \in 1 .. Len(new) /\ j - 1 >= 2 /\ j - 1 <= n
        /\ ~(j - 1 < p) /\ (j - 1) + 1 = j
    BY <1>1, <1>2, <1>3, <1>5
  <2>2. new[j - 1] = x
    BY <1>2, <1>3, <2>1
  <2>3. QED
    BY <2>1, <2>2 DEF StandsWithin, new
<1>6. QED
  BY <1>1, <1>3, <1>4, <1>5

\* unrevokeUser takes the id away from the tail, and adds nobody.
LEMMA UnrevokedOnly ==
    ASSUME NEW list \in Lists, TailDistinct(list), NEW id, InTail(list, id)
    PROVE  /\ Unrevoked(list, id) \in Lists
           /\ TailDistinct(Unrevoked(list, id))
           /\ Unrevoked(list, id) # <<>> /\ Unrevoked(list, id)[1] = list[1]
           /\ id \notin TailIds(Unrevoked(list, id))
           /\ \A x : StandsWithin(Unrevoked(list, id), Len(Unrevoked(list, id)), x)
                        => StandsWithin(list, Len(list), x)
<1> DEFINE p == Position(list, id)
           new == Unrevoked(list, id)
<1>1. p \in 2 .. Len(list) /\ list[p] = id /\ p \in DOMAIN list /\ Len(list) \in Nat
  BY PositionIs
<1>2. /\ new \in Lists
      /\ Len(new) = Len(list) - 1
      /\ \A j \in 1 .. Len(list) - 1 : new[j] = IF j < p THEN list[j] ELSE list[j + 1]
  BY <1>1, RemoveAtIs DEF Unrevoked
<1> HIDE DEF p, new
<1>3. new # <<>> /\ new[1] = list[1]
  <2>1. 1 \in 1 .. Len(list) - 1 /\ 1 < p /\ Len(new) # 0
    BY <1>1, <1>2
  <2>2. QED
    BY <1>2, <2>1, EmptySeq
<1>4. ASSUME NEW j \in 1 .. Len(new)
      PROVE  \E k \in 1 .. Len(list) :
                k # p /\ new[j] = list[k] /\ k = (IF j < p THEN j ELSE j + 1)
  BY <1>1, <1>2
<1>5. TailDistinct(new)
  <2>1. SUFFICES ASSUME NEW j \in 2 .. Len(new), NEW k \in 2 .. Len(new), new[j] = new[k]
                 PROVE  j = k
    BY DEF TailDistinct
  <2> DEFINE o(i) == IF i < p THEN i ELSE i + 1
  <2>2. /\ o(j) \in 2 .. Len(list) /\ o(k) \in 2 .. Len(list)
        /\ new[j] = list[o(j)] /\ new[k] = list[o(k)]
    BY <1>1, <1>2
  <2>3. o(j) = o(k)
    BY <2>1, <2>2 DEF TailDistinct
  <2>4. QED
    BY <1>1, <2>3
<1>6. id \notin TailIds(new)
  <2>1. SUFFICES ASSUME NEW j \in 2 .. Len(new), new[j] = id
                 PROVE  FALSE
    BY DEF TailIds
  <2> DEFINE o == IF j < p THEN j ELSE j + 1
  <2>2. o \in 2 .. Len(list) /\ list[o] = id /\ o # p
    BY <1>1, <1>2, <2>1
  <2>3. QED
    BY <1>1, <2>2 DEF TailDistinct
<1>7. ASSUME NEW x, StandsWithin(new, Len(new), x)
      PROVE  StandsWithin(list, Len(list), x)
  <2>1. PICK j \in 1 .. Len(new) : new[j] = x /\ (j = 1 => new[1] # Root)
    BY <1>7 DEF StandsWithin
  <2>2. PICK k \in 1 .. Len(list) :
                k # p /\ new[j] = list[k] /\ k = (IF j < p THEN j ELSE j + 1)
    BY <1>4
  <2>3. (k = 1 => list[1] # Root) /\ k <= Len(list)
    BY <1>1, <1>3, <2>1, <2>2
  <2>4. QED
    BY <2>1, <2>2, <2>3 DEF StandsWithin
<1>8. QED
  BY <1>2, <1>3, <1>5, <1>6, <1>7 DEF new

-----------------------------------------------------------------------------
(* The inductive invariant *)

Answers ==
    [kind : {"public", "private", "revoke"}, channel : Channels,
     user : Ids \cup {NoId}, stage : {"asked", "sized", "reading"}, size : Nat,
     since : (SUBSET Texts) \cup Nat, overtaken : BOOLEAN]

\* A list as the operator's requests leave it: nobody but ids stands in it, and
\* none twice in its tail.
ListFine(list) ==
    /\ list \in Lists
    /\ TailDistinct(list)
    /\ \A x : StandsWithin(list, Len(list), x) => x \in Ids

ListsFine == \A ch \in Channels : ListOf(ch) # NoFile => ListFine(ListOf(ch))

\* What a write under way has truncated, and what it will write.
WritingFine ==
    writing # Idle =>
        /\ revokeFile[writing.channel] = <<>>
        /\ writing.op = "Masterkey" => writing.list = InitialList
        /\ writing.op = "unrevoke" =>
              /\ writing.user \in Ids
              /\ writing.user \notin TailIds(writing.list)

\* No master key is newer than the last generation; setup runs in a generation
\* of its own, and keygen on a written master key.
KeysFine ==
    /\ \A ch \in Channels : Written(master[ch]) => master[ch][1] <= generation[ch]
    /\ tool # NoTool /\ tool.op = "setup" => generation[tool.channel] > 0
    /\ tool # NoTool /\ tool.op = "keygen" =>
          Written(master[tool.channel]) /\ tool.user \in Ids

\* The answer under way still covers who was revoked at its request: the list
\* does while it has not been measured, its first size texts do afterwards.
RevokeAnswerFine(s, list) ==
    s.kind = "revoke" =>
        /\ s.since \subseteq Texts
        /\ IF list = NoFile THEN s.since = {} /\ s.stage = "asked"
           ELSE \A x \in s.since :
                   /\ StandsWithin(list, Len(list), x)
                   /\ s.stage = "asked" \/ s.size = 0 \/ StandsWithin(list, s.size, x)

\* Neither the master key nor the user's is older than the request, except while
\* they are truncated, and the user's is truncated only by another request.
PrivateAnswerFine(s, gen, mas, keys) ==
    s.kind = "private" =>
        /\ s.user \in Ids
        /\ s.since \in Nat
        /\ s.since <= gen[s.channel]
        /\ Written(mas[s.channel]) => s.since <= mas[s.channel][1]
        /\ keys[s.channel][s.user] # NoFile
        /\ IF keys[s.channel][s.user] = <<>> THEN s.overtaken
           ELSE s.since <= keys[s.channel][s.user][1]
        /\ s.stage # "asked" => s.size = 1 \/ (s.size = 0 /\ s.overtaken)

PrivateFine(s) == PrivateAnswerFine(s, generation, master, privateKeys)

SendsFine ==
    /\ sends \in Seq(Answers)
    /\ \A i \in 1 .. Len(sends) :
          /\ RevokeAnswerFine(sends[i], ListOf(sends[i].channel))
          /\ PrivateFine(sends[i])

IInv ==
    /\ TypeOK
    /\ ListsFine
    /\ WritingFine
    /\ KeysFine
    /\ SendsFine
    /\ AnswerCoversRevoked
    /\ PrivateKeyCurrent

\* The fields of an answer under way.
LEMMA AnswerType ==
    ASSUME NEW ss \in Seq(Answers), NEW i \in 1 .. Len(ss)
    PROVE  /\ ss[i] \in Answers
           /\ ss[i].kind \in {"public", "private", "revoke"}
           /\ ss[i].channel \in Channels
           /\ ss[i].user \in Ids \cup {NoId}
           /\ ss[i].stage \in {"asked", "sized", "reading"}
           /\ ss[i].size \in Nat
           /\ ss[i].overtaken \in BOOLEAN
<1>1. ss[i] \in Answers
  OBVIOUS
<1>2. QED
  BY <1>1 DEF Answers

\* The channel's list does not change unless its file or the write does.
LEMMA SameLists ==
    ASSUME UNCHANGED <<revokeFile, writing>>, NEW ch \in Channels
    PROVE  ListOf(ch)' = ListOf(ch)
BY DEF ListOf

LEMMA ListOfType ==
    ASSUME TypeOK, NEW ch \in Channels
    PROVE  ListOf(ch) \in Lists \cup {NoFile}
BY DEF TypeOK, ListOf, Idle

\* An initial list has only its root.
LEMMA InitialListFine ==
    /\ ListFine(InitialList)
    /\ InitialList # <<>> /\ InitialList[1] = Root
    /\ \A n, x : ~StandsWithin(InitialList, n, x)
BY DEF ListFine, TailDistinct, StandsWithin, InitialList

\* revokeUser's list is fine if the file's was.
LEMMA RevokedFine ==
    ASSUME NEW list, ListFine(list), NEW id \in Ids
    PROVE  /\ ListFine(Revoked(list, id))
           /\ list # <<>> => Revoked(list, id) # <<>> /\ Revoked(list, id)[1] = list[1]
<1>1. CASE InTail(list, id)
  BY <1>1 DEF Revoked
<1>2. CASE ~InTail(list, id)
  <2> DEFINE new == Append(list, id)
  <2>1. Revoked(list, id) = new /\ list \in Lists
    BY <1>2 DEF Revoked, ListFine
  <2>2. /\ new \in Lists /\ Len(new) = Len(list) + 1 /\ Len(list) \in Nat
        /\ \A j \in 1 .. Len(list) : new[j] = list[j]
        /\ new[Len(list) + 1] = id
    BY <2>1
  <2>3. TailDistinct(new)
    <3>1. SUFFICES ASSUME NEW j \in 2 .. Len(new), NEW k \in 2 .. Len(new),
                          new[j] = new[k]
                   PROVE  j = k
      BY DEF TailDistinct
    <3>2. \A i \in 2 .. Len(list) : list[i] # id
      BY <1>2 DEF InTail
    <3>3. /\ j \in 2 .. Len(list) \/ j = Len(list) + 1
          /\ k \in 2 .. Len(list) \/ k = Len(list) + 1
      BY <2>2
    <3>4. j \in 2 .. Len(list) => new[j] = list[j]
      BY <2>2
    <3>5. k \in 2 .. Len(list) => new[k] = list[k]
      BY <2>2
    <3> HIDE DEF new
    <3>6. QED
      BY <2>2, <3>1, <3>2, <3>3, <3>4, <3>5 DEF ListFine, TailDistinct
  <2>4. ASSUME NEW x, StandsWithin(new, Len(new), x) PROVE x \in Ids
    BY <2>1, <2>2, <2>4, AppendOnly DEF ListFine
  <2>5. list # <<>> => new # <<>> /\ new[1] = list[1]
    <3>1. list # <<>> => 1 \in 1 .. Len(list)
      BY <2>1, EmptySeq
    <3>2. QED
      BY <2>2, <3>1, EmptySeq
  <2>6. QED
    BY <2>1, <2>2, <2>3, <2>4, <2>5 DEF ListFine
<1>3. QED
  BY <1>1, <1>2

LEMMA InitIInv == Init => IInv
<1> SUFFICES ASSUME Init PROVE IInv
  OBVIOUS
<1> USE DEF Init
<1>1. \A ch \in Channels : ListOf(ch) = NoFile
  BY DEF ListOf
<1>2. sends \in Seq(Answers) /\ DOMAIN sends = {}
  OBVIOUS
<1>3. TypeOK
  <2>1. 0 \in 0 .. MaxSetups /\ NoFile \in KeyFiles
    BY KeyManagerAssumption DEF KeyFiles
  <2>2. QED
    BY <1>1, <1>2, <2>1 DEF TypeOK
<1>4. KeysFine
  BY DEF KeysFine, Written
<1>5. QED
  BY <1>1, <1>2, <1>3, <1>4 DEF IInv, ListsFine, WritingFine, SendsFine,
     AnswerCoversRevoked, PrivateKeyCurrent, Nothing

LEMMA StutterKeeps == IInv /\ UNCHANGED vars => IInv'
<1> SUFFICES ASSUME IInv, UNCHANGED vars PROVE IInv'
  OBVIOUS
<1> USE DEF vars
<1>1. \A ch \in Channels : ListOf(ch)' = ListOf(ch)
  BY SameLists
<1>2. TypeOK'
  BY <1>1 DEF IInv, TypeOK
<1>3. ListsFine' /\ WritingFine' /\ KeysFine'
  BY <1>1 DEF IInv, ListsFine, WritingFine, KeysFine
<1>4. SendsFine'
  <2>1. sends \in Seq(Answers) /\ sends' = sends /\ UNCHANGED keyFiles
    BY DEF IInv, SendsFine
  <2>2. \A i \in 1 .. Len(sends) : sends[i].channel \in Channels
    BY <2>1, AnswerType
  <2>3. QED
    BY <1>1, <2>1, <2>2 DEF IInv, SendsFine, PrivateFine
<1>5. QED
  BY <1>2, <1>3, <1>4 DEF IInv, AnswerCoversRevoked, PrivateKeyCurrent

-----------------------------------------------------------------------------
(* Steps of sendFile and handlers that write nothing *)

\* With the files as they are only the answers have to be looked at.
LEMMA FilesKept ==
    ASSUME IInv, UNCHANGED <<files, main, cut>>,
           SendsFine', AnswerCoversRevoked', PrivateKeyCurrent'
    PROVE  IInv'
<1> USE DEF files
<1>1. \A ch \in Channels : ListOf(ch)' = ListOf(ch)
  BY SameLists
<1>2. \A i \in DOMAIN sends' :
          /\ sends'[i].kind \in {"public", "private", "revoke"}
          /\ sends'[i].stage \in {"asked", "sized", "reading"}
          /\ sends'[i].size \in Nat
  <2>1. sends' \in Seq(Answers)
    BY DEF SendsFine, Answers
  <2>2. QED
    BY <2>1, AnswerType
<1>3. TypeOK'
  BY <1>1, <1>2 DEF IInv, TypeOK
<1>4. ListsFine' /\ WritingFine' /\ KeysFine'
  BY <1>1 DEF IInv, ListsFine, WritingFine, KeysFine
<1>5. QED
  BY <1>3, <1>4 DEF IInv

\* The answers under way are the old ones and fine new ones.
LEMMA SendsKept ==
    ASSUME IInv, UNCHANGED <<files, main>>, sends' \in Seq(Answers),
           \A j \in 1 .. Len(sends') :
              \/ \E k \in 1 .. Len(sends) : sends'[j] = sends[k]
              \/ /\ RevokeAnswerFine(sends'[j], ListOf(sends'[j].channel))
                 /\ PrivateFine(sends'[j])
    PROVE  SendsFine'
<1>1. \A ch \in Channels : ListOf(ch)' = ListOf(ch)
  BY SameLists DEF files
<1>2. \A j \in 1 .. Len(sends') : sends'[j].channel \in Channels
  BY AnswerType
<1>3. \A j \in 1 .. Len(sends') :
          /\ RevokeAnswerFine(sends'[j], ListOf(sends'[j].channel))
          /\ PrivateFine(sends'[j])
  BY DEF IInv, SendsFine
<1>4. UNCHANGED keyFiles
  OBVIOUS
<1>5. QED
  BY <1>1, <1>2, <1>3, <1>4 DEF SendsFine, Answers, PrivateFine

LEMMA SendRemoved ==
    ASSUME IInv, UNCHANGED <<files, main>>, NEW i \in DOMAIN sends,
           sends' = RemoveAt(sends, i)
    PROVE  SendsFine'
<1>1. sends \in Seq(Answers)
  BY DEF IInv, SendsFine
<1>2. sends' \in Seq(Answers)
  BY <1>1, RemoveAtType
<1>3. \A j \in 1 .. Len(sends') : \E k \in 1 .. Len(sends) : sends'[j] = sends[k]
  BY <1>1, <1>2, RemoveAtElements
<1>4. QED
  BY <1>2, <1>3, SendsKept

LEMMA SendAppended ==
    ASSUME IInv, UNCHANGED <<files, main>>, NEW s \in Answers,
           sends' = Append(sends, s),
           RevokeAnswerFine(s, ListOf(s.channel)), PrivateFine(s)
    PROVE  SendsFine'
<1>1. sends \in Seq(Answers)
  BY DEF IInv, SendsFine
<1>2. sends' \in Seq(Answers) /\ Len(sends') = Len(sends) + 1
  BY <1>1
<1>3. \A j \in 1 .. Len(sends') :
          sends'[j] = s \/ \E k \in 1 .. Len(sends) : sends'[j] = sends[k]
  BY <1>1
<1>4. QED
  BY <1>2, <1>3, SendsKept

LEMMA SendReplaced ==
    ASSUME IInv, UNCHANGED <<files, main>>, NEW i \in DOMAIN sends, NEW s \in Answers,
           sends' = [sends EXCEPT ![i] = s],
           RevokeAnswerFine(s, ListOf(s.channel)), PrivateFine(s)
    PROVE  SendsFine'
<1>1. sends \in Seq(Answers)
  BY DEF IInv, SendsFine
<1>2. sends' \in Seq(Answers) /\ Len(sends') = Len(sends)
  BY <1>1
<1>3. \A j \in 1 .. Len(sends') :
          sends'[j] = s \/ \E k \in 1 .. Len(sends) : sends'[j] = sends[k]
  BY <1>1, <1>2
<1>4. QED
  BY <1>2, <1>3, SendsKept

\* A key file holds one number, or nothing.
LEMMA KeyFileIs ==
    ASSUME NEW file \in KeyFiles
    PROVE  /\ file # NoFile => file = <<>> \/ Written(file)
           /\ Written(file) => \E g \in Nat : file = <<g>> /\ file[1] = g /\ Len(file) = 1
BY KeyManagerAssumption DEF KeyFiles, Written

\* The files sendFile may read.
LEMMA ContentType ==
    ASSUME IInv, NEW s \in Answers, PrivateFine(s)
    PROVE  /\ Content(s) # NoFile => Len(Content(s)) \in Nat
           /\ s.kind = "private" =>
                 /\ Content(s) = privateKeys[s.channel][s.user]
                 /\ Content(s) \in KeyFiles /\ Content(s) # NoFile
           /\ s.kind = "revoke" => Content(s) = revokeFile[s.channel]
<1>1. s.channel \in Channels /\ s.kind \in {"public", "private", "revoke"}
  BY DEF Answers
<1>2. \A file \in KeyFiles : file # NoFile => Len(file) \in Nat
  BY KeyFileIs
<1>3. CASE s.kind = "private"
  <2>1. Content(s) = privateKeys[s.channel][s.user]
    BY <1>3 DEF Content
  <2>2. /\ privateKeys[s.channel][s.user] \in KeyFiles
        /\ privateKeys[s.channel][s.user] # NoFile
    BY <1>1, <1>3 DEF IInv, TypeOK, PrivateFine, PrivateAnswerFine
  <2>3. QED
    BY <1>2, <1>3, <2>1, <2>2
<1>4. CASE s.kind = "revoke"
  <2>1. Content(s) = revokeFile[s.channel]
    BY <1>4 DEF Content
  <2>2. revokeFile[s.channel] # NoFile => Len(revokeFile[s.channel]) \in Nat
    BY <1>1 DEF IInv, TypeOK
  <2>3. QED
    BY <1>4, <2>1, <2>2
<1>5. CASE s.kind = "public"
  <2>1. Content(s) = public[s.channel] /\ public[s.channel] \in KeyFiles
    BY <1>1, <1>5 DEF Content, IInv, TypeOK
  <2>2. QED
    BY <1>2, <1>5, <2>1
<1>6. QED
  BY <1>1, <1>3, <1>4, <1>5

\* The file is the list unless it has been truncated.
LEMMA FileIs ==
    ASSUME IInv, NEW ch \in Channels
    PROVE  \/ revokeFile[ch] = ListOf(ch)
           \/ revokeFile[ch] = <<>> /\ ListOf(ch) \in Lists
BY DEF IInv, TypeOK, WritingFine, ListOf, Idle

LEMMA SendStatKeeps ==
    ASSUME IInv, NEW i \in DOMAIN sends, SendStat(i)
    PROVE  IInv'
<1> DEFINE s == sends[i]
           content == Content(s)
           r == [s EXCEPT !.stage = "sized", !.size = Len(content)]
<1>1. /\ s \in Answers /\ s.channel \in Channels
      /\ RevokeAnswerFine(s, ListOf(s.channel)) /\ PrivateFine(s)
  BY AnswerType DEF IInv, SendsFine
<1>2. UNCHANGED <<files, main, cut>> /\ s.stage = "asked"
  BY DEF SendStat
<1>3. CASE content = NoFile
  <2>1. /\ delivered' = Delivered(s, ErrorPage)
        /\ sends' = RemoveAt(sends, i)
    BY <1>3 DEF SendStat
  <2>2. s.kind # "private"
    BY <1>1, <1>3, ContentType
  <2>3. AnswerCoversRevoked' /\ PrivateKeyCurrent'
    BY <2>1, <2>2 DEF AnswerCoversRevoked, PrivateKeyCurrent, Delivered
  <2>4. SendsFine'
    BY <1>2, <2>1, SendRemoved
  <2>5. QED
    BY <1>2, <2>3, <2>4, FilesKept
<1>4. CASE content # NoFile
  <2>1. /\ delivered' = Nothing
        /\ sends' = [sends EXCEPT ![i].stage = "sized", ![i].size = Len(content)]
    BY <1>4 DEF SendStat
  <2>2. Len(content) \in Nat
    BY <1>1, <1>4, ContentType
  <2> HIDE DEF content
  <2>3. /\ r \in Answers /\ r.kind = s.kind /\ r.channel = s.channel /\ r.user = s.user
        /\ r.since = s.since /\ r.stage = "sized" /\ r.size = Len(content)
        /\ r.overtaken = s.overtaken
    <3>1. s \in Answers
      BY <1>1
    <3> HIDE DEF s
    <3>2. QED
      BY <2>2, <3>1 DEF Answers
  <2>4. sends' = [sends EXCEPT ![i] = r]
    BY <2>1
  <2> HIDE DEF r
  <2>5. RevokeAnswerFine(r, ListOf(r.channel))
    <3>1. SUFFICES ASSUME s.kind = "revoke"
                   PROVE  RevokeAnswerFine(r, ListOf(r.channel))
      BY <2>3 DEF RevokeAnswerFine
    <3>2. content = revokeFile[s.channel]
      BY <1>1, <3>1, ContentType DEF content
    <3>3. ListOf(s.channel) # NoFile
      BY <1>1, <1>4, <3>2, FileIs, KeyManagerAssumption DEF content
    <3>4. r.size = 0 \/ r.size = Len(ListOf(s.channel))
      BY <1>1, <2>3, <3>2, FileIs
    <3>5. QED
      BY <1>1, <2>3, <3>1, <3>3, <3>4 DEF RevokeAnswerFine
  <2>6. PrivateFine(r)
    <3>1. SUFFICES ASSUME s.kind = "private"
                   PROVE  PrivateFine(r)
      BY <2>3 DEF PrivateFine, PrivateAnswerFine
    <3>2. /\ content = privateKeys[s.channel][s.user]
          /\ content = <<>> \/ (Written(content) /\ Len(content) = 1)
      BY <1>1, <3>1, ContentType, KeyFileIs DEF content
    <3>3. r.size = 1 \/ (r.size = 0 /\ r.overtaken)
      BY <1>1, <2>3, <3>1, <3>2 DEF PrivateFine, PrivateAnswerFine
    <3>4. QED
      BY <1>1, <2>3, <3>1, <3>3 DEF PrivateFine, PrivateAnswerFine
  <2>7. SendsFine'
    BY <1>2, <2>3, <2>4, <2>5, <2>6, SendReplaced
  <2>8. QED
    BY <1>2, <2>1, <2>7, FilesKept DEF AnswerCoversRevoked, PrivateKeyCurrent, Nothing
<1>5. QED
  BY <1>3, <1>4

LEMMA SendOpenKeeps ==
    ASSUME IInv, NEW i \in DOMAIN sends, SendOpen(i)
    PROVE  IInv'
<1> DEFINE s == sends[i]
           r == [s EXCEPT !.stage = "reading"]
<1>1. /\ s \in Answers /\ s.channel \in Channels
      /\ RevokeAnswerFine(s, ListOf(s.channel)) /\ PrivateFine(s)
  BY AnswerType DEF IInv, SendsFine
<1>2. /\ UNCHANGED <<files, main, cut>> /\ s.stage = "sized"
      /\ sends' = [sends EXCEPT ![i] = r] /\ delivered' = Nothing
  BY DEF SendOpen, NoAnswer
<1>3. /\ r \in Answers /\ r.kind = s.kind /\ r.channel = s.channel /\ r.user = s.user
      /\ r.since = s.since /\ r.stage = "reading" /\ r.size = s.size
      /\ r.overtaken = s.overtaken
  <2>1. s \in Answers
    BY <1>1
  <2> HIDE DEF s
  <2>2. QED
    BY <2>1 DEF Answers
<1> HIDE DEF r
<1>4. RevokeAnswerFine(r, ListOf(r.channel)) /\ PrivateFine(r)
  BY <1>1, <1>2, <1>3 DEF RevokeAnswerFine, PrivateFine, PrivateAnswerFine
<1>5. SendsFine'
  BY <1>2, <1>3, <1>4, SendReplaced
<1>6. QED
  BY <1>2, <1>5, FilesKept DEF AnswerCoversRevoked, PrivateKeyCurrent, Nothing

LEMMA SendReadKeeps ==
    ASSUME IInv, NEW i \in DOMAIN sends, SendRead(i)
    PROVE  IInv'
<1> DEFINE s == sends[i]
<1>1. /\ s \in Answers /\ s.channel \in Channels /\ s.size \in Nat
      /\ RevokeAnswerFine(s, ListOf(s.channel)) /\ PrivateFine(s)
  BY AnswerType DEF IInv, SendsFine
<1>2. /\ UNCHANGED <<files, main, cut>> /\ s.stage = "reading"
      /\ sends' = RemoveAt(sends, i)
      /\ delivered' = Delivered(s, FirstTexts(Content(s), s.size))
  BY DEF SendRead, FirstTexts
<1> HIDE DEF s
<1>3. AnswerCoversRevoked'
  <2>1. SUFFICES ASSUME s.kind = "revoke", FirstTexts(Content(s), s.size) # <<>>
                 PROVE  s.since \subseteq StoodFor(FirstTexts(Content(s), s.size))
    BY <1>2 DEF AnswerCoversRevoked, Delivered
  <2>2. Content(s) = revokeFile[s.channel]
    BY <1>1, <2>1, ContentType
  <2>3. ListOf(s.channel) \in Lists
    BY <1>1, <1>2, <2>1, ListOfType DEF RevokeAnswerFine, IInv
  <2>4. PICK empty \in Lists : empty = <<>> /\ Len(empty) = 0
    <3>1. <<>> \in Lists /\ Len(<<>>) = 0
      OBVIOUS
    <3>2. QED
      BY <3>1
  <2>5. Content(s) = ListOf(s.channel)
    <3>1. ASSUME revokeFile[s.channel] = <<>> PROVE FALSE
      <4>1. /\ FirstTexts(empty, s.size) \in Lists
            /\ Len(FirstTexts(empty, s.size)) = IF s.size <= 0 THEN s.size ELSE 0
        BY <1>1, <2>4, FirstTextsIs
      <4>2. Len(FirstTexts(empty, s.size)) = 0
        BY <1>1, <4>1
      <4>3. QED
        BY <2>1, <2>2, <2>4, <3>1, <4>1, <4>2, EmptySeq
    <3>2. QED
      BY <1>1, <2>2, <3>1, FileIs
  <2>6. s.size # 0
    BY <1>1, <2>1, <2>3, <2>5, FirstTextsIs
  <2>7. \A x \in s.since : StandsWithin(ListOf(s.channel), s.size, x)
    BY <1>1, <1>2, <2>1, <2>3, <2>6, KeyManagerAssumption DEF RevokeAnswerFine
  <2>8. QED
    BY <1>1, <2>3, <2>5, <2>7, FirstStoodFor
<1>4. PrivateKeyCurrent'
  <2> DEFINE key == privateKeys[s.channel][s.user]
             data == FirstTexts(Content(s), s.size)
  <2>1. SUFFICES ASSUME s.kind = "private"
                 PROVE  IF data = <<>> THEN s.overtaken ELSE data[1] >= s.since
    BY <1>2 DEF PrivateKeyCurrent, Delivered
  <2>2. /\ Content(s) = key /\ key \in KeyFiles /\ key # NoFile
        /\ s.size = 1 \/ (s.size = 0 /\ s.overtaken)
        /\ s.since \in Nat
        /\ IF key = <<>> THEN s.overtaken ELSE s.since <= key[1]
    BY <1>1, <1>2, <2>1, ContentType DEF PrivateFine, PrivateAnswerFine
  <2> HIDE DEF key
  <2>3. CASE key = <<>>
    BY <2>2, <2>3, NoTexts
  <2>4. CASE key # <<>>
    <3>1. PICK g \in Nat : key = <<g>> /\ s.since <= g
      BY <2>2, <2>4, KeyFileIs
    <3>2. CASE s.size = 1
      <4>1. FirstTexts(<<g>>, 1) = SubSeq(<<g>>, 1, 1)
        BY MinOfTwo DEF FirstTexts
      <4>2. SubSeq(<<g>>, 1, 1)[1] = g /\ Len(SubSeq(<<g>>, 1, 1)) = 1
        OBVIOUS
      <4>3. data[1] = g /\ data # <<>>
        BY <2>2, <3>1, <3>2, <4>1, <4>2
      <4>4. QED
        BY <2>2, <3>1, <4>3
    <3>3. CASE s.size = 0 /\ s.overtaken
      <4>1. FirstTexts(<<g>>, 0) = SubSeq(<<g>>, 1, 0)
        BY MinOfTwo DEF FirstTexts
      <4>2. SubSeq(<<g>>, 1, 0) = <<>>
        OBVIOUS
      <4>3. QED
        BY <2>2, <3>1, <3>3, <4>1, <4>2
    <3>4. QED
      BY <2>2, <3>2, <3>3
  <2>5. QED
    BY <2>3, <2>4
<1>5. SendsFine'
  BY <1>2, SendRemoved
<1>6. QED
  BY <1>2, <1>3, <1>4, <1>5, FilesKept

LEMMA PublicKeyKeeps ==
    ASSUME IInv, NEW ch \in Channels, PublicKey(ch)
    PROVE  IInv'
<1> DEFINE s == Send("public", ch, NoId, {})
<1>1. s \in Answers /\ s.kind = "public"
  BY DEF Send, Answers
<1>2. /\ UNCHANGED <<files, main, cut>>
      /\ sends' = Append(sends, s) /\ delivered' = Nothing
  BY DEF PublicKey, NoAnswer
<1> HIDE DEF s
<1>3. SendsFine'
  BY <1>1, <1>2, SendAppended DEF RevokeAnswerFine, PrivateFine, PrivateAnswerFine
<1>4. QED
  BY <1>2, <1>3, FilesKept DEF AnswerCoversRevoked, PrivateKeyCurrent, Nothing

\* Who stands for a channel's list are ids.
LEMMA StoodForIds ==
    ASSUME IInv, NEW ch \in Channels
    PROVE  /\ StoodFor(ListOf(ch)) \subseteq Ids
           /\ ListOf(ch) = NoFile => StoodFor(ListOf(ch)) = {}
           /\ ListOf(ch) # NoFile =>
                 \A x : x \in StoodFor(ListOf(ch))
                           <=> StandsWithin(ListOf(ch), Len(ListOf(ch)), x)
<1>1. CASE ListOf(ch) = NoFile
  BY <1>1 DEF StoodFor
<1>2. CASE ListOf(ch) # NoFile
  BY <1>2, StoodForIs DEF IInv, ListsFine, ListFine
<1>3. QED
  BY <1>1, <1>2

LEMMA GetRevokeFileKeeps ==
    ASSUME IInv, NEW ch \in Channels, GetRevokeFile(ch)
    PROVE  IInv'
<1> DEFINE s == Send("revoke", ch, NoId, StoodFor(ListOf(ch)))
<1>1. /\ s \in Answers /\ s.kind = "revoke" /\ s.channel = ch /\ s.stage = "asked"
      /\ s.since = StoodFor(ListOf(ch))
  BY StoodForIds DEF Send, Answers
<1>2. /\ UNCHANGED <<files, main, cut>>
      /\ sends' = Append(sends, s) /\ delivered' = Nothing
  BY DEF GetRevokeFile, NoAnswer
<1> HIDE DEF s
<1>3. RevokeAnswerFine(s, ListOf(s.channel)) /\ PrivateFine(s)
  BY <1>1, StoodForIds DEF RevokeAnswerFine, PrivateFine, PrivateAnswerFine
<1>4. SendsFine'
  BY <1>1, <1>2, <1>3, SendAppended
<1>5. QED
  BY <1>2, <1>4, FilesKept DEF AnswerCoversRevoked, PrivateKeyCurrent, Nothing

LEMMA AnswerKeeps ==
    ASSUME IInv, NEW op, NEW ch \in Channels, NEW id, NEW ok, Answer(op, ch, id, ok)
    PROVE  IInv'
<1>1. UNCHANGED <<files, main, cut>> /\ sends' = sends /\ delivered' = Nothing
  BY DEF Answer
<1>2. SendsFine'
  <2>1. sends' \in Seq(Answers)
    BY <1>1 DEF IInv, SendsFine
  <2>2. QED
    BY <1>1, <2>1, SendsKept
<1>3. QED
  BY <1>1, <1>2, FilesKept DEF AnswerCoversRevoked, PrivateKeyCurrent, Nothing

-----------------------------------------------------------------------------
(* Steps that write *)

\* The list of a channel that is being written is what will be in its file.
LEMMA BeginWriteLists ==
    ASSUME IInv, writing = Idle, NEW ch \in Channels, NEW op, NEW id, NEW list,
           op # "idle", BeginWrite(op, ch, id, list), NEW c \in Channels
    PROVE  ListOf(c)' = IF c = ch THEN list ELSE ListOf(c)
<1>1. /\ writing' = [op |-> op, channel |-> ch, user |-> id, list |-> list]
      /\ revokeFile' = [revokeFile EXCEPT ![ch] = <<>>]
  BY DEF BeginWrite
<1>2. writing' # Idle /\ writing'.channel = ch /\ writing'.list = list
  <2>1. writing'.op = op /\ Idle.op = "idle"
    BY <1>1 DEF Idle
  <2>2. QED
    BY <1>1, <2>1
<1>3. revokeFile \in [Channels -> Lists \cup {NoFile}]
  BY DEF IInv, TypeOK
<1>4. QED
  BY <1>1, <1>2, <1>3 DEF ListOf

\* A handler that starts to write a fine list keeps the files' invariants.
LEMMA BeginWriteFiles ==
    ASSUME IInv, writing = Idle, NEW ch \in Channels,
           NEW op \in {"Masterkey", "revo", "unrevoke"}, NEW id \in Ids \cup {NoId},
           NEW list, ListFine(list),
           op = "Masterkey" => list = InitialList,
           op = "unrevoke" => id \in Ids /\ id \notin TailIds(list),
           ch \notin cut => list # <<>> /\ list[1] = Root,
           BeginWrite(op, ch, id, list), UNCHANGED cut,
           UNCHANGED keyFiles, tool' = NoTool, SendsFine', delivered' = Nothing
    PROVE  IInv'
<1>1. \A c \in Channels : ListOf(c)' = IF c = ch THEN list ELSE ListOf(c)
  BY BeginWriteLists
<1>2. /\ writing' = [op |-> op, channel |-> ch, user |-> id, list |-> list]
      /\ revokeFile' = [revokeFile EXCEPT ![ch] = <<>>]
      /\ list \in Lists
  BY DEF BeginWrite, ListFine
<1>3. \A i \in DOMAIN sends' :
          /\ sends'[i].kind \in {"public", "private", "revoke"}
          /\ sends'[i].stage \in {"asked", "sized", "reading"}
          /\ sends'[i].size \in Nat
  <2>1. sends' \in Seq(Answers)
    BY DEF SendsFine, Answers
  <2>2. QED
    BY <2>1, AnswerType
<1>4. TypeOK'
  <2>1. revokeFile' \in [Channels -> Lists \cup {NoFile}]
    <3>1. <<>> \in Lists
      OBVIOUS
    <3>2. QED
      BY <1>2, <3>1 DEF IInv, TypeOK
  <2>2. \A c \in Channels \ cut :
            ListOf(c)' # NoFile => ListOf(c)' # <<>> /\ ListOf(c)'[1] = Root
    BY <1>1 DEF IInv, TypeOK
  <2>3. QED
    BY <1>2, <1>3, <2>1, <2>2 DEF IInv, TypeOK
<1>5. ListsFine'
  BY <1>1 DEF IInv, ListsFine, ListFine, TailDistinct, StandsWithin
<1>6. WritingFine'
  <2>1. revokeFile'[ch] = <<>>
    BY <1>2 DEF IInv, TypeOK
  <2>2. QED
    BY <1>2, <2>1 DEF WritingFine, InitialList, TailIds
<1>7. KeysFine'
  BY DEF IInv, KeysFine
<1>8. QED
  BY <1>4, <1>5, <1>6, <1>7 DEF IInv, AnswerCoversRevoked, PrivateKeyCurrent, Nothing

\* unrevokeUser and generateRevokeString break off that ids were listed; nothing
\* else of the answers under way changes.
LEMMA UnlistedIs ==
    ASSUME NEW ss \in Seq(Answers), NEW ch \in Channels, NEW ids,
           \A i \in 1 .. Len(ss) : ss[i].kind = "revoke" => ss[i].since \subseteq Texts
    PROVE  /\ Unlisted(ss, ch, ids) \in Seq(Answers)
           /\ Len(Unlisted(ss, ch, ids)) = Len(ss)
           /\ \A i \in 1 .. Len(ss) :
                 Unlisted(ss, ch, ids)[i] =
                    IF ss[i].kind = "revoke" /\ ss[i].channel = ch
                    THEN [ss[i] EXCEPT !.since = @ \ ids] ELSE ss[i]
<1> DEFINE u(i) == IF ss[i].kind = "revoke" /\ ss[i].channel = ch
                   THEN [ss[i] EXCEPT !.since = @ \ ids] ELSE ss[i]
<1>1. Unlisted(ss, ch, ids) = [i \in 1 .. Len(ss) |-> u(i)] /\ Len(ss) \in Nat
  BY DEF Unlisted
<1>2. ASSUME NEW i \in 1 .. Len(ss) PROVE u(i) \in Answers
  <2>1. \A s \in Answers, set \in SUBSET Texts : [s EXCEPT !.since = set] \in Answers
    BY DEF Answers
  <2>2. ss[i] \in Answers
    OBVIOUS
  <2>3. ss[i].kind = "revoke" => ss[i].since \ ids \in SUBSET Texts
    OBVIOUS
  <2>4. QED
    BY <2>1, <2>2, <2>3
<1> HIDE DEF u
<1>3. /\ Unlisted(ss, ch, ids) \in Seq(Answers)
      /\ Len(Unlisted(ss, ch, ids)) = Len(ss)
      /\ \A i \in 1 .. Len(ss) : Unlisted(ss, ch, ids)[i] = u(i)
  BY <1>1, <1>2
<1>4. QED
  BY <1>3 DEF u

\* Taking ids out of an answer's history leaves its other fields.
LEMMA SinceType ==
    ASSUME NEW s \in Answers, NEW set
    PROVE  LET r == [s EXCEPT !.since = set] IN
           /\ r.kind = s.kind /\ r.channel = s.channel /\ r.user = s.user
           /\ r.stage = s.stage /\ r.size = s.size /\ r.overtaken = s.overtaken
           /\ r.since = set
BY DEF Answers

\* The answers stay fine when a list is edited, if those of its channel do.
LEMMA UnlistedFine ==
    ASSUME IInv, NEW ch \in Channels, NEW ids, NEW list,
           \A c \in Channels : ListOf(c)' = IF c = ch THEN list ELSE ListOf(c),
           sends' = Unlisted(sends, ch, ids), UNCHANGED keyFiles,
           \A i \in 1 .. Len(sends) :
              sends[i].kind = "revoke" /\ sends[i].channel = ch =>
                 RevokeAnswerFine([sends[i] EXCEPT !.since = @ \ ids], list)
    PROVE  SendsFine'
<1>1. /\ sends \in Seq(Answers)
      /\ \A i \in 1 .. Len(sends) :
            /\ RevokeAnswerFine(sends[i], ListOf(sends[i].channel))
            /\ PrivateFine(sends[i])
  BY DEF IInv, SendsFine
<1>2. \A i \in 1 .. Len(sends) : sends[i].kind = "revoke" => sends[i].since \subseteq Texts
  BY <1>1 DEF RevokeAnswerFine
<1>3. /\ sends' \in Seq(Answers) /\ Len(sends') = Len(sends)
      /\ \A i \in 1 .. Len(sends) :
            sends'[i] = IF sends[i].kind = "revoke" /\ sends[i].channel = ch
                        THEN [sends[i] EXCEPT !.since = @ \ ids] ELSE sends[i]
  BY <1>1, <1>2, UnlistedIs
<1>4. ASSUME NEW i \in 1 .. Len(sends'), NEW c \in Channels, sends'[i].channel = c
      PROVE  /\ RevokeAnswerFine(sends'[i], ListOf(c)')
             /\ PrivateFine(sends'[i])
  <2>1. sends[i] \in Answers /\ i \in 1 .. Len(sends)
    BY <1>1, <1>3, AnswerType
  <2>2. CASE sends[i].kind = "revoke" /\ sends[i].channel = ch
    <3>1. sends'[i] = [sends[i] EXCEPT !.since = @ \ ids]
      BY <1>3, <2>1, <2>2
    <3>2. sends'[i].kind = "revoke" /\ sends'[i].channel = ch
      BY <2>1, <2>2, <3>1, SinceType
    <3>3. RevokeAnswerFine(sends'[i], list) /\ ListOf(c)' = list
      BY <1>4, <2>1, <2>2, <3>1, <3>2
    <3>4. PrivateFine(sends'[i])
      BY <3>2 DEF PrivateFine, PrivateAnswerFine
    <3>5. QED
      BY <3>3, <3>4
  <2>3. CASE sends[i].kind = "revoke" /\ sends[i].channel # ch
    <3>1. sends'[i] = sends[i] /\ ListOf(c)' = ListOf(c)
      BY <1>3, <1>4, <2>1, <2>3
    <3>2. QED
      BY <1>1, <1>4, <2>1, <3>1
  <2>4. CASE sends[i].kind # "revoke"
    <3>1. sends'[i] = sends[i]
      BY <1>3, <2>1, <2>4
    <3>2. QED
      BY <1>1, <2>1, <2>4, <3>1 DEF RevokeAnswerFine
  <2>5. QED
    BY <2>2, <2>3, <2>4
<1>5. \A i \in 1 .. Len(sends') : sends'[i].channel \in Channels
  BY <1>3, AnswerType
<1>6. QED
  BY <1>3, <1>4, <1>5 DEF SendsFine, Answers, PrivateFine

LEMMA GenerateRevokeStringKeeps ==
    ASSUME IInv, GenerateRevokeString
    PROVE  IInv'
<1> DEFINE ch == tool.channel
<1>1. /\ writing = Idle /\ ch \in Channels
      /\ BeginWrite("Masterkey", ch, NoId, InitialList)
      /\ sends' = Unlisted(sends, ch, Ids) /\ tool' = NoTool
      /\ delivered' = Nothing /\ UNCHANGED <<keyFiles, cut>>
  BY DEF GenerateRevokeString, SetupAt, NoAnswer, IInv, TypeOK, Tools
<1> HIDE DEF ch
<1>4. \A c \in Channels : ListOf(c)' = IF c = ch THEN InitialList ELSE ListOf(c)
  BY <1>1, BeginWriteLists
<1>5. SendsFine'
  <2>1. ASSUME NEW i \in 1 .. Len(sends), sends[i].kind = "revoke", sends[i].channel = ch
        PROVE  RevokeAnswerFine([sends[i] EXCEPT !.since = @ \ Ids], InitialList)
    <3>1. sends[i] \in Answers /\ RevokeAnswerFine(sends[i], ListOf(ch))
      BY <2>1, AnswerType DEF IInv, SendsFine
    <3>2. sends[i].since \subseteq Ids
      BY <1>1, <2>1, <3>1 DEF RevokeAnswerFine, IInv, ListsFine, ListFine
    <3>3. InitialList # NoFile
      BY InitialListFine, KeyManagerAssumption DEF ListFine
    <3>4. QED
      BY <3>1, <3>2, <3>3, SinceType DEF RevokeAnswerFine
  <2>2. QED
    BY <1>1, <1>4, <2>1, UnlistedFine
<1>6. QED
  BY <1>1, <1>5, InitialListFine, BeginWriteFiles

LEMMA RevokeUserKeeps ==
    ASSUME IInv, NEW ch \in Channels, NEW id \in Ids, RevokeUser(ch, id)
    PROVE  IInv'
<1> DEFINE list == revokeFile[ch]
           new == Revoked(list, id)
<1>1. writing = Idle /\ ListOf(ch) = list
  BY DEF RevokeUser, MainIdle, ListOf
<1>2. CASE list = NoFile \/ new = list
  BY <1>2, AnswerKeeps DEF RevokeUser
<1>3. CASE list # NoFile /\ new # list
  <2>1. /\ BeginWrite("revo", ch, id, new) /\ delivered' = Nothing
        /\ UNCHANGED <<keyFiles, sends, cut>> /\ tool' = NoTool
    BY <1>3 DEF RevokeUser, MainIdle, NoAnswer
  <2>2. ListFine(list) /\ list \in Lists /\ list # NoFile
    BY <1>1, <1>3 DEF IInv, ListsFine, ListFine
  <2>3. /\ ListFine(new)
        /\ list # <<>> => new # <<>> /\ new[1] = list[1]
    BY <2>2, RevokedFine
  <2>4. new = Append(list, id) /\ Len(new) = Len(list) + 1
    BY <1>3, <2>2 DEF Revoked
  <2>5. new \in Lists /\ new # NoFile
    BY <2>3, KeyManagerAssumption DEF ListFine
  <2> HIDE DEF list, new
  <2>6. \A c \in Channels : ListOf(c)' = IF c = ch THEN new ELSE ListOf(c)
    BY <1>1, <2>1, BeginWriteLists
  <2>7. SendsFine'
    <3>1. /\ sends \in Seq(Answers) /\ sends' = sends /\ UNCHANGED keyFiles
          /\ \A i \in 1 .. Len(sends) :
                /\ RevokeAnswerFine(sends[i], ListOf(sends[i].channel))
                /\ PrivateFine(sends[i])
      BY <2>1 DEF IInv, SendsFine
    <3>2. ASSUME NEW s \in Answers, RevokeAnswerFine(s, list)
          PROVE  RevokeAnswerFine(s, new)
      <4>1. SUFFICES ASSUME s.kind = "revoke" PROVE RevokeAnswerFine(s, new)
        BY DEF RevokeAnswerFine
      <4>2. s.size \in Nat /\ Len(list) \in Nat /\ id \in Texts
        BY <2>2 DEF Answers
      <4>3. \A n \in Nat : \A x : StandsWithin(list, n, x) => StandsWithin(new, n, x)
        BY <2>2, <2>4, AppendStands
      <4>4. \A x : StandsWithin(list, Len(list), x) => StandsWithin(new, Len(new), x)
        BY <2>4, <4>2, <4>3 DEF StandsWithin
      <4>5. QED
        BY <2>2, <2>5, <3>2, <4>1, <4>2, <4>3, <4>4 DEF RevokeAnswerFine
    <3>3. \A i \in 1 .. Len(sends) : sends[i] \in Answers /\ sends[i].channel \in Channels
      BY <3>1, AnswerType
    <3>4. \A i \in 1 .. Len(sends) : RevokeAnswerFine(sends[i], ListOf(sends[i].channel)')
      BY <1>1, <2>6, <3>1, <3>2, <3>3
    <3>5. QED
      BY <3>1, <3>3, <3>4 DEF SendsFine, Answers, PrivateFine
  <2>8. ch \notin cut => new # <<>> /\ new[1] = Root
    BY <1>1, <2>2, <2>3 DEF IInv, TypeOK
  <2>9. QED
    BY <1>1, <2>1, <2>3, <2>7, <2>8, BeginWriteFiles
<1>4. QED
  BY <1>2, <1>3

LEMMA UnrevokeUserKeeps ==
    ASSUME IInv, NEW ch \in Channels, NEW id \in Ids, UnrevokeUser(ch, id)
    PROVE  IInv'
<1> DEFINE list == revokeFile[ch]
           new == Unrevoked(list, id)
<1>1. writing = Idle /\ ListOf(ch) = list
  BY DEF UnrevokeUser, MainIdle, ListOf
<1>2. CASE list = NoFile \/ ~InTail(list, id)
  BY <1>2, AnswerKeeps DEF UnrevokeUser
<1>3. CASE list # NoFile /\ InTail(list, id)
  <2>1. /\ BeginWrite("unrevoke", ch, id, new) /\ delivered' = Nothing
        /\ sends' = Unlisted(sends, ch, {id})
        /\ UNCHANGED <<keyFiles, cut>> /\ tool' = NoTool
    BY <1>3 DEF UnrevokeUser, MainIdle, NoAnswer
  <2>2. /\ list \in Lists /\ TailDistinct(list)
        /\ \A x : StandsWithin(list, Len(list), x) => x \in Ids
    BY <1>1, <1>3 DEF IInv, ListsFine, ListFine
  <2>3. /\ new \in Lists /\ TailDistinct(new)
        /\ new # <<>> /\ new[1] = list[1] /\ id \notin TailIds(new)
        /\ \A x : StandsWithin(new, Len(new), x) => StandsWithin(list, Len(list), x)
    BY <1>3, <2>2, UnrevokedOnly
  <2>4. new # NoFile /\ Len(new) \in Nat /\ Len(list) \in Nat
    BY <2>2, <2>3, KeyManagerAssumption
  <2>5. \A n \in Nat : \A x : x # id /\ StandsWithin(list, n, x) => StandsWithin(new, n, x)
    BY <1>3, <2>2, UnrevokedStands
  <2> HIDE DEF list, new
  <2>6. ASSUME NEW x, x # id, StandsWithin(list, Len(list), x)
        PROVE  StandsWithin(new, Len(new), x)
    <3>1. StandsWithin(new, Len(list), x)
      BY <2>4, <2>5, <2>6
    <3>2. QED
      BY <2>4, <3>1 DEF StandsWithin
  <2>7. \A c \in Channels : ListOf(c)' = IF c = ch THEN new ELSE ListOf(c)
    BY <1>1, <2>1, BeginWriteLists
  <2>8. SendsFine'
    <3>1. ASSUME NEW i \in 1 .. Len(sends), sends[i].kind = "revoke", sends[i].channel = ch
          PROVE  RevokeAnswerFine([sends[i] EXCEPT !.since = @ \ {id}], new)
      <4>1. /\ sends[i] \in Answers /\ sends[i].size \in Nat
            /\ RevokeAnswerFine(sends[i], list)
        BY <1>1, <3>1, AnswerType DEF IInv, SendsFine
      <4> DEFINE r == [sends[i] EXCEPT !.since = @ \ {id}]
      <4>2. /\ r.kind = "revoke" /\ r.stage = sends[i].stage /\ r.size = sends[i].size
            /\ r.since = sends[i].since \ {id}
        BY <3>1, <4>1, SinceType
      <4> HIDE DEF r
      <4>3. RevokeAnswerFine(r, new)
        BY <1>3, <2>4, <2>5, <2>6, <3>1, <4>1, <4>2 DEF RevokeAnswerFine, list
      <4>4. QED
        BY <4>3 DEF r
    <3>2. QED
      BY <2>1, <2>7, <3>1, UnlistedFine
  <2>9. ch \notin cut => new # <<>> /\ new[1] = Root
    BY <1>1, <1>3, <2>3 DEF IInv, TypeOK, list
  <2>10. ListFine(new)
    BY <2>2, <2>3 DEF ListFine
  <2>11. QED
    BY <1>1, <2>1, <2>3, <2>8, <2>9, <2>10, BeginWriteFiles
<1>4. QED
  BY <1>2, <1>3

-----------------------------------------------------------------------------
(* The end of a write, and a kill *)

\* The file holds what the write said it would.
LEMMA EndWriteLists ==
    ASSUME IInv, EndWrite, NEW c \in Channels
    PROVE  /\ writing \in [op : {"Masterkey", "revo", "unrevoke"}, channel : Channels,
                           user : Ids \cup {NoId}, list : Lists]
           /\ revokeFile' = [revokeFile EXCEPT ![writing.channel] = writing.list]
           /\ revokeFile'[writing.channel] = writing.list
           /\ ListOf(c)' = ListOf(c)
<1>1. /\ writing # Idle /\ writing' = Idle
      /\ revokeFile' = [revokeFile EXCEPT ![writing.channel] = writing.list]
  BY DEF EndWrite
<1>2. /\ writing \in [op : {"Masterkey", "revo", "unrevoke"}, channel : Channels,
                      user : Ids \cup {NoId}, list : Lists]
      /\ revokeFile \in [Channels -> Lists \cup {NoFile}]
  BY <1>1 DEF IInv, TypeOK
<1>3. QED
  BY <1>1, <1>2 DEF ListOf

LEMMA EndWriteKeeps ==
    ASSUME IInv, EndWrite
    PROVE  IInv'
<1> DEFINE w == writing
<1>1. /\ w # Idle /\ writing' = Idle /\ delivered' = Nothing
      /\ UNCHANGED <<keyFiles, tool>>
  BY DEF EndWrite
<1>2. /\ w \in [op : {"Masterkey", "revo", "unrevoke"}, channel : Channels,
                user : Ids \cup {NoId}, list : Lists]
      /\ revokeFile \in [Channels -> Lists \cup {NoFile}]
      /\ w.op = "Masterkey" => w.list = InitialList
  BY <1>1 DEF IInv, TypeOK, WritingFine
<1>3. /\ revokeFile' = [revokeFile EXCEPT ![w.channel] = w.list]
      /\ revokeFile'[w.channel] = w.list
  BY <1>2, EndWriteLists
<1>4. \A c \in Channels : ListOf(c)' = ListOf(c)
  BY EndWriteLists
<1>5. SendsFine' /\ (cut' = cut \/ (cut' = cut \ {w.channel} /\ w.list = InitialList))
  <2>1. /\ sends \in Seq(Answers) /\ UNCHANGED keyFiles
        /\ \A i \in 1 .. Len(sends) :
              /\ RevokeAnswerFine(sends[i], ListOf(sends[i].channel))
              /\ PrivateFine(sends[i])
    BY <1>1 DEF IInv, SendsFine
  <2>2. \A i \in 1 .. Len(sends) : sends[i] \in Answers /\ sends[i].channel \in Channels
    BY <2>1, AnswerType
  <2>3. CASE w.op = "Masterkey"
    <3> DEFINE s == Send("public", w.channel, NoId, {})
    <3>1. sends' = Append(sends, s) /\ cut' = cut \ {w.channel}
      BY <2>3 DEF EndWrite
    <3>2. s \in Answers /\ s.kind = "public" /\ s.channel \in Channels
      BY <1>2 DEF Send, Answers
    <3> HIDE DEF s
    <3>3. sends' \in Seq(Answers)
      BY <2>1, <3>1, <3>2
    <3>4. \A i \in 1 .. Len(sends') :
              sends'[i] = s \/ (i \in 1 .. Len(sends) /\ sends'[i] = sends[i])
      BY <2>1, <3>1, <3>2
    <3>5. \A l : RevokeAnswerFine(s, l) /\ PrivateFine(s)
      BY <3>2 DEF RevokeAnswerFine, PrivateFine, PrivateAnswerFine
    <3>6. ASSUME NEW i \in 1 .. Len(sends'), NEW c \in Channels, sends'[i].channel = c
          PROVE  /\ RevokeAnswerFine(sends'[i], ListOf(c)')
                 /\ PrivateFine(sends'[i])
      BY <1>4, <2>1, <3>4, <3>5, <3>6
    <3>7. \A i \in 1 .. Len(sends') : sends'[i].channel \in Channels
      BY <3>3, AnswerType
    <3>8. SendsFine'
      BY <2>1, <3>3, <3>6, <3>7 DEF SendsFine, Answers, PrivateFine
    <3>9. QED
      BY <1>2, <2>3, <3>1, <3>8
  <2>4. CASE w.op # "Masterkey"
    <3>1. sends' = sends /\ cut' = cut
      BY <2>4 DEF EndWrite
    <3>2. QED
      BY <1>4, <2>1, <2>2, <3>1 DEF SendsFine, Answers, PrivateFine
  <2>5. QED
    BY <2>3, <2>4
<1> HIDE DEF w
<1>6. \A i \in DOMAIN sends' :
          /\ sends'[i].kind \in {"public", "private", "revoke"}
          /\ sends'[i].stage \in {"asked", "sized", "reading"}
          /\ sends'[i].size \in Nat
  <2>1. sends' \in Seq(Answers)
    BY <1>5 DEF SendsFine, Answers
  <2>2. QED
    BY <2>1, AnswerType
<1>7. \A c \in Channels \ cut' :
          ListOf(c)' # NoFile => ListOf(c)' # <<>> /\ ListOf(c)'[1] = Root
  <2>1. ListOf(w.channel) = w.list
    BY <1>1 DEF ListOf, w
  <2>2. \A c \in Channels \ cut :
            ListOf(c) # NoFile => ListOf(c) # <<>> /\ ListOf(c)[1] = Root
    BY DEF IInv, TypeOK
  <2>3. QED
    BY <1>4, <1>5, <2>1, <2>2, InitialListFine
<1>8. TypeOK'
  <2>1. revokeFile' \in [Channels -> Lists \cup {NoFile}]
    BY <1>2, <1>3
  <2>2. QED
    BY <1>1, <1>5, <1>6, <1>7, <2>1 DEF IInv, TypeOK
<1>9. ListsFine' /\ WritingFine' /\ KeysFine'
  BY <1>1, <1>4 DEF IInv, ListsFine, ListFine, TailDistinct, StandsWithin, WritingFine,
     KeysFine
<1>10. QED
  BY <1>1, <1>5, <1>8, <1>9 DEF IInv, AnswerCoversRevoked, PrivateKeyCurrent, Nothing

LEMMA CrashLists ==
    ASSUME IInv, Crash, NEW c \in Channels
    PROVE  ListOf(c)' = IF writing # Idle /\ writing.channel = c THEN <<>> ELSE ListOf(c)
BY DEF Crash, files, ListOf, IInv, WritingFine

LEMMA CrashKeeps ==
    ASSUME IInv, Crash
    PROVE  IInv'
<1>1. /\ writing' = Idle /\ sends' = <<>> /\ delivered' = Nothing
      /\ UNCHANGED files /\ tool' = NoTool
      /\ cut' = IF writing = Idle THEN cut ELSE cut \cup {writing.channel}
  BY DEF Crash, NoAnswer, files
<1>2. \A c \in Channels :
          ListOf(c)' = IF writing # Idle /\ writing.channel = c THEN <<>> ELSE ListOf(c)
  BY CrashLists
<1>3. TypeOK'
  <2>1. cut' \subseteq Channels
    BY <1>1 DEF IInv, TypeOK
  <2>2. \A c \in Channels \ cut' :
            ListOf(c)' # NoFile => ListOf(c)' # <<>> /\ ListOf(c)'[1] = Root
    BY <1>1, <1>2 DEF IInv, TypeOK
  <2>3. QED
    BY <1>1, <2>1, <2>2 DEF IInv, TypeOK
<1>4. ListsFine'
  <2>1. ListFine(<<>>)
    BY DEF ListFine, TailDistinct, StandsWithin
  <2>2. QED
    BY <1>2, <2>1 DEF IInv, ListsFine, ListFine, TailDistinct, StandsWithin
<1>5. WritingFine' /\ KeysFine' /\ SendsFine'
  BY <1>1 DEF IInv, WritingFine, KeysFine, SendsFine
<1>6. QED
  BY <1>1, <1>3, <1>4, <1>5 DEF IInv, AnswerCoversRevoked, PrivateKeyCurrent, Nothing

-----------------------------------------------------------------------------
(* Steps of cpabe-setup and cpabe-keygen *)

\* With the lists as they are only keys, tool and answers have to be looked at.
LEMMA ToolStep ==
    ASSUME IInv, UNCHANGED <<revokeFile, writing, cut>>, delivered' = Nothing,
           generation' \in [Channels -> 0 .. MaxSetups],
           public' \in [Channels -> KeyFiles], master' \in [Channels -> KeyFiles],
           privateKeys' \in [Channels -> [Ids -> KeyFiles]],
           tool' = NoTool \/ (tool' \in Tools /\ writing = Idle),
           KeysFine', SendsFine'
    PROVE  IInv'
<1>1. \A ch \in Channels : ListOf(ch)' = ListOf(ch)
  BY SameLists
<1>2. \A i \in DOMAIN sends' :
          /\ sends'[i].kind \in {"public", "private", "revoke"}
          /\ sends'[i].stage \in {"asked", "sized", "reading"}
          /\ sends'[i].size \in Nat
  <2>1. sends' \in Seq(Answers)
    BY DEF SendsFine, Answers
  <2>2. QED
    BY <2>1, AnswerType
<1>3. TypeOK'
  BY <1>1, <1>2 DEF IInv, TypeOK, Tools, KeyFiles, Idle, NoTool
<1>4. ListsFine' /\ WritingFine'
  BY <1>1 DEF IInv, ListsFine, ListFine, TailDistinct, StandsWithin, WritingFine
<1>5. QED
  BY <1>3, <1>4 DEF IInv, AnswerCoversRevoked, PrivateKeyCurrent, Nothing

\* Answers that stay as they are stay fine if private ones do.
LEMMA SameSends ==
    ASSUME IInv, UNCHANGED <<sends, revokeFile, writing>>,
           \A s \in Answers :
              PrivateFine(s) => PrivateAnswerFine(s, generation', master', privateKeys')
    PROVE  SendsFine'
<1>1. /\ sends \in Seq(Answers)
      /\ \A i \in 1 .. Len(sends) :
            RevokeAnswerFine(sends[i], ListOf(sends[i].channel)) /\ PrivateFine(sends[i])
  BY DEF IInv, SendsFine
<1>2. \A i \in 1 .. Len(sends) : sends[i] \in Answers /\ sends[i].channel \in Channels
  BY <1>1, AnswerType
<1>3. \A ch \in Channels : ListOf(ch)' = ListOf(ch)
  BY SameLists
<1>4. QED
  BY <1>1, <1>2, <1>3 DEF SendsFine, Answers, PrivateFine

\* The types of the key files.
LEMMA KeyTypes ==
    ASSUME IInv
    PROVE  /\ generation \in [Channels -> 0 .. MaxSetups] /\ MaxSetups \in Nat
           /\ public \in [Channels -> KeyFiles] /\ master \in [Channels -> KeyFiles]
           /\ privateKeys \in [Channels -> [Ids -> KeyFiles]]
           /\ <<>> \in KeyFiles /\ ~Written(<<>>)
           /\ \A ch \in Channels : /\ generation[ch] \in Nat
                                   /\ Written(master[ch]) => master[ch][1] \in Nat
<1>1. /\ generation \in [Channels -> 0 .. MaxSetups] /\ MaxSetups \in Nat
      /\ public \in [Channels -> KeyFiles] /\ master \in [Channels -> KeyFiles]
      /\ privateKeys \in [Channels -> [Ids -> KeyFiles]]
  BY KeyManagerAssumption DEF IInv, TypeOK
<1>2. <<>> \in KeyFiles /\ ~Written(<<>>)
  BY DEF KeyFiles, Written
<1>3. ASSUME NEW ch \in Channels
      PROVE  generation[ch] \in Nat /\ (Written(master[ch]) => master[ch][1] \in Nat)
  BY <1>1, KeyFileIs
<1>4. QED
  BY <1>1, <1>2, <1>3

\* A setup step changes only keys, of its own channel.
LEMMA SetupStage ==
    ASSUME IInv, NEW stage, SetupAt(stage),
           NEW next \in {"written", "master", "done"}, tool' = [tool EXCEPT !.stage = next]
    PROVE  /\ tool.channel \in Channels /\ generation[tool.channel] > 0
           /\ <<generation[tool.channel]>> \in KeyFiles
           /\ writing = Idle /\ tool' \in Tools /\ tool' # NoTool
           /\ tool'.op = "setup" /\ tool'.channel = tool.channel
<1>1. /\ tool \in Tools /\ writing = Idle /\ tool.op = "setup" /\ tool # NoTool
      /\ tool.channel \in Channels
  BY DEF SetupAt, IInv, TypeOK, Tools
<1>2. generation[tool.channel] > 0 /\ generation[tool.channel] \in 0 .. MaxSetups
  BY <1>1, KeyTypes DEF IInv, KeysFine
<1>3. /\ tool' \in Tools /\ tool'.op = "setup" /\ tool'.channel = tool.channel
  BY <1>1 DEF Tools
<1>4. <<generation[tool.channel]>> \in KeyFiles
  BY <1>2, KeyTypes DEF KeyFiles
<1>5. QED
  BY <1>1, <1>2, <1>3, <1>4 DEF NoTool

LEMMA MasterkeyKeeps ==
    ASSUME IInv, NEW ch \in Channels, Masterkey(ch)
    PROVE  IInv'
<1>1. /\ writing = Idle /\ generation[ch] < MaxSetups /\ delivered' = Nothing
      /\ generation' = [generation EXCEPT ![ch] = @ + 1]
      /\ public' = [public EXCEPT ![ch] = <<>>]
      /\ tool' = [op |-> "setup", channel |-> ch, user |-> NoId, stage |-> "public"]
      /\ UNCHANGED <<master, privateKeys, revokeFile, writing, sends, cut>>
  BY DEF Masterkey, MainIdle, NoAnswer
<1>2. tool' \in Tools /\ tool'.channel = ch /\ tool'.op = "setup"
  BY <1>1 DEF Tools
<1>3. /\ generation' \in [Channels -> 0 .. MaxSetups] /\ public' \in [Channels -> KeyFiles]
      /\ \A c \in Channels : generation'[c] \in Nat /\ generation[c] <= generation'[c]
      /\ generation'[ch] > 0
  BY <1>1, KeyTypes
<1>4. KeysFine'
  BY <1>1, <1>2, <1>3, KeyTypes DEF IInv, KeysFine
<1>5. ASSUME NEW s \in Answers, PrivateFine(s)
      PROVE  PrivateAnswerFine(s, generation', master', privateKeys')
  <2>1. s.channel \in Channels
    BY DEF Answers
  <2>2. generation[s.channel] \in Nat /\ generation'[s.channel] \in Nat
    BY <1>3, <2>1, KeyTypes
  <2>3. QED
    BY <1>1, <1>3, <1>5, <2>1, <2>2 DEF PrivateFine, PrivateAnswerFine
<1>6. SendsFine'
  BY <1>1, <1>5, SameSends
<1>7. QED
  BY <1>1, <1>2, <1>3, <1>4, <1>6, KeyTypes, ToolStep

LEMMA SetupWritesPublicKeeps ==
    ASSUME IInv, SetupWritesPublic
    PROVE  IInv'
<1>1. /\ SetupAt("public") /\ delivered' = Nothing
      /\ public' = [public EXCEPT ![tool.channel] = <<generation[tool.channel]>>]
      /\ tool' = [tool EXCEPT !.stage = "written"]
      /\ UNCHANGED <<generation, master, privateKeys, revokeFile, writing, sends, cut>>
  BY DEF SetupWritesPublic, NoAnswer
<1>2. /\ tool.channel \in Channels /\ generation[tool.channel] > 0
      /\ <<generation[tool.channel]>> \in KeyFiles
      /\ writing = Idle /\ tool' \in Tools
      /\ tool'.op = "setup" /\ tool'.channel = tool.channel
  BY <1>1, SetupStage
<1>3. KeysFine'
  BY <1>1, <1>2 DEF IInv, KeysFine
<1>4. SendsFine'
  BY <1>1, SameSends DEF PrivateFine
<1>5. public' \in [Channels -> KeyFiles]
  BY <1>1, <1>2, KeyTypes
<1>6. QED
  BY <1>1, <1>2, <1>3, <1>4, <1>5, KeyTypes, ToolStep

\* A master key that is truncated, or is the channel's newest, suits every answer.
LEMMA MasterChanged ==
    ASSUME IInv, NEW stage, SetupAt(stage), NEW file \in KeyFiles,
           Written(file) => file = <<generation[tool.channel]>>,
           NEW next \in {"master", "done"}, tool' = [tool EXCEPT !.stage = next],
           master' = [master EXCEPT ![tool.channel] = file], delivered' = Nothing,
           UNCHANGED <<generation, public, privateKeys, revokeFile, writing, sends, cut>>
    PROVE  IInv'
<1>1. /\ tool.channel \in Channels /\ generation[tool.channel] > 0
      /\ writing = Idle /\ tool' \in Tools
      /\ tool'.op = "setup" /\ tool'.channel = tool.channel
  BY SetupStage
<1>2. master' \in [Channels -> KeyFiles]
  BY <1>1, KeyTypes
<1>3. \A c \in Channels :
          \/ master'[c] = master[c]
          \/ Written(master'[c]) => master'[c][1] = generation[c]
  <2>1. \A g : <<g>>[1] = g
    OBVIOUS
  <2>2. QED
    BY <1>1, <2>1, KeyTypes
<1>4. KeysFine'
  <2>1. ASSUME NEW c \in Channels, Written(master'[c])
        PROVE  master'[c][1] <= generation[c]
    <3>1. generation[c] \in Nat
      BY KeyTypes
    <3>2. QED
      BY <1>3, <2>1, <3>1 DEF IInv, KeysFine
  <2>2. QED
    BY <1>1, <2>1 DEF KeysFine
<1>5. ASSUME NEW s \in Answers, PrivateFine(s)
      PROVE  PrivateAnswerFine(s, generation', master', privateKeys')
  <2>1. s.channel \in Channels
    BY DEF Answers
  <2>2. QED
    BY <1>3, <1>5, <2>1 DEF PrivateFine, PrivateAnswerFine
<1>6. SendsFine'
  BY <1>5, SameSends
<1>7. QED
  BY <1>1, <1>2, <1>4, <1>6, KeyTypes, ToolStep

LEMMA SetupMasterKeeps ==
    ASSUME IInv, SetupOpensMaster \/ SetupWritesMaster
    PROVE  IInv'
<1>1. CASE SetupOpensMaster
  BY <1>1, KeyTypes, MasterChanged DEF SetupOpensMaster, NoAnswer
<1>2. CASE SetupWritesMaster
  <2>1. <<generation[tool.channel]>> \in KeyFiles
    BY <1>2, SetupStage DEF SetupWritesMaster
  <2>2. QED
    BY <1>2, <2>1, MasterChanged DEF SetupWritesMaster, NoAnswer
<1>3. QED
  BY <1>1, <1>2

\* generatePrivateKey marks the user's answers under way, and no others.
LEMMA OvertakenIs ==
    ASSUME NEW ss \in Seq(Answers), NEW ch \in Channels, NEW id
    PROVE  /\ Overtaken(ss, ch, id) \in Seq(Answers)
           /\ Len(Overtaken(ss, ch, id)) = Len(ss)
           /\ \A i \in 1 .. Len(ss) :
                 LET r == Overtaken(ss, ch, id)[i] IN
                 /\ r.kind = ss[i].kind /\ r.channel = ss[i].channel
                 /\ r.user = ss[i].user /\ r.stage = ss[i].stage
                 /\ r.size = ss[i].size /\ r.since = ss[i].since
                 /\ ss[i].overtaken => r.overtaken
                 /\ ss[i].kind = "private" /\ ss[i].channel = ch /\ ss[i].user = id
                       => r.overtaken
<1> DEFINE o(i) == IF ss[i].kind = "private" /\ ss[i].channel = ch /\ ss[i].user = id
                   THEN [ss[i] EXCEPT !.overtaken = TRUE] ELSE ss[i]
<1>1. Overtaken(ss, ch, id) = [i \in 1 .. Len(ss) |-> o(i)] /\ Len(ss) \in Nat
  BY DEF Overtaken
<1>2. \A s \in Answers :
          LET r == [s EXCEPT !.overtaken = TRUE] IN
          /\ r \in Answers
          /\ r.kind = s.kind /\ r.channel = s.channel /\ r.user = s.user
          /\ r.stage = s.stage /\ r.size = s.size /\ r.since = s.since /\ r.overtaken
  BY DEF Answers
<1>3. ASSUME NEW i \in 1 .. Len(ss)
      PROVE  /\ o(i) \in Answers
             /\ o(i).kind = ss[i].kind /\ o(i).channel = ss[i].channel
             /\ o(i).user = ss[i].user /\ o(i).stage = ss[i].stage
             /\ o(i).size = ss[i].size /\ o(i).since = ss[i].since
             /\ ss[i].overtaken => o(i).overtaken
             /\ ss[i].kind = "private" /\ ss[i].channel = ch /\ ss[i].user = id
                   => o(i).overtaken
  <2>1. ss[i] \in Answers
    OBVIOUS
  <2>2. QED
    BY <1>2, <2>1
<1> HIDE DEF o
<1>4. /\ Overtaken(ss, ch, id) \in Seq(Answers)
      /\ Len(Overtaken(ss, ch, id)) = Len(ss)
      /\ \A i \in 1 .. Len(ss) : Overtaken(ss, ch, id)[i] = o(i)
  BY <1>1, <1>3
<1>5. QED
  BY <1>3, <1>4

LEMMA PrivateKeyKeeps ==
    ASSUME IInv, NEW ch \in Channels, NEW id \in Ids, PrivateKey(ch, id)
    PROVE  IInv'
<1>1. /\ writing = Idle /\ Written(master[ch]) /\ delivered' = Nothing
      /\ privateKeys' = [privateKeys EXCEPT ![ch][id] = <<>>]
      /\ sends' = Overtaken(sends, ch, id)
      /\ tool' = [op |-> "keygen", channel |-> ch, user |-> id, stage |-> "private"]
      /\ UNCHANGED <<generation, public, master, revokeFile, writing, cut>>
  BY DEF PrivateKey, MainIdle, NoAnswer
<1>2. tool' \in Tools /\ tool'.channel = ch /\ tool'.op = "keygen" /\ tool'.user = id
  BY <1>1 DEF Tools
<1>3. /\ privateKeys' \in [Channels -> [Ids -> KeyFiles]]
      /\ \A c \in Channels, u \in Ids :
            privateKeys'[c][u] = IF c = ch /\ u = id THEN <<>> ELSE privateKeys[c][u]
  BY <1>1, KeyTypes
<1>4. KeysFine'
  BY <1>1, <1>2 DEF IInv, KeysFine
<1>5. /\ sends \in Seq(Answers)
      /\ \A i \in 1 .. Len(sends) :
            RevokeAnswerFine(sends[i], ListOf(sends[i].channel)) /\ PrivateFine(sends[i])
  BY DEF IInv, SendsFine
<1>6. /\ sends' \in Seq(Answers) /\ Len(sends') = Len(sends)
      /\ \A i \in 1 .. Len(sends) :
            LET r == sends'[i] IN
            /\ r.kind = sends[i].kind /\ r.channel = sends[i].channel
            /\ r.user = sends[i].user /\ r.stage = sends[i].stage
            /\ r.size = sends[i].size /\ r.since = sends[i].since
            /\ sends[i].overtaken => r.overtaken
            /\ sends[i].kind = "private" /\ sends[i].channel = ch /\ sends[i].user = id
                  => r.overtaken
  BY <1>1, <1>5, OvertakenIs
<1>7. ASSUME NEW i \in 1 .. Len(sends'), NEW c \in Channels, sends'[i].channel = c
      PROVE  /\ RevokeAnswerFine(sends'[i], ListOf(c)')
             /\ PrivateAnswerFine(sends'[i], generation', master', privateKeys')
  <2> DEFINE r == sends'[i]
  <2>1. RevokeAnswerFine(sends[i], ListOf(c)) /\ PrivateFine(sends[i])
    BY <1>5, <1>6, <1>7
  <2>2. /\ r.kind = sends[i].kind /\ r.channel = c /\ sends[i].channel = c
        /\ r.user = sends[i].user /\ r.stage = sends[i].stage
        /\ r.size = sends[i].size /\ r.since = sends[i].since
        /\ sends[i].overtaken => r.overtaken
        /\ sends[i].kind = "private" /\ c = ch /\ sends[i].user = id => r.overtaken
    BY <1>6, <1>7
  <2>3. ListOf(c)' = ListOf(c)
    BY <1>1, SameLists
  <2> HIDE DEF r
  <2>4. RevokeAnswerFine(r, ListOf(c))
    BY <2>1, <2>2 DEF RevokeAnswerFine
  <2>5. PrivateAnswerFine(r, generation', master', privateKeys')
    <3>1. SUFFICES ASSUME r.kind = "private"
                   PROVE  PrivateAnswerFine(r, generation', master', privateKeys')
      BY DEF PrivateAnswerFine
    <3>2. CASE c = ch /\ r.user = id
      <4>1. r.overtaken /\ privateKeys'[ch][id] = <<>>
        BY <1>3, <2>2, <3>1, <3>2
      <4>2. <<>> # NoFile
        <5>1. <<>> \in Seq(Nat)
          OBVIOUS
        <5>2. QED
          BY <5>1, KeyManagerAssumption
      <4>3. QED
        BY <1>1, <2>1, <2>2, <3>1, <3>2, <4>1, <4>2 DEF PrivateFine, PrivateAnswerFine
    <3>3. CASE ~(c = ch /\ r.user = id)
      <4>1. r.user \in Ids
        BY <2>1, <2>2, <3>1 DEF PrivateFine, PrivateAnswerFine
      <4>2. privateKeys'[c][r.user] = privateKeys[c][r.user]
        BY <1>3, <3>3, <4>1
      <4>3. QED
        BY <1>1, <2>1, <2>2, <3>1, <4>2 DEF PrivateFine, PrivateAnswerFine
    <3>4. QED
      BY <3>2, <3>3
  <2>6. QED
    BY <2>3, <2>4, <2>5 DEF r
<1>8. \A i \in 1 .. Len(sends') : sends'[i].channel \in Channels
  BY <1>6, AnswerType
<1>9. SendsFine'
  BY <1>6, <1>7, <1>8 DEF SendsFine, Answers, PrivateFine
<1>10. QED
  BY <1>1, <1>2, <1>3, <1>4, <1>9, KeyTypes, ToolStep

LEMMA KeygenWritesKeeps ==
    ASSUME IInv, KeygenWrites
    PROVE  IInv'
<1> DEFINE ch == tool.channel
           id == tool.user
           s == Send("private", ch, id, master[ch][1])
<1>1. /\ tool # NoTool /\ tool.op = "keygen" /\ tool' = NoTool /\ delivered' = Nothing
      /\ privateKeys' = [privateKeys EXCEPT ![ch][id] = master[ch]]
      /\ sends' = Append(sends, s)
      /\ UNCHANGED <<generation, public, master, revokeFile, writing, cut>>
  BY DEF KeygenWrites, NoAnswer
<1>2. /\ ch \in Channels /\ id \in Ids /\ Written(master[ch])
      /\ master[ch][1] <= generation[ch] /\ master[ch] \in KeyFiles
  <2>1. ch \in Channels
    BY <1>1 DEF IInv, TypeOK, Tools
  <2>2. QED
    BY <1>1, <2>1, KeyTypes DEF IInv, KeysFine
<1>3. PICK g \in Nat : master[ch] = <<g>> /\ master[ch][1] = g
  BY <1>2, KeyFileIs
<1>4. /\ s \in Answers /\ s.kind = "private" /\ s.channel = ch /\ s.user = id
      /\ s.since = g /\ s.stage = "asked"
  BY <1>2, <1>3 DEF Send, Answers
<1> HIDE DEF s, ch, id
<1>5. /\ privateKeys' \in [Channels -> [Ids -> KeyFiles]]
      /\ \A c \in Channels, u \in Ids :
            privateKeys'[c][u] = IF c = ch /\ u = id THEN master[ch] ELSE privateKeys[c][u]
  BY <1>1, <1>2, KeyTypes
<1>6. KeysFine'
  BY <1>1 DEF IInv, KeysFine
<1>7. /\ master[ch] # <<>> /\ master[ch] # NoFile
  BY <1>2 DEF Written
<1>8. PrivateAnswerFine(s, generation', master', privateKeys')
  <2>1. privateKeys'[ch][id] = master[ch]
    BY <1>2, <1>5
  <2>2. g <= g
    BY <1>3
  <2>3. QED
    BY <1>1, <1>2, <1>3, <1>4, <1>7, <2>1, <2>2 DEF PrivateAnswerFine
<1>9. ASSUME NEW r \in Answers, PrivateFine(r)
      PROVE  PrivateAnswerFine(r, generation', master', privateKeys')
  <2>1. SUFFICES ASSUME r.kind = "private"
                 PROVE  PrivateAnswerFine(r, generation', master', privateKeys')
    BY DEF PrivateAnswerFine
  <2>2. r.channel \in Channels /\ r.user \in Ids
    BY <1>9, <2>1 DEF Answers, PrivateFine, PrivateAnswerFine
  <2>3. CASE r.channel = ch /\ r.user = id
    <3>1. privateKeys'[ch][id] = master[ch]
      BY <1>2, <1>5
    <3>2. QED
      BY <1>1, <1>2, <1>7, <1>9, <2>1, <2>3, <3>1 DEF PrivateFine, PrivateAnswerFine
  <2>4. CASE ~(r.channel = ch /\ r.user = id)
    <3>1. privateKeys'[r.channel][r.user] = privateKeys[r.channel][r.user]
      BY <1>5, <2>2, <2>4
    <3>2. QED
      BY <1>1, <1>9, <2>1, <3>1 DEF PrivateFine, PrivateAnswerFine
  <2>5. QED
    BY <2>3, <2>4
<1>10. SendsFine'
  <2>1. /\ sends \in Seq(Answers)
        /\ \A i \in 1 .. Len(sends) :
              RevokeAnswerFine(sends[i], ListOf(sends[i].channel)) /\ PrivateFine(sends[i])
    BY DEF IInv, SendsFine
  <2>2. sends' \in Seq(Answers)
    BY <1>1, <1>4, <2>1
  <2>3. \A i \in 1 .. Len(sends') :
            sends'[i] = s \/ (i \in 1 .. Len(sends) /\ sends'[i] = sends[i])
    BY <1>1, <1>4, <2>1
  <2>4. \A i \in 1 .. Len(sends') : sends'[i] \in Answers /\ sends'[i].channel \in Channels
    BY <2>2, AnswerType
  <2>5. \A l : RevokeAnswerFine(s, l)
    BY <1>4 DEF RevokeAnswerFine
  <2>6. \A c \in Channels : ListOf(c)' = ListOf(c)
    BY <1>1, SameLists
  <2>7. ASSUME NEW i \in 1 .. Len(sends'), NEW c \in Channels, sends'[i].channel = c
        PROVE  /\ RevokeAnswerFine(sends'[i], ListOf(c)')
               /\ PrivateAnswerFine(sends'[i], generation', master', privateKeys')
    BY <1>8, <1>9, <2>1, <2>3, <2>4, <2>5, <2>6, <2>7
  <2>8. QED
    BY <2>2, <2>4, <2>7 DEF SendsFine, Answers, PrivateFine
<1>11. QED
  BY <1>1, <1>5, <1>6, <1>10, KeyTypes, ToolStep

-----------------------------------------------------------------------------
(* The theorems *)

LEMMA NextIInv == IInv /\ [Next]_vars => IInv'
<1> SUFFICES ASSUME IInv, [Next]_vars PROVE IInv'
  OBVIOUS
<1>1. CASE \/ SetupWritesPublic \/ SetupOpensMaster \/ SetupWritesMaster
           \/ GenerateRevokeString \/ EndWrite \/ KeygenWrites
  BY <1>1, SetupWritesPublicKeeps, SetupMasterKeeps, GenerateRevokeStringKeeps,
     EndWriteKeeps, KeygenWritesKeeps
<1>2. ASSUME NEW ch \in Channels,
             Masterkey(ch) \/ PublicKey(ch) \/ GetRevokeFile(ch)
      PROVE  IInv'
  BY <1>2, MasterkeyKeeps, PublicKeyKeeps, GetRevokeFileKeeps
<1>3. ASSUME NEW ch \in Channels, NEW id \in Ids,
             PrivateKey(ch, id) \/ RevokeUser(ch, id) \/ UnrevokeUser(ch, id)
      PROVE  IInv'
  BY <1>3, PrivateKeyKeeps, RevokeUserKeeps, UnrevokeUserKeeps
<1>4. ASSUME NEW i \in DOMAIN sends, SendStat(i) \/ SendOpen(i) \/ SendRead(i)
      PROVE  IInv'
  BY <1>4, SendStatKeeps, SendOpenKeeps, SendReadKeeps
<1>5. CASE Crash
  BY <1>5, CrashKeeps
<1>6. CASE UNCHANGED vars
  BY <1>6, StutterKeeps
<1>7. QED
  BY <1>1, <1>2, <1>3, <1>4, <1>5, <1>6, KeyManagerAssumption DEF Next

LEMMA Inductive == Spec => []IInv
BY InitIInv, NextIInv, PTL DEF Spec

\* The variables keep their types, and a list no kill has emptied its root.
THEOREM TypeCorrect == Spec => []TypeOK
<1>1. IInv => TypeOK
  BY DEF IInv
<1>2. QED
  BY <1>1, Inductive, PTL

\* However handlers interleave with the stages of an answer, a list that is sent
\* holds everyone who was revoked at its request and has stayed so.
THEOREM AnswersCover == Spec => []AnswerCoversRevoked
<1>1. IInv => AnswerCoversRevoked
  BY DEF IInv
<1>2. QED
  BY <1>1, Inductive, PTL

\* A private key that is sent is not older than the master key at its request, and
\* comes without a body only if the user's key was asked for again meanwhile.
THEOREM PrivateCurrent == Spec => []PrivateKeyCurrent
<1>1. IInv => PrivateKeyCurrent
  BY DEF IInv
<1>2. QED
  BY <1>1, Inductive, PTL

-----------------------------------------------------------------------------
(* Revocations take effect *)

\* Nobody is typed in two ways, as "5" and "05", and nobody as the root.
OneTextPerNumber == \A a, b \in Texts : Number[a] = Number[b] => a = b

\* After an answer to /unrevoke no text of the list stands for the user's number,
\* if every number is typed in one way only.
THEOREM UnrevokeEffective ==
    ASSUME OneTextPerNumber
    PROVE  Spec => UnrevokeTakesEffect
<1> DEFINE Effective ==
        response'.op = "unrevoke" /\ response'.channel \notin cut' =>
           Number[response'.user] \notin
              {Number[x] : x \in StoodFor(revokeFile'[response'.channel])}
<1>1. ASSUME IInv, NEW ch \in Channels, NEW id \in Ids, NEW list,
             list = NoFile \/ (list \in Lists /\ list # <<>> /\ list[1] = Root),
             list = NoFile \/ id \notin TailIds(list)
      PROVE  Number[id] \notin {Number[x] : x \in StoodFor(list)}
  <2>1. CASE list = NoFile
    BY <2>1 DEF StoodFor
  <2>2. CASE list # NoFile
    <3>1. StoodFor(list) = TailIds(list) /\ TailIds(list) \subseteq Texts
      BY <1>1, <2>2 DEF StoodFor, TailIds
    <3>2. QED
      BY <1>1, <2>2, <3>1 DEF OneTextPerNumber
  <2>3. QED
    BY <2>1, <2>2
<1>2. ASSUME IInv, Next PROVE Effective
  <2> USE <1>2
  <2>1. CASE EndWrite
    <3> DEFINE w == writing
    <3>1. SUFFICES ASSUME w.op = "unrevoke", w.channel \notin cut PROVE Effective
      BY <2>1 DEF EndWrite, NoResponse
    <3>2. /\ w \in [op : {"Masterkey", "revo", "unrevoke"}, channel : Channels,
                    user : Ids \cup {NoId}, list : Lists]
          /\ revokeFile'[w.channel] = w.list
      BY <2>1, EndWriteLists DEF EndWrite, IInv, TypeOK
    <3>3. /\ response' = [op |-> w.op, channel |-> w.channel, user |-> w.user, ok |-> TRUE]
          /\ w # Idle
      BY <2>1, <3>1 DEF EndWrite
    <3>4. w.user \in Ids /\ w.user \notin TailIds(w.list)
      BY <3>1, <3>3 DEF IInv, WritingFine
    <3>5. w.list = NoFile \/ (w.list # <<>> /\ w.list[1] = Root)
      <4>1. ListOf(w.channel) = w.list
        BY <3>3 DEF ListOf
      <4>2. QED
        BY <3>1, <3>2, <4>1 DEF IInv, TypeOK
    <3> HIDE DEF w
    <3>6. Number[w.user] \notin {Number[x] : x \in StoodFor(w.list)}
      BY <1>1, <3>2, <3>4, <3>5
    <3>7. QED
      BY <3>2, <3>3, <3>6
  <2>2. ASSUME NEW ch \in Channels, NEW id \in Ids, UnrevokeUser(ch, id)
        PROVE  Effective
    <3> DEFINE list == revokeFile[ch]
    <3>1. CASE list = NoFile \/ ~InTail(list, id)
      <4>1. /\ response' = [op |-> "unrevoke", channel |-> ch, user |-> id, ok |-> FALSE]
            /\ revokeFile' = revokeFile /\ cut' = cut /\ writing = Idle
        BY <2>2, <3>1 DEF UnrevokeUser, MainIdle, Answer
      <4>2. SUFFICES ASSUME ch \notin cut
                     PROVE  Number[id] \notin {Number[x] : x \in StoodFor(list)}
        BY <4>1
      <4>3. list = NoFile \/ (list \in Lists /\ list # <<>> /\ list[1] = Root)
        <5>1. ListOf(ch) = list
          BY <4>1 DEF ListOf
        <5>2. QED
          BY <4>2, <5>1 DEF IInv, TypeOK
      <4>4. list = NoFile \/ id \notin TailIds(list)
        BY <3>1 DEF InTail, TailIds
      <4> HIDE DEF list
      <4>5. QED
        BY <1>1, <4>3, <4>4
    <3>2. CASE ~(list = NoFile \/ ~InTail(list, id))
      BY <2>2, <3>2 DEF UnrevokeUser, NoAnswer, NoResponse
    <3>3. QED
      BY <3>1, <3>2
  <2>3. ASSUME NEW ch \in Channels, NEW id \in Ids, PrivateKey(ch, id) \/ RevokeUser(ch, id)
        PROVE  Effective
    BY <2>3 DEF PrivateKey, RevokeUser, Answer, NoAnswer, NoResponse
  <2>4. ASSUME NEW ch \in Channels, Masterkey(ch) \/ PublicKey(ch) \/ GetRevokeFile(ch)
        PROVE  Effective
    BY <2>4 DEF Masterkey, PublicKey, GetRevokeFile, NoAnswer, NoResponse
  <2>5. ASSUME NEW i \in DOMAIN sends, SendStat(i) \/ SendOpen(i) \/ SendRead(i)
        PROVE  Effective
    BY <2>5 DEF SendStat, SendOpen, SendRead, NoAnswer, NoResponse
  <2>6. CASE Crash
    BY <2>6 DEF Crash, NoAnswer, NoResponse
  <2>7. CASE \/ SetupWritesPublic \/ SetupOpensMaster \/ SetupWritesMaster
             \/ GenerateRevokeString \/ KeygenWrites
    BY <2>7 DEF SetupWritesPublic, SetupOpensMaster, SetupWritesMaster,
       GenerateRevokeString, KeygenWrites, NoAnswer, NoResponse
  <2> HIDE DEF Effective
  <2>8. QED
    BY <2>1, <2>2, <2>3, <2>4, <2>5, <2>6, <2>7, KeyManagerAssumption DEF Next
<1>3. IInv /\ [Next]_vars => [Effective]_vars
  BY <1>2
<1>4. Spec => [][Effective]_vars
  BY <1>3, Inductive, PTL DEF Spec
<1>5. QED
  BY <1>4, PTL DEF UnrevokeTakesEffect

\* Whom the list of a channel stands for, as numbers.
RevokedNumbers == [ch \in Channels |-> {Number[id] : id \in StoodFor(ListOf(ch))}]

\* A step that edits one list changes one channel's users.
LEMMA RevokedEdited ==
    ASSUME NEW ch \in Channels, NEW list, NEW set,
           \A c \in Channels : ListOf(c)' = IF c = ch THEN list ELSE ListOf(c),
           {Number[x] : x \in StoodFor(list)} = set
    PROVE  RevokedNumbers' = [RevokedNumbers EXCEPT ![ch] = set]
BY DEF RevokedNumbers

LEMMA RevokedKept ==
    ASSUME \A c \in Channels : StoodFor(ListOf(c)') = StoodFor(ListOf(c))
    PROVE  RevokedNumbers' = RevokedNumbers
BY DEF RevokedNumbers

\* Whom a list stands for after revokeUser has appended an id.
LEMMA RevokedStands ==
    ASSUME NEW list \in Lists, NEW id \in Texts, ~InTail(list, id)
    PROVE  LET new == Append(list, id) IN
           \/ StoodFor(new) = StoodFor(list) \cup {id}
           \/ StoodFor(new) = StoodFor(list)
<1> DEFINE new == Append(list, id)
<1>1. /\ new \in Lists /\ Len(new) = Len(list) + 1 /\ Len(list) \in Nat
      /\ \A j \in 1 .. Len(list) : new[j] = list[j]
      /\ new[Len(list) + 1] = id
  OBVIOUS
<1>2. \A x : StandsWithin(list, Len(list), x) => StandsWithin(new, Len(new), x)
  <2>1. ASSUME NEW x, StandsWithin(list, Len(list), x) PROVE StandsWithin(new, Len(new), x)
    <3>1. StandsWithin(new, Len(list), x)
      BY <1>1, <2>1, AppendStands
    <3> HIDE DEF new
    <3>2. QED
      BY <1>1, <3>1 DEF StandsWithin
  <2>2. QED
    BY <2>1
<1>3. \A x : StandsWithin(new, Len(new), x) => x = id \/ StandsWithin(list, Len(list), x)
  BY <1>1, AppendOnly
<1> HIDE DEF new
<1>4. /\ \A x : x \in StoodFor(list) <=> StandsWithin(list, Len(list), x)
      /\ \A x : x \in StoodFor(new) <=> StandsWithin(new, Len(new), x)
  BY <1>1, StoodForIs
<1>5. CASE id \in StoodFor(new)
  BY <1>2, <1>3, <1>4, <1>5 DEF new
<1>6. CASE id \notin StoodFor(new)
  BY <1>2, <1>3, <1>4, <1>6 DEF new
<1>7. QED
  BY <1>5, <1>6

\* And after unrevokeUser has taken one away: an id that has become the head of
\* a list without root stays there.
LEMMA UnrevokedStandsFor ==
    ASSUME NEW list \in Lists, TailDistinct(list), NEW id, InTail(list, id)
    PROVE  LET new == Unrevoked(list, id) IN
           \/ StoodFor(new) = StoodFor(list) \ {id}
           \/ StoodFor(new) = StoodFor(list)
<1> DEFINE new == Unrevoked(list, id)
<1>1. /\ new \in Lists
      /\ \A x : StandsWithin(new, Len(new), x) => StandsWithin(list, Len(list), x)
  BY UnrevokedOnly
<1>2. \A x : x # id /\ StandsWithin(list, Len(list), x) => StandsWithin(new, Len(new), x)
  <2>1. ASSUME NEW x, x # id, StandsWithin(list, Len(list), x)
        PROVE  StandsWithin(new, Len(new), x)
    <3>1. StandsWithin(new, Len(list), x)
      BY <2>1, UnrevokedStands
    <3> HIDE DEF new
    <3>2. QED
      BY <1>1, <3>1 DEF StandsWithin
  <2>2. QED
    BY <2>1
<1> HIDE DEF new
<1>3. /\ \A x : x \in StoodFor(list) <=> StandsWithin(list, Len(list), x)
      /\ \A x : x \in StoodFor(new) <=> StandsWithin(new, Len(new), x)
  BY <1>1, StoodForIs
<1>4. StandsWithin(list, Len(list), id)
  <2>1. PICK j \in 2 .. Len(list) : list[j] = id
    BY DEF InTail
  <2>2. j \in 1 .. Len(list) /\ j <= Len(list) /\ j # 1
    BY <2>1
  <2>3. QED
    BY <2>1, <2>2 DEF StandsWithin
<1>5. CASE id \in StoodFor(new)
  BY <1>1, <1>2, <1>3, <1>4, <1>5 DEF new
<1>6. CASE id \notin StoodFor(new)
  BY <1>1, <1>2, <1>3, <1>4, <1>6 DEF new
<1>7. QED
  BY <1>5, <1>6

\* Steps that edit a list are steps of the policy.
LEMMA RevokeUserRefines ==
    ASSUME IInv, NEW ch \in Channels, NEW id \in Ids, RevokeUser(ch, id)
    PROVE  RevokedNumbers' \in {RevokedNumbers,
               [RevokedNumbers EXCEPT ![ch] = @ \cup {Number[id]}]}
<1> DEFINE list == revokeFile[ch]
           new == Revoked(list, id)
<1>1. writing = Idle /\ ListOf(ch) = list
  BY DEF RevokeUser, MainIdle, ListOf
<1>2. CASE list = NoFile \/ new = list
  <2>1. UNCHANGED <<revokeFile, writing>>
    BY <1>2 DEF RevokeUser, Answer, files
  <2>2. QED
    BY <2>1, SameLists, RevokedKept
<1>3. CASE list # NoFile /\ new # list
  <2>1. BeginWrite("revo", ch, id, new)
    BY <1>3 DEF RevokeUser
  <2>2. list \in Lists /\ ~InTail(list, id) /\ new = Append(list, id)
    BY <1>1, <1>3 DEF IInv, ListsFine, ListFine, Revoked
  <2>3. StoodFor(new) = StoodFor(list) \cup {id} \/ StoodFor(new) = StoodFor(list)
    BY <2>2, RevokedStands
  <2> HIDE DEF list, new
  <2>4. \A c \in Channels : ListOf(c)' = IF c = ch THEN new ELSE ListOf(c)
    BY <1>1, <2>1, BeginWriteLists
  <2>5. CASE StoodFor(new) = StoodFor(list)
    BY <1>1, <2>4, <2>5, RevokedKept
  <2>6. CASE StoodFor(new) = StoodFor(list) \cup {id}
    <3>1. {Number[x] : x \in StoodFor(new)}
             = {Number[x] : x \in StoodFor(list)} \cup {Number[id]}
      BY <2>6
    <3>2. RevokedNumbers[ch] = {Number[x] : x \in StoodFor(list)}
      BY <1>1 DEF RevokedNumbers
    <3>3. RevokedNumbers' =
             [RevokedNumbers EXCEPT ![ch] = {Number[x] : x \in StoodFor(new)}]
      BY <2>4, RevokedEdited
    <3>4. QED
      BY <3>1, <3>2, <3>3
  <2>7. QED
    BY <2>3, <2>5, <2>6
<1>4. QED
  BY <1>2, <1>3

LEMMA UnrevokeUserRefines ==
    ASSUME OneTextPerNumber, IInv, NEW ch \in Channels, NEW id \in Ids,
           UnrevokeUser(ch, id)
    PROVE  RevokedNumbers' \in {RevokedNumbers,
               [RevokedNumbers EXCEPT ![ch] = @ \ {Number[id]}]}
<1> DEFINE list == revokeFile[ch]
           new == Unrevoked(list, id)
<1>1. writing = Idle /\ ListOf(ch) = list
  BY DEF UnrevokeUser, MainIdle, ListOf
<1>2. CASE list = NoFile \/ ~InTail(list, id)
  <2>1. UNCHANGED <<revokeFile, writing>>
    BY <1>2 DEF UnrevokeUser, Answer, files
  <2>2. QED
    BY <2>1, SameLists, RevokedKept
<1>3. CASE list # NoFile /\ InTail(list, id)
  <2>1. BeginWrite("unrevoke", ch, id, new)
    BY <1>3 DEF UnrevokeUser
  <2>2. list \in Lists /\ TailDistinct(list) /\ StoodFor(list) \subseteq Ids
    BY <1>1, <1>3, StoodForIds DEF IInv, ListsFine, ListFine
  <2>3. StoodFor(new) = StoodFor(list) \ {id} \/ StoodFor(new) = StoodFor(list)
    BY <1>3, <2>2, UnrevokedStandsFor
  <2> HIDE DEF list, new
  <2>4. \A c \in Channels : ListOf(c)' = IF c = ch THEN new ELSE ListOf(c)
    BY <1>1, <2>1, BeginWriteLists
  <2>5. CASE StoodFor(new) = StoodFor(list)
    BY <1>1, <2>4, <2>5, RevokedKept
  <2>6. CASE StoodFor(new) = StoodFor(list) \ {id}
    <3>1. {Number[x] : x \in StoodFor(new)}
             = {Number[x] : x \in StoodFor(list)} \ {Number[id]}
      BY <2>2, <2>6 DEF OneTextPerNumber
    <3>2. RevokedNumbers[ch] = {Number[x] : x \in StoodFor(list)}
      BY <1>1 DEF RevokedNumbers
    <3>3. RevokedNumbers' =
             [RevokedNumbers EXCEPT ![ch] = {Number[x] : x \in StoodFor(new)}]
      BY <2>4, RevokedEdited
    <3>4. QED
      BY <3>1, <3>2, <3>3
  <2>7. QED
    BY <2>3, <2>5, <2>6
<1>4. QED
  BY <1>2, <1>3

\* An initialization, and a kill while a list is written, empty one list.
LEMMA EmptiedRefines ==
    ASSUME IInv, NEW ch \in Channels,
           \/ GenerateRevokeString /\ tool.channel = ch
           \/ Crash /\ writing # Idle /\ writing.channel = ch
    PROVE  RevokedNumbers' = [RevokedNumbers EXCEPT ![ch] = {}]
<1>1. /\ {Number[x] : x \in StoodFor(InitialList)} = {}
      /\ {Number[x] : x \in StoodFor(<<>>)} = {}
  <2>1. StoodFor(InitialList) = {}
    <3>1. InitialList \in Lists /\ \A x : ~StandsWithin(InitialList, Len(InitialList), x)
      BY InitialListFine DEF ListFine
    <3>2. QED
      BY <3>1, StoodForIs
  <2>2. QED
    BY <2>1 DEF StoodFor
<1>2. CASE GenerateRevokeString /\ tool.channel = ch
  <2>1. writing = Idle /\ BeginWrite("Masterkey", ch, NoId, InitialList)
    BY <1>2 DEF GenerateRevokeString, SetupAt, IInv, TypeOK
  <2>2. \A c \in Channels : ListOf(c)' = IF c = ch THEN InitialList ELSE ListOf(c)
    BY <2>1, BeginWriteLists
  <2>3. QED
    BY <1>1, <2>2, RevokedEdited
<1>3. CASE Crash /\ writing # Idle /\ writing.channel = ch
  <2>1. \A c \in Channels : ListOf(c)' = IF c = ch THEN <<>> ELSE ListOf(c)
    BY <1>3, CrashLists
  <2>2. QED
    BY <1>1, <2>1, RevokedEdited
<1>4. QED
  BY <1>2, <1>3

\* The key manager keeps per channel the set of users its operator means, if
\* every number is typed in one way only.
THEOREM KeepsPolicy ==
    ASSUME OneTextPerNumber
    PROVE  Spec => ImplementsPolicy
<1>1. Init => Policy!Init
  BY DEF Init, Policy!Init, ListOf, StoodFor
<1>2. ASSUME NEW ch \in Channels, NEW id \in Ids
      PROVE  /\ RevokedNumbers' = [RevokedNumbers EXCEPT ![ch] = @ \cup {Number[id]}]
                   => Policy!RevokeUser(ch, Number[id])
             /\ RevokedNumbers' = [RevokedNumbers EXCEPT ![ch] = @ \ {Number[id]}]
                   => Policy!UnrevokeUser(ch, Number[id])
             /\ RevokedNumbers' = [RevokedNumbers EXCEPT ![ch] = {}] => Policy!Forget(ch)
  BY DEF Policy!RevokeUser, Policy!UnrevokeUser, Policy!Forget, RevokedNumbers
<1>3. \A ch \in Channels, id \in Ids :
          Policy!RevokeUser(ch, Number[id]) \/ Policy!UnrevokeUser(ch, Number[id])
             \/ Policy!Forget(ch) => Policy!Next
  BY DEF Policy!Next
<1>4. \A ch \in Channels : Policy!Forget(ch) => Policy!Next
  BY DEF Policy!Next
<1>5. ASSUME IInv, [Next]_vars
      PROVE  RevokedNumbers' = RevokedNumbers \/ Policy!Next
  <2> USE <1>5
  <2>1. ASSUME UNCHANGED <<revokeFile, writing>>
        PROVE  RevokedNumbers' = RevokedNumbers
    BY <2>1, SameLists, RevokedKept
  <2>2. CASE EndWrite
    BY <2>2, EndWriteLists, RevokedKept
  <2>3. CASE GenerateRevokeString
    <3>1. PICK ch \in Channels : tool.channel = ch
      BY <2>3 DEF GenerateRevokeString, SetupAt, IInv, TypeOK, Tools
    <3>2. RevokedNumbers' = [RevokedNumbers EXCEPT ![ch] = {}]
      BY <2>3, <3>1, EmptiedRefines
    <3>3. Policy!Forget(ch)
      BY <3>2 DEF Policy!Forget, RevokedNumbers
    <3>4. QED
      BY <1>4, <3>3
  <2>4. ASSUME NEW ch \in Channels, NEW id \in Ids,
               RevokeUser(ch, id) \/ UnrevokeUser(ch, id)
        PROVE  RevokedNumbers' = RevokedNumbers \/ Policy!Next
    BY <1>2, <1>3, <2>4, RevokeUserRefines, UnrevokeUserRefines
  <2>5. CASE Crash
    <3>1. CASE writing = Idle
      BY <2>1, <2>5, <3>1 DEF Crash, files
    <3>2. CASE writing # Idle
      <4>1. PICK ch \in Channels : writing.channel = ch
        BY <3>2 DEF IInv, TypeOK
      <4>2. RevokedNumbers' = [RevokedNumbers EXCEPT ![ch] = {}]
        BY <2>5, <3>2, <4>1, EmptiedRefines
      <4>3. Policy!Forget(ch)
        BY <4>2 DEF Policy!Forget, RevokedNumbers
      <4>4. QED
        BY <1>4, <4>3
    <3>3. QED
      BY <3>1, <3>2
  <2>6. ASSUME NEW ch \in Channels, NEW id \in Ids, PrivateKey(ch, id)
        PROVE  UNCHANGED <<revokeFile, writing>>
    BY <2>6 DEF PrivateKey, files
  <2>7. ASSUME NEW ch \in Channels, Masterkey(ch) \/ PublicKey(ch) \/ GetRevokeFile(ch)
        PROVE  UNCHANGED <<revokeFile, writing>>
    BY <2>7 DEF Masterkey, PublicKey, GetRevokeFile
  <2>8. ASSUME NEW i \in DOMAIN sends, SendStat(i) \/ SendOpen(i) \/ SendRead(i)
        PROVE  UNCHANGED <<revokeFile, writing>>
    BY <2>8 DEF SendStat, SendOpen, SendRead, files
  <2>9. CASE UNCHANGED vars
    BY <2>1, <2>9 DEF vars
  <2>10. CASE SetupWritesPublic \/ SetupOpensMaster \/ SetupWritesMaster \/ KeygenWrites
    <3>1. UNCHANGED <<revokeFile, writing>>
      BY <2>10 DEF SetupWritesPublic, SetupOpensMaster, SetupWritesMaster, KeygenWrites
    <3>2. QED
      BY <2>1, <3>1
  <2>11. QED
    BY <2>1, <2>2, <2>3, <2>4, <2>5, <2>6, <2>7, <2>8, <2>9, <2>10, KeyManagerAssumption
       DEF Next
<1>6. IInv /\ [Next]_vars => [Policy!Next]_RevokedNumbers
  BY <1>5
<1>7. Spec => Policy!Init /\ [][Policy!Next]_RevokedNumbers
  BY <1>1, <1>6, Inductive, PTL DEF Spec
<1>8. QED
  BY <1>7, PTL DEF ImplementsPolicy, Policy!Spec, RevokedNumbers

=============================================================================
