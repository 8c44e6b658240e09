-------------------------- MODULE ProvisioningProofs --------------------------
(***************************************************************************)
(* Proofs about the way of the keys to a broadcaster and a viewer, for any *)
(* companies, key managers shared in any way, and any number of requests,  *)
(* initializations and presses.                                            *)
(*                                                                         *)
(* The invariants speak of requests by kind and key manager.  A request    *)
(* that is added, answered or saved leaves the others as they are, so each *)
(* action needs to be followed only through the requests of one kind.      *)
(***************************************************************************)
EXTENDS Provisioning, SequenceLemmas

-----------------------------------------------------------------------------
(* The inductive invariants *)

Stages == {"sent", "handled", "answered"} \cup WriteStages
AnyData == PublicData \cup PrivateData \cup {NoFile, ErrorPage, Empty}

\* What may be asked of which key manager.
Wanted(r) ==
    /\ r.kind \in {"Masterkey", "revoke"} =>
          r.for \in Companies /\ r.manager = AddressOf[r.for]
    /\ r.kind = "PrivateKey" => r.for \in Users /\ r.manager = UserServer
    /\ r.stage = "sent" => r.kind \in {"Masterkey", "PrivateKey"}

RequestType ==
    [kind : {"Masterkey", "revoke", "PrivateKey", "PublicKey"}, manager : Managers,
     for : Companies \cup Users, data : AnyData, stage : Stages]

HasAnswer(r) == r.stage \in {"answered"} \cup WriteStages

Types ==
    /\ generation \in [Managers -> Nat]
    /\ privateKeys \in [Managers -> [Users -> Nat]]
    /\ requests \in Seq(RequestType)
    /\ \A i \in DOMAIN requests : Wanted(requests[i])
    /\ pubkey \in [Companies -> AnyData] /\ revoke \in [Companies -> AnyData]
    /\ userId \in Users
    /\ private \in AnyData
    /\ dec.stage = "read" => dec.key \in AnyData
    /\ presses \in Nat
    /\ asked \in [Managers -> SUBSET Companies]
    /\ \A m \in Managers : \A c, d \in asked[m] : c = d /\ AddressOf[c] = m

\* What is under way at a key manager.
At(i, kind, m) == requests[i].kind = kind /\ requests[i].manager = m

NotYetHandled(m) ==
    \E i \in DOMAIN requests : At(i, "Masterkey", m) /\ requests[i].stage = "sent"

OneAtATime(m) ==
    \A kind \in {"Masterkey", "revoke"} :
        /\ \A i, j \in DOMAIN requests : At(i, kind, m) /\ At(j, kind, m) => i = j
        /\ \A i \in DOMAIN requests : At(i, kind, m) => requests[i].for \in asked[m]

Current(m) == [manager |-> m, made |-> generation[m]]

KeySetup(m) ==
    /\ \A i \in DOMAIN requests : At(i, "Masterkey", m) =>
          /\ requests[i].stage # "sent" => generation[m] >= 1
          /\ HasAnswer(requests[i]) => requests[i].data = Current(m)
    /\ Open({"Masterkey"}, m) \/
          \A c \in asked[m] : pubkey[c] = Current(m) /\ generation[m] >= 1

\* The generation that the last initialization makes.
Coming(m) == IF NotYetHandled(m) THEN generation[m] + 1 ELSE generation[m]

AtMostOneBehind(list, m) ==
    IF list = ErrorPage THEN Coming(m) = 1
    ELSE list \in PublicData /\ list.made >= Coming(m) - 1

ListSetup(m) ==
    /\ \A i \in DOMAIN requests :
          At(i, "revoke", m) /\ HasAnswer(requests[i])
             => AtMostOneBehind(requests[i].data, m)
    /\ Open({"revoke"}, m) \/ \A c \in asked[m] : AtMostOneBehind(revoke[c], m)

Steady(m) == OneAtATime(m) /\ KeySetup(m) /\ ListSetup(m)

Setup == \A m \in Managers \ crossed : Steady(m)

\* The only private key there is as long as the channel has been initialized
\* once and no other id was typed, and the pubkey that its ciphers are under.
OnlyKey == [manager |-> UserServer, user |-> userId, made |-> 1]
OnlyPubkey == [manager |-> UserServer, made |-> 1]

Unasked ==
    /\ \A i \in DOMAIN requests : requests[i].kind # "PrivateKey"
    /\ private = NoFile /\ dec.stage # "read" /\ ~retyped

OneKeyOnly ==
    /\ \A i \in DOMAIN requests : requests[i].kind = "PrivateKey" =>
          /\ requests[i].for = userId
          /\ requests[i].stage = "handled" =>
                generation[UserServer] = 1 /\ privateKeys[UserServer][userId] = 1
          /\ HasAnswer(requests[i]) => requests[i].data \in {ErrorPage, OnlyKey}
    /\ \A i \in DOMAIN requests :
          At(i, "Masterkey", UserServer) /\ HasAnswer(requests[i])
             => requests[i].data \in {ErrorPage, OnlyPubkey}
    /\ private \in {NoFile, ErrorPage, Empty, OnlyKey}
    /\ pubkey[Provider] \in {NoFile, ErrorPage, Empty, OnlyPubkey}
    /\ dec.stage # "none" => dec.cipher = OnlyPubkey
    /\ dec.stage = "started" => dec.id = userId \/ presses = 0
    /\ dec.stage = "read" => dec.id = userId /\ dec.key = OnlyKey

Playing ==
    /\ presses = 0 => Unasked
    /\ generation[UserServer] > 1 \/ retyped \/ OneKeyOnly

\* The viewer's one request for a private key and what of it is in the file.
OneKeyAsked ==
    \A i, j \in DOMAIN requests :
        requests[i].kind = "PrivateKey" /\ requests[j].kind = "PrivateKey" => i = j

StoringKey(r) == r.kind = "PrivateKey" /\ r.stage \in WriteStages

KeyStored ==
    "private" \notin crossed =>
      /\ OneKeyAsked
      /\ \A i \in DOMAIN requests : StoringKey(requests[i]) =>
            /\ requests[i].data = fetched
            /\ restored \/ requests[i].stage = "opening" \/ private = Empty
            /\ restored \/ requests[i].stage # "writing" \/ dec.stage # "read"
      /\ ~Storing /\ ~restored =>
            private = fetched /\ (dec.stage = "read" => dec.key = fetched)

-----------------------------------------------------------------------------
(* Types *)

LEMMA InitTypes == Init => Types
BY ProvisioningAssumption, SmallSeqs
DEF Init, Types, ProvisioningAssumption, AnyData, Managers, NotRunning

\* Each request is one, and asks what may be asked.
LEMMA Requested ==
    ASSUME Types, NEW i \in DOMAIN requests
    PROVE  /\ requests[i] \in RequestType /\ Wanted(requests[i])
           /\ requests[i].manager \in Managers
<1>1. requests[i] \in RequestType /\ Wanted(requests[i])
  BY DEF Types
<1>2. QED
  BY <1>1 DEF RequestType

\* A request has its type and asks what may be asked.
LEMMA NewRequests ==
    ASSUME Types
    PROVE  /\ \A c \in Companies, k \in {"Masterkey", "revoke"} :
                 /\ Request(k, AddressOf[c], c) \in RequestType
                 /\ Wanted(Request(k, AddressOf[c], c))
           /\ \A u \in Users :
                 /\ Request("PrivateKey", UserServer, u) \in RequestType
                 /\ Wanted(Request("PrivateKey", UserServer, u))
                 /\ Request("PublicKey", First, u) \in RequestType
                 /\ Wanted(Request("PublicKey", First, u))
BY ProvisioningAssumption
DEF ProvisioningAssumption, Request, RequestType, Wanted, AnyData, Stages, Managers

\* Two requests more.
LEMMA Asking ==
    ASSUME Types,
           NEW a \in RequestType, Wanted(a), NEW b \in RequestType, Wanted(b),
           requests' = requests \o <<a, b>>
    PROVE  /\ requests' \in Seq(RequestType)
           /\ \A i \in DOMAIN requests' : Wanted(requests[i])'
           /\ Len(requests) \in Nat /\ DOMAIN requests = 1 .. Len(requests)
           /\ DOMAIN requests' = 1 .. Len(requests) + 2
           /\ \A i \in DOMAIN requests : requests'[i] = requests[i]
           /\ requests'[Len(requests) + 1] = a
           /\ requests'[Len(requests) + 2] = b
<1>1. requests \in Seq(RequestType) /\ \A i \in DOMAIN requests : Wanted(requests[i])
  BY DEF Types
<1>2. /\ requests' \in Seq(RequestType)
      /\ Len(requests) \in Nat /\ DOMAIN requests = 1 .. Len(requests)
  BY <1>1, SmallSeqs
<1>3. /\ DOMAIN requests' = 1 .. Len(requests) + 2
      /\ \A i \in 1 .. Len(requests) : requests'[i] = requests[i]
      /\ requests'[Len(requests) + 1] = a
      /\ requests'[Len(requests) + 2] = b
  BY <1>1, AppendedTwo
<1>4. ASSUME NEW i \in DOMAIN requests' PROVE Wanted(requests'[i])
  <2>1. i \in DOMAIN requests \/ i = Len(requests) + 1 \/ i = Len(requests) + 2
    BY <1>2, <1>3
  <2>2. QED
    BY <1>1, <1>2, <1>3, <2>1
<1>5. QED
  BY <1>2, <1>3, <1>4 DEF Wanted

\* A request less.
LEMMA Taken ==
    ASSUME Types, NEW i \in DOMAIN requests, requests' = RemoveAt(requests, i)
    PROVE  /\ requests' \in Seq(RequestType)
           /\ \A j \in DOMAIN requests' : Wanted(requests[j])'
           /\ \E f \in [DOMAIN requests' -> DOMAIN requests \ {i}] :
                 /\ \A j \in DOMAIN requests' : requests'[j] = requests[f[j]]
                 /\ \A j, k \in DOMAIN requests' : f[j] = f[k] => j = k
                 /\ \A k \in DOMAIN requests \ {i} : \E j \in DOMAIN requests' : f[j] = k
<1>1. requests \in Seq(RequestType) /\ \A j \in DOMAIN requests : Wanted(requests[j])
  BY DEF Types
<1>2. requests' \in Seq(RequestType)
  BY <1>1, RemoveAtType
<1>3. \E f \in [DOMAIN requests' -> DOMAIN requests \ {i}] :
         /\ \A j \in DOMAIN requests' : requests'[j] = requests[f[j]]
         /\ \A j, k \in DOMAIN requests' : f[j] = f[k] => j = k
         /\ \A k \in DOMAIN requests \ {i} : \E j \in DOMAIN requests' : f[j] = k
  BY <1>1, Renumbered
<1>4. \A j \in DOMAIN requests' : Wanted(requests'[j])
  BY <1>1, <1>3
<1>5. QED
  BY <1>2, <1>3, <1>4 DEF Wanted

\* One request is replaced by another that asks the same.
LEMMA Placed ==
    ASSUME Types, NEW i \in DOMAIN requests, NEW r \in RequestType,
           r.kind = requests[i].kind, r.manager = requests[i].manager,
           r.for = requests[i].for, r.stage # "sent",
           requests' = [requests EXCEPT ![i] = r]
    PROVE  /\ requests' \in Seq(RequestType)
           /\ \A j \in DOMAIN requests' : Wanted(requests[j])'
           /\ DOMAIN requests' = DOMAIN requests
           /\ \A j \in DOMAIN requests \ {i} : requests'[j] = requests[j]
           /\ requests'[i] = r
<1>1. requests \in Seq(RequestType) /\ \A j \in DOMAIN requests : Wanted(requests[j])
  BY DEF Types
<1>2. /\ requests' \in Seq(RequestType)
      /\ DOMAIN requests' = DOMAIN requests
      /\ requests'[i] = r
      /\ \A j \in DOMAIN requests : j # i => requests'[j] = requests[j]
  <2> DEFINE t == [requests EXCEPT ![i] = r]
  <2>1. /\ t \in Seq(RequestType)
        /\ DOMAIN t = DOMAIN requests
        /\ t[i] = r
        /\ \A j \in DOMAIN requests : j # i => t[j] = requests[j]
    BY <1>1, Replaced
  <2>2. requests' = t
    OBVIOUS
  <2> HIDE DEF t
  <2>3. QED
    BY <2>1, <2>2
<1>3. ASSUME NEW j \in DOMAIN requests' PROVE Wanted(requests'[j])
  <2>1. CASE j = i
    BY <1>1, <1>2, <2>1 DEF Wanted
  <2>2. CASE j # i
    BY <1>1, <1>2, <2>2
  <2>3. QED
    BY <2>1, <2>2
<1>4. QED
  BY <1>2, <1>3 DEF Wanted

\* One request is handled or answered.
LEMMA Served ==
    ASSUME Types, NEW i \in DOMAIN requests, NEW s \in {"handled", "answered"},
           NEW d \in AnyData,
           requests' = [requests EXCEPT ![i].stage = s, ![i].data = d]
    PROVE  /\ requests' \in Seq(RequestType)
           /\ \A j \in DOMAIN requests' : Wanted(requests[j])'
           /\ DOMAIN requests' = DOMAIN requests
           /\ \A j \in DOMAIN requests \ {i} : requests'[j] = requests[j]
           /\ requests'[i].kind = requests[i].kind
           /\ requests'[i].manager = requests[i].manager
           /\ requests'[i].for = requests[i].for
           /\ requests'[i].stage = s /\ requests'[i].data = d
<1> DEFINE r == [requests[i] EXCEPT !.stage = s, !.data = d]
<1>1. requests \in Seq(RequestType) /\ requests[i] \in RequestType
  BY DEF Types
<1>2. /\ r \in RequestType
      /\ r.kind = requests[i].kind /\ r.manager = requests[i].manager
      /\ r.for = requests[i].for /\ r.stage = s /\ r.data = d
  BY <1>1 DEF RequestType, Stages
<1>3. requests' = [requests EXCEPT ![i] = r]
  BY <1>1 DEF RequestType
<1> HIDE DEF r
<1>4. QED
  BY <1>2, <1>3, Placed

\* The writing of an answer goes on.
LEMMA Moved ==
    ASSUME Types, NEW i \in DOMAIN requests, NEW s \in WriteStages,
           requests' = [requests EXCEPT ![i].stage = s]
    PROVE  /\ requests' \in Seq(RequestType)
           /\ \A j \in DOMAIN requests' : Wanted(requests[j])'
           /\ DOMAIN requests' = DOMAIN requests
           /\ \A j \in DOMAIN requests \ {i} : requests'[j] = requests[j]
           /\ requests'[i].kind = requests[i].kind
           /\ requests'[i].manager = requests[i].manager
           /\ requests'[i].for = requests[i].for
           /\ requests'[i].stage = s /\ requests'[i].data = requests[i].data
<1> DEFINE r == [requests[i] EXCEPT !.stage = s]
<1>1. requests \in Seq(RequestType) /\ requests[i] \in RequestType
  BY DEF Types
<1>2. /\ r \in RequestType /\ r.stage # "sent"
      /\ r.kind = requests[i].kind /\ r.manager = requests[i].manager
      /\ r.for = requests[i].for /\ r.stage = s /\ r.data = requests[i].data
  BY <1>1 DEF RequestType, Stages, WriteStages
<1>3. requests' = [requests EXCEPT ![i] = r]
  BY <1>1 DEF RequestType
<1> HIDE DEF r
<1>4. QED
  BY <1>2, <1>3, Placed

\* What the steps of the requests that are being written have in common.
LEMMA Writing ==
    ASSUME Types, NEW i \in DOMAIN requests,
           Arrives(i) \/ WriteOpened(i) \/ WriteAsked(i) \/ WriteDone(i)
    PROVE  /\ HasAnswer(requests[i])
           /\ \/ WriteDone(i) /\ requests' = RemoveAt(requests, i)
              \/ \E s \in WriteStages : requests' = [requests EXCEPT ![i].stage = s]
           /\ \E d \in {Empty, requests[i].data} :
                 Saved(requests[i], d) \/ UNCHANGED <<pubkey, revoke, private>>
           /\ UNCHANGED <<generation, privateKeys, userId, dec, asked, presses, crossed,
                          retyped>>
BY DEF Arrives, WriteOpened, WriteAsked, WriteDone, HasAnswer, WriteStages, managerVars,
       broadcasterVars, viewerVars, history

\* What a handler finds in a file may be a pubkey, a list or a private key.
LEMMA ContentType ==
    ASSUME Types, NEW i \in DOMAIN requests
    PROVE  /\ Content(requests[i]) \in AnyData
           /\ requests[i].kind = "PrivateKey" =>
                 Content(requests[i]) = [manager |-> UserServer, user |-> requests[i].for,
                    made |-> privateKeys[UserServer][requests[i].for]]
           /\ requests[i].kind # "PrivateKey" =>
                 Content(requests[i]) =
                    IF generation[requests[i].manager] = 0 THEN ErrorPage
                    ELSE Current(requests[i].manager)
<1>1. requests[i] \in RequestType /\ Wanted(requests[i])
  BY DEF Types
<1>2. /\ requests[i].manager \in Managers
      /\ generation[requests[i].manager] \in Nat
  BY <1>1 DEF RequestType, Types
<1>3. CASE requests[i].kind = "PrivateKey"
  <2>1. requests[i].for \in Users /\ requests[i].manager = UserServer
    BY <1>1, <1>3 DEF Wanted
  <2>2. privateKeys[UserServer][requests[i].for] \in Nat
    BY <1>2, <2>1 DEF Types
  <2>3. QED
    BY <1>2, <1>3, <2>1, <2>2 DEF Content, AnyData, PrivateData
<1>4. CASE requests[i].kind # "PrivateKey"
  BY <1>2, <1>4 DEF Content, AnyData, PublicData, Current
<1>5. QED
  BY <1>3, <1>4

LEMMA NextTypes == Types /\ [Next]_vars => Types'
<1>1. SUFFICES ASSUME Types, [Next]_vars PROVE Types'
  OBVIOUS
<1> USE DEF managerVars, broadcasterVars, viewerVars, history
<1>2. ASSUME NEW c \in Companies, initializeChannel(c) PROVE Types'
  <2>1. /\ Request("Masterkey", AddressOf[c], c) \in RequestType
        /\ Wanted(Request("Masterkey", AddressOf[c], c))
        /\ Request("revoke", AddressOf[c], c) \in RequestType
        /\ Wanted(Request("revoke", AddressOf[c], c))
    BY <1>1, NewRequests
  <2>2. requests' \in Seq(RequestType) /\ \A i \in DOMAIN requests' : Wanted(requests[i])'
    BY <1>1, <1>2, <2>1, Asking DEF initializeChannel, getServerAddressByName
  <2>3. /\ asked' \in [Managers -> SUBSET Companies]
        /\ \A m \in Managers : \A d, e \in asked'[m] : d = e /\ AddressOf[d] = m
    <3>1. \A m \in Managers :
             asked'[m] = IF m = AddressOf[c] THEN {c} ELSE asked[m]
      BY <1>1, <1>2 DEF Types, initializeChannel, getServerAddressByName
    <3>2. asked' \in [Managers -> SUBSET Companies]
      <4>1. asked' = [m \in Managers |-> IF m = AddressOf[c] THEN {c} ELSE asked[m]]
        BY <1>1, <1>2 DEF Types, initializeChannel, getServerAddressByName
      <4>2. \A m \in Managers : asked[m] \in SUBSET Companies
        BY <1>1 DEF Types
      <4>3. QED
        BY <4>1, <4>2
    <3>3. \A m \in Managers : \A d, e \in asked[m] : d = e /\ AddressOf[d] = m
      BY <1>1 DEF Types
    <3>4. QED
      BY <3>1, <3>2, <3>3
  <2>4. QED
    BY <1>1, <1>2, <2>2, <2>3 DEF Types, initializeChannel
<1>3. ASSUME getKeys PROVE Types'
  <2>1. requests' \in Seq(RequestType) /\ \A i \in DOMAIN requests' : Wanted(requests[i])'
    BY <1>1, <1>3, NewRequests, Asking DEF getKeys, PrivateKeyServer, Types
  <2>2. QED
    BY <1>1, <1>3, <2>1 DEF Types, getKeys
<1>4. ASSUME NEW i \in DOMAIN requests, Handle(i) PROVE Types'
  <2>1. requests[i] \in RequestType /\ Wanted(requests[i])
    BY <1>1 DEF Types
  <2>2. \E s \in {"handled", "answered"}, d \in AnyData :
           requests' = [requests EXCEPT ![i].stage = s, ![i].data = d]
    BY <1>4, <2>1 DEF Handle, AnyData, RequestType
  <2>3. requests' \in Seq(RequestType) /\ \A j \in DOMAIN requests' : Wanted(requests[j])'
    BY <1>1, <2>2, Served
  <2>4. generation' \in [Managers -> Nat]
    BY <1>1, <1>4, <2>1 DEF Handle, Types, RequestType
  <2>5. privateKeys' \in [Managers -> [Users -> Nat]]
    BY <1>1, <1>4, <2>1 DEF Handle, Types, RequestType, Wanted
  <2>6. QED
    BY <1>1, <1>4, <2>3, <2>4, <2>5 DEF Types, Handle
<1>5. ASSUME NEW i \in DOMAIN requests, Answer(i) PROVE Types'
  <2>1. requests' \in Seq(RequestType) /\ \A j \in DOMAIN requests' : Wanted(requests[j])'
    BY <1>1, <1>5, ContentType, Served DEF Answer
  <2>2. QED
    BY <1>1, <1>5, <2>1 DEF Types, Answer
<1>6. ASSUME NEW i \in DOMAIN requests,
             Arrives(i) \/ WriteOpened(i) \/ WriteAsked(i) \/ WriteDone(i)
      PROVE  Types'
  <2>1. requests' \in Seq(RequestType) /\ \A j \in DOMAIN requests' : Wanted(requests[j])'
    BY <1>1, <1>6, Writing, Taken, Moved
  <2>2. requests[i] \in RequestType /\ Wanted(requests[i])
    BY <1>1 DEF Types
  <2>3. PICK d \in {Empty, requests[i].data} :
           Saved(requests[i], d) \/ UNCHANGED <<pubkey, revoke, private>>
    BY <1>1, <1>6, Writing
  <2>4. d \in AnyData
    BY <2>2, <2>3 DEF RequestType, AnyData
  <2>5. /\ pubkey' \in [Companies -> AnyData] /\ revoke' \in [Companies -> AnyData]
        /\ private' \in AnyData
    BY <1>1, <2>2, <2>3, <2>4 DEF Saved, SavedPubkey, SavedRevoke, Types
  <2>6. UNCHANGED <<generation, privateKeys, userId, dec, asked, presses>>
    BY <1>1, <1>6, Writing
  <2>7. QED
    BY <1>1, <2>1, <2>5, <2>6 DEF Types
<1>10. ASSUME DecStart \/ DecRead \/ DecWrite PROVE Types'
  <2>1. private' \in AnyData /\ (dec'.stage = "read" => dec'.key \in AnyData)
    <3>1. CASE DecStart
      BY <1>1, <3>1 DEF Types, DecStart
    <3>2. CASE DecRead
      BY <1>1, <3>2 DEF Types, DecRead, NotRunning
    <3>3. CASE DecWrite
      BY <1>1, <3>3 DEF Types, DecWrite, NotRunning
    <3>4. QED
      BY <1>10, <3>1, <3>2, <3>3
  <2>2. UNCHANGED <<generation, privateKeys, requests, pubkey, revoke, userId, presses,
                    asked>>
    BY <1>10 DEF DecStart, DecRead, DecWrite
  <2>3. QED
    BY <1>1, <2>1, <2>2 DEF Types, Wanted
<1>11. ASSUME NEW u \in Users, TypeUser(u) PROVE Types'
  BY <1>1, <1>11 DEF Types, TypeUser, Wanted
<1>12. CASE UNCHANGED vars
  BY <1>1, <1>12 DEF Types, vars, Wanted
<1>13. QED
  BY <1>1, <1>2, <1>3, <1>4, <1>5, <1>6, <1>10, <1>11, <1>12 DEF Next

-----------------------------------------------------------------------------
(* The initialization of the channel *)

LEMMA InitSetup == Init => Setup
BY DEF Init, Setup, Steady, OneAtATime, KeySetup, ListSetup, At

\* The requests of an initialization at m are the only ones there, unless others
\* are under way, and leave those of other key managers alone.
LEMMA InitializeSetup ==
    ASSUME Types, NEW m \in Managers, Steady(m),
           NEW c \in Companies, initializeChannel(c), m \notin crossed'
    PROVE  Steady(m)'
<1> DEFINE n == Len(requests)
           a == Request("Masterkey", AddressOf[c], c)
           b == Request("revoke", AddressOf[c], c)
<1>1. /\ a.kind = "Masterkey" /\ a.manager = AddressOf[c] /\ a.for = c /\ a.stage = "sent"
      /\ b.kind = "revoke" /\ b.manager = AddressOf[c] /\ b.for = c /\ b.stage = "handled"
  BY DEF Request
<1>2. a \in RequestType /\ Wanted(a) /\ b \in RequestType /\ Wanted(b)
  BY NewRequests
<1>3. requests' = requests \o <<a, b>>
  BY DEF initializeChannel, getServerAddressByName
<1> HIDE DEF a, b
<1>4. /\ n \in Nat /\ DOMAIN requests = 1 .. n /\ DOMAIN requests' = 1 .. n + 2
      /\ \A i \in 1 .. n : requests'[i] = requests[i]
      /\ requests'[n + 1] = a /\ requests'[n + 2] = b
  BY <1>2, <1>3, Asking
<1> HIDE DEF n
<1>5. UNCHANGED <<generation, pubkey, revoke>>
  BY DEF initializeChannel, managerVars, broadcasterVars
<1>6. asked'[m] = IF m = AddressOf[c] THEN {c} ELSE asked[m]
  BY DEF initializeChannel, getServerAddressByName, Types
<1>7. \A i \in DOMAIN requests' : i \in 1 .. n \/ i = n + 1 \/ i = n + 2
  BY <1>4
<1>8. CASE m # AddressOf[c]
  <2>1. \A i \in DOMAIN requests', k \in {"Masterkey", "revoke"} :
           At(i, k, m)' => i \in DOMAIN requests /\ At(i, k, m) /\ requests'[i] = requests[i]
    BY <1>1, <1>4, <1>7, <1>8 DEF At
  <2>2. \A i \in DOMAIN requests, k \in {"Masterkey", "revoke"} :
           At(i, k, m) => i \in DOMAIN requests' /\ At(i, k, m)' /\ requests'[i] = requests[i]
    BY <1>4 DEF At
  <2>3. NotYetHandled(m)' <=> NotYetHandled(m)
    BY <2>1, <2>2 DEF NotYetHandled
  <2>4. Coming(m)' = Coming(m) /\ Current(m)' = Current(m)
    BY <1>5, <2>3 DEF Coming, Current
  <2>5. \A k \in {"Masterkey", "revoke"} : Open({k}, m)' <=> Open({k}, m)
    BY <2>1, <2>2 DEF Open, At
  <2>6. asked'[m] = asked[m]
    BY <1>6, <1>8
  <2>7. OneAtATime(m)'
    BY <2>1, <2>6 DEF Steady, OneAtATime
  <2>8. KeySetup(m)'
    BY <1>5, <2>1, <2>4, <2>5, <2>6 DEF Steady, KeySetup
  <2>9. ListSetup(m)'
    BY <1>5, <2>1, <2>4, <2>5, <2>6 DEF Steady, ListSetup, AtMostOneBehind
  <2>10. QED
    BY <2>7, <2>8, <2>9 DEF Steady
<1>9. CASE m = AddressOf[c]
  <2>1. ~Open({"Masterkey", "revoke"}, m)
    BY <1>9 DEF initializeChannel, getServerAddressByName
  <2>2. \A i \in 1 .. n, k \in {"Masterkey", "revoke"} : ~At(i, k, m)'
    BY <1>4, <2>1 DEF Open, At
  <2>3. \A i \in DOMAIN requests' :
           /\ At(i, "Masterkey", m)' <=> i = n + 1
           /\ At(i, "revoke", m)' <=> i = n + 2
    BY <1>1, <1>4, <1>7, <1>9, <2>2 DEF At
  <2>4. Open({"Masterkey"}, m)' /\ Open({"revoke"}, m)'
    BY <1>4, <2>3 DEF Open, At
  <2>5. asked'[m] = {c}
    BY <1>6, <1>9
  <2>6. OneAtATime(m)'
    BY <1>1, <1>4, <2>3, <2>5 DEF OneAtATime
  <2>7. KeySetup(m)'
    BY <1>1, <1>4, <2>3, <2>4 DEF KeySetup, HasAnswer, WriteStages
  <2>8. ListSetup(m)'
    BY <1>1, <1>4, <2>3, <2>4 DEF ListSetup, HasAnswer, WriteStages
  <2>9. QED
    BY <2>6, <2>7, <2>8 DEF Steady
<1>10. QED
  BY <1>8, <1>9

\* Handling a request for the keys makes the generation that was coming.
LEMMA HandleSetup ==
    ASSUME Types, NEW m \in Managers, Steady(m),
           NEW i \in DOMAIN requests, Handle(i)
    PROVE  Steady(m)'
<1> DEFINE r == requests[i]
<1>1. r \in RequestType /\ Wanted(r) /\ r.stage = "sent" /\ r.manager \in Managers
  BY Requested DEF Handle
<1>2. r.kind \in {"Masterkey", "PrivateKey"}
  BY <1>1 DEF Wanted
<1>3. PICK s \in {"handled", "answered"}, d \in AnyData :
         /\ requests' = [requests EXCEPT ![i].stage = s, ![i].data = d]
         /\ r.kind = "Masterkey" => s = "handled"
  BY <1>1 DEF Handle, AnyData, RequestType
<1>4. /\ DOMAIN requests' = DOMAIN requests
      /\ \A j \in DOMAIN requests \ {i} : requests'[j] = requests[j]
      /\ requests'[i].kind = r.kind /\ requests'[i].manager = r.manager
      /\ requests'[i].for = r.for /\ requests'[i].stage # "sent"
      /\ r.kind = "Masterkey" => requests'[i].stage = "handled"
  BY <1>3, Served
<1>5. UNCHANGED <<pubkey, revoke, asked>>
  BY DEF Handle, broadcasterVars, history
<1>6. /\ generation[m] \in Nat
      /\ generation'[m] = IF At(i, "Masterkey", m) THEN generation[m] + 1 ELSE generation[m]
  BY <1>1 DEF Handle, Types, At
<1> HIDE DEF r
<1>7. \A j \in DOMAIN requests, k \in {"Masterkey", "revoke"} :
         (At(j, k, m)' <=> At(j, k, m)) /\ requests'[j].for = requests[j].for
  BY <1>4 DEF At, r
<1>8. \A k \in {"Masterkey", "revoke"} : Open({k}, m)' <=> Open({k}, m)
  BY <1>4, <1>7 DEF Open, At
<1>9. OneAtATime(m)'
  BY <1>4, <1>5, <1>7 DEF Steady, OneAtATime
<1>10. Coming(m)' = Coming(m)
  <2>1. CASE At(i, "Masterkey", m)
    <3>1. NotYetHandled(m)
      BY <1>1, <2>1 DEF NotYetHandled, r
    <3>2. ~NotYetHandled(m)'
      BY <1>4, <1>7, <2>1 DEF NotYetHandled, Steady, OneAtATime
    <3>3. QED
      BY <1>6, <2>1, <3>1, <3>2 DEF Coming
  <2>2. CASE ~At(i, "Masterkey", m)
    <3>1. NotYetHandled(m)' <=> NotYetHandled(m)
      BY <1>4, <1>7, <2>2 DEF NotYetHandled
    <3>2. QED
      BY <1>6, <2>2, <3>1 DEF Coming
  <2>3. QED
    BY <2>1, <2>2
<1>11. KeySetup(m)'
  <2>1. CASE At(i, "Masterkey", m)
    <3>1. \A j \in DOMAIN requests' : At(j, "Masterkey", m)' => j = i
      BY <1>4, <1>7, <2>1 DEF Steady, OneAtATime
    <3>2. Open({"Masterkey"}, m)'
      BY <1>4, <1>7, <2>1 DEF Open, At
    <3>3. requests'[i].stage = "handled" /\ generation'[m] >= 1
      BY <1>4, <1>6, <2>1 DEF At, r
    <3>4. QED
      BY <3>1, <3>2, <3>3 DEF KeySetup, HasAnswer, WriteStages
  <2>2. CASE ~At(i, "Masterkey", m)
    <3>1. generation'[m] = generation[m] /\ Current(m)' = Current(m)
      BY <1>6, <2>2 DEF Current
    <3>2. QED
      BY <1>4, <1>5, <1>7, <1>8, <2>2, <3>1 DEF Steady, KeySetup
  <2>3. QED
    BY <2>1, <2>2
<1>12. ListSetup(m)'
  <2>1. ~At(i, "revoke", m)
    BY <1>2 DEF At, r
  <2>2. QED
    BY <1>4, <1>5, <1>7, <1>8, <1>10, <2>1 DEF Steady, ListSetup, AtMostOneBehind
<1>13. QED
  BY <1>9, <1>11, <1>12 DEF Steady

\* The file that answers a request has the keys or the list of this generation.
LEMMA AnswerSetup ==
    ASSUME Types, NEW m \in Managers, Steady(m),
           NEW i \in DOMAIN requests, Answer(i)
    PROVE  Steady(m)'
<1> DEFINE r == requests[i]
<1>1. r \in RequestType /\ Wanted(r) /\ r.stage = "handled" /\ generation[m] \in Nat
  BY Requested DEF Answer, Types
<1>2. /\ DOMAIN requests' = DOMAIN requests
      /\ \A j \in DOMAIN requests \ {i} : requests'[j] = requests[j]
      /\ requests'[i].kind = r.kind /\ requests'[i].manager = r.manager
      /\ requests'[i].for = r.for /\ requests'[i].stage = "answered"
      /\ requests'[i].data = Content(r)
  BY ContentType, Served DEF Answer
<1>3. UNCHANGED <<generation, pubkey, revoke, asked>>
  BY DEF Answer, managerVars, broadcasterVars, history
<1>4. r.kind # "PrivateKey" =>
         Content(r) = IF generation[r.manager] = 0 THEN ErrorPage ELSE Current(r.manager)
  BY ContentType
<1> HIDE DEF r
<1>5. \A j \in DOMAIN requests, k \in {"Masterkey", "revoke"} :
         (At(j, k, m)' <=> At(j, k, m)) /\ requests'[j].for = requests[j].for
  BY <1>2 DEF At, r
<1>6. \A k \in {"Masterkey", "revoke"} : Open({k}, m)' <=> Open({k}, m)
  BY <1>2, <1>5 DEF Open, At
<1>7. OneAtATime(m)'
  BY <1>2, <1>3, <1>5 DEF Steady, OneAtATime
<1>8. NotYetHandled(m)' <=> NotYetHandled(m)
  BY <1>1, <1>2, <1>5 DEF NotYetHandled, r
<1>9. Coming(m)' = Coming(m) /\ Current(m)' = Current(m)
  BY <1>3, <1>8 DEF Coming, Current
<1>10. KeySetup(m)'
  <2>1. ASSUME At(i, "Masterkey", m) PROVE Content(r) = Current(m) /\ generation[m] >= 1
    BY <1>1, <1>4, <2>1 DEF Steady, KeySetup, At, r
  <2>2. QED
    BY <1>2, <1>3, <1>5, <1>6, <1>9, <2>1 DEF Steady, KeySetup
<1>11. ListSetup(m)'
  <2>1. ASSUME At(i, "revoke", m) PROVE AtMostOneBehind(Content(r), m)
    <3>1. Content(r) = IF generation[m] = 0 THEN ErrorPage ELSE Current(m)
      BY <1>4, <2>1 DEF At, r
    <3>2. CASE generation[m] = 0
      <4>1. \E c \in asked[m] : TRUE
        BY <2>1 DEF Steady, OneAtATime
      <4>2. Open({"Masterkey"}, m)
        BY <3>2, <4>1 DEF Steady, KeySetup
      <4>3. NotYetHandled(m)
        BY <3>2, <4>2 DEF Open, At, NotYetHandled, Steady, KeySetup
      <4>4. QED
        BY <3>1, <3>2, <4>3 DEF AtMostOneBehind, Coming
    <3>3. CASE generation[m] # 0
      <4>1. Content(r) = Current(m) /\ Current(m) \in PublicData
            /\ Current(m).made = generation[m]
        BY <1>1, <3>1, <3>3 DEF Current, PublicData
      <4>2. Current(m) # ErrorPage
        BY <4>1, ProvisioningAssumption DEF ProvisioningAssumption
      <4>3. generation[m] >= Coming(m) - 1
        BY <1>1 DEF Coming
      <4>4. QED
        BY <4>1, <4>2, <4>3 DEF AtMostOneBehind
    <3>4. QED
      BY <3>2, <3>3
  <2>2. QED
    BY <1>2, <1>3, <1>5, <1>6, <1>9, <2>1 DEF Steady, ListSetup, AtMostOneBehind
<1>12. QED
  BY <1>7, <1>10, <1>11 DEF Steady

\* Taking an answered request away, and saving its answer if it is the
\* broadcaster's.
LEMMA TakenSetup ==
    ASSUME Types, NEW m \in Managers, Steady(m),
           NEW i \in DOMAIN requests, HasAnswer(requests[i]),
           requests' = RemoveAt(requests, i), UNCHANGED <<generation, asked>>,
           \A c \in Companies :
              /\ pubkey'[c] = IF requests[i].kind = "Masterkey" /\ c = requests[i].for
                              THEN requests[i].data ELSE pubkey[c]
              /\ revoke'[c] = IF requests[i].kind = "revoke" /\ c = requests[i].for
                              THEN requests[i].data ELSE revoke[c]
    PROVE  Steady(m)'
<1> DEFINE r == requests[i]
<1>1. Wanted(r) /\ HasAnswer(r) /\ r.stage # "sent"
  BY Requested DEF HasAnswer, WriteStages
<1>2. PICK f \in [DOMAIN requests' -> DOMAIN requests \ {i}] :
         /\ \A j \in DOMAIN requests' : requests'[j] = requests[f[j]]
         /\ \A j, k \in DOMAIN requests' : f[j] = f[k] => j = k
         /\ \A k \in DOMAIN requests \ {i} : \E j \in DOMAIN requests' : f[j] = k
  BY Taken
<1> HIDE DEF r
<1>3. \A j \in DOMAIN requests', k \in {"Masterkey", "revoke"} :
         /\ f[j] \in DOMAIN requests /\ f[j] # i
         /\ At(j, k, m)' <=> At(f[j], k, m)
  BY <1>2 DEF At
<1>4. /\ \A c \in asked[m] : c \in Companies /\ AddressOf[c] = m
      /\ \A c, d \in asked[m] : c = d
  BY DEF Types
<1>5. OneAtATime(m)'
  BY <1>2, <1>3 DEF Steady, OneAtATime
<1>6. NotYetHandled(m)' <=> NotYetHandled(m)
  <2>1. ASSUME NotYetHandled(m) PROVE NotYetHandled(m)'
    <3>1. PICK k \in DOMAIN requests : At(k, "Masterkey", m) /\ requests[k].stage = "sent"
      BY <2>1 DEF NotYetHandled
    <3>2. PICK j \in DOMAIN requests' : f[j] = k
      BY <1>1, <1>2, <3>1 DEF r
    <3>3. QED
      BY <1>2, <1>3, <3>1, <3>2 DEF NotYetHandled
  <2>2. ASSUME NotYetHandled(m)' PROVE NotYetHandled(m)
    BY <1>2, <1>3, <2>2 DEF NotYetHandled
  <2>3. QED
    BY <2>1, <2>2
<1>7. Coming(m)' = Coming(m) /\ Current(m)' = Current(m)
  BY <1>6 DEF Coming, Current
<1>8. \A k \in {"Masterkey", "revoke"} : ~At(i, k, m) /\ Open({k}, m) => Open({k}, m)'
  <2>1. SUFFICES ASSUME NEW k \in {"Masterkey", "revoke"}, ~At(i, k, m), Open({k}, m)
                 PROVE  Open({k}, m)'
    OBVIOUS
  <2>2. PICK l \in DOMAIN requests : At(l, k, m)
    BY <2>1 DEF Open, At
  <2>3. PICK j \in DOMAIN requests' : f[j] = l
    BY <1>2, <2>1, <2>2
  <2>4. QED
    BY <1>3, <2>2, <2>3 DEF Open, At
<1>9. KeySetup(m)'
  <2>1. CASE At(i, "Masterkey", m)
    <3>1. \A j \in DOMAIN requests' : ~At(j, "Masterkey", m)'
      BY <1>3, <2>1 DEF Steady, OneAtATime
    <3>2. ASSUME NEW c \in asked[m] PROVE pubkey'[c] = Current(m) /\ generation[m] >= 1
      <4>1. c = r.for /\ r.kind = "Masterkey"
        BY <1>4, <2>1 DEF Steady, OneAtATime, At, r
      <4>2. r.data = Current(m) /\ generation[m] >= 1
        BY <1>1, <2>1 DEF Steady, KeySetup, r
      <4>3. QED
        BY <1>4, <4>1, <4>2 DEF r
    <3>3. QED
      BY <1>7, <3>1, <3>2 DEF KeySetup
  <2>2. CASE ~At(i, "Masterkey", m)
    <3>1. \A c \in asked[m] : pubkey'[c] = pubkey[c]
      BY <1>1, <1>4, <2>2 DEF Wanted, At, r
    <3>2. QED
      BY <1>2, <1>3, <1>7, <1>8, <2>2, <3>1 DEF Steady, KeySetup
  <2>3. QED
    BY <2>1, <2>2
<1>10. ListSetup(m)'
  <2>1. CASE At(i, "revoke", m)
    <3>1. \A j \in DOMAIN requests' : ~At(j, "revoke", m)'
      BY <1>3, <2>1 DEF Steady, OneAtATime
    <3>2. ASSUME NEW c \in asked[m] PROVE AtMostOneBehind(revoke'[c], m)
      <4>1. c = r.for /\ r.kind = "revoke"
        BY <1>4, <2>1 DEF Steady, OneAtATime, At, r
      <4>2. AtMostOneBehind(r.data, m)
        BY <1>1, <2>1 DEF Steady, ListSetup, r
      <4>3. QED
        BY <1>4, <4>1, <4>2 DEF r
    <3>3. QED
      BY <1>7, <3>1, <3>2 DEF ListSetup, AtMostOneBehind
  <2>2. CASE ~At(i, "revoke", m)
    <3>1. \A c \in asked[m] : revoke'[c] = revoke[c]
      BY <1>1, <1>4, <2>2 DEF Wanted, At, r
    <3>2. QED
      BY <1>2, <1>3, <1>7, <1>8, <2>2, <3>1 DEF Steady, ListSetup, AtMostOneBehind
  <2>3. QED
    BY <2>1, <2>2
<1>11. QED
  BY <1>5, <1>9, <1>10 DEF Steady

\* While an answer is being written, its own file may hold anything.
LEMMA MovedSetup ==
    ASSUME Types, NEW m \in Managers, Steady(m),
           NEW i \in DOMAIN requests, HasAnswer(requests[i]), NEW s \in WriteStages,
           requests' = [requests EXCEPT ![i].stage = s], UNCHANGED <<generation, asked>>,
           \A c \in Companies :
              /\ \/ pubkey'[c] = pubkey[c]
                 \/ requests[i].kind = "Masterkey" /\ c = requests[i].for
              /\ \/ revoke'[c] = revoke[c]
                 \/ requests[i].kind = "revoke" /\ c = requests[i].for
    PROVE  Steady(m)'
<1>1. Wanted(requests[i]) /\ requests[i].stage # "sent"
  BY Requested DEF HasAnswer, WriteStages
<1>2. /\ DOMAIN requests' = DOMAIN requests
      /\ \A j \in DOMAIN requests :
            /\ requests'[j].kind = requests[j].kind
            /\ requests'[j].manager = requests[j].manager
            /\ requests'[j].for = requests[j].for
            /\ requests'[j].data = requests[j].data
            /\ HasAnswer(requests'[j]) => HasAnswer(requests[j])
            /\ requests'[j].stage = "sent" <=> requests[j].stage = "sent"
  BY <1>1, Moved DEF WriteStages
<1>3. \A j \in DOMAIN requests, k \in {"Masterkey", "revoke"} :
         At(j, k, m)' <=> At(j, k, m)
  BY <1>2 DEF At
<1>4. \A k \in {"Masterkey", "revoke"} : Open({k}, m)' <=> Open({k}, m)
  BY <1>2, <1>3 DEF Open, At
<1>5. NotYetHandled(m)' <=> NotYetHandled(m)
  BY <1>2, <1>3 DEF NotYetHandled
<1>6. Coming(m)' = Coming(m) /\ Current(m)' = Current(m)
  BY <1>5 DEF Coming, Current
<1>7. \A c \in asked[m] : c \in Companies /\ AddressOf[c] = m
  BY DEF Types
<1>8. OneAtATime(m)'
  BY <1>2, <1>3 DEF Steady, OneAtATime
<1>9. KeySetup(m)'
  <2>1. ASSUME ~Open({"Masterkey"}, m), NEW c \in asked[m] PROVE pubkey'[c] = pubkey[c]
    BY <1>1, <1>7, <2>1 DEF Wanted, Open
  <2>2. QED
    BY <1>2, <1>3, <1>4, <1>6, <2>1 DEF Steady, KeySetup
<1>10. ListSetup(m)'
  <2>1. ASSUME ~Open({"revoke"}, m), NEW c \in asked[m] PROVE revoke'[c] = revoke[c]
    BY <1>1, <1>7, <2>1 DEF Wanted, Open
  <2>2. QED
    BY <1>2, <1>3, <1>4, <1>6, <2>1 DEF Steady, ListSetup, AtMostOneBehind
<1>11. QED
  BY <1>8, <1>9, <1>10 DEF Steady

\* A viewer's two requests are no business of the broadcaster's.
LEMMA GetKeysSetup ==
    ASSUME Types, NEW m \in Managers, Steady(m), getKeys
    PROVE  Steady(m)'
<1> DEFINE n == Len(requests)
           a == Request("PrivateKey", UserServer, userId)
           b == Request("PublicKey", First, userId)
<1>1. a.kind = "PrivateKey" /\ b.kind = "PublicKey"
  BY DEF Request
<1>2. a \in RequestType /\ Wanted(a) /\ b \in RequestType /\ Wanted(b)
  BY NewRequests DEF Types
<1>3. requests' = requests \o <<a, b>>
  BY DEF getKeys, PrivateKeyServer
<1> HIDE DEF a, b
<1>4. /\ n \in Nat /\ DOMAIN requests = 1 .. n /\ DOMAIN requests' = 1 .. n + 2
      /\ \A i \in 1 .. n : requests'[i] = requests[i]
      /\ requests'[n + 1] = a /\ requests'[n + 2] = b
  BY <1>2, <1>3, Asking
<1> HIDE DEF n
<1>5. UNCHANGED <<generation, pubkey, revoke, asked>>
  BY DEF getKeys, managerVars, broadcasterVars
<1>6. \A i \in DOMAIN requests' : i \in 1 .. n \/ i = n + 1 \/ i = n + 2
  BY <1>4
<1>7. \A i \in DOMAIN requests', k \in {"Masterkey", "revoke"} :
         At(i, k, m)' => i \in DOMAIN requests /\ At(i, k, m) /\ requests'[i] = requests[i]
  BY <1>1, <1>4, <1>6 DEF At
<1>8. \A i \in DOMAIN requests, k \in {"Masterkey", "revoke"} :
         At(i, k, m) => i \in DOMAIN requests' /\ At(i, k, m)' /\ requests'[i] = requests[i]
  BY <1>4 DEF At
<1>9. NotYetHandled(m)' <=> NotYetHandled(m)
  BY <1>7, <1>8 DEF NotYetHandled
<1>10. Coming(m)' = Coming(m) /\ Current(m)' = Current(m)
  BY <1>5, <1>9 DEF Coming, Current
<1>11. \A k \in {"Masterkey", "revoke"} : Open({k}, m)' <=> Open({k}, m)
  BY <1>7, <1>8 DEF Open, At
<1>12. OneAtATime(m)'
  BY <1>5, <1>7 DEF Steady, OneAtATime
<1>13. KeySetup(m)'
  BY <1>5, <1>7, <1>10, <1>11 DEF Steady, KeySetup
<1>14. ListSetup(m)'
  BY <1>5, <1>7, <1>10, <1>11 DEF Steady, ListSetup, AtMostOneBehind
<1>15. QED
  BY <1>12, <1>13, <1>14 DEF Steady

LEMMA NextSetup == Types /\ Setup /\ [Next]_vars => Setup'
<1>1. SUFFICES ASSUME Types, Setup, [Next]_vars, NEW m \in Managers, m \notin crossed'
               PROVE  Steady(m)'
  BY DEF Setup
<1> USE DEF managerVars, broadcasterVars, viewerVars, history
<1>2. crossed \subseteq crossed'
  BY <1>1 DEF Next, vars, initializeChannel, getKeys, TypeUser, Handle, Answer, Arrives,
              WriteOpened, WriteAsked, WriteDone, DecStart, DecRead, DecWrite
<1>3. Steady(m)
  BY <1>1, <1>2 DEF Setup
<1>4. ASSUME UNCHANGED <<requests, generation, pubkey, revoke, asked>> PROVE Steady(m)'
  BY <1>3, <1>4 DEF Steady, OneAtATime, KeySetup, ListSetup, AtMostOneBehind, Coming,
                    Current, NotYetHandled, Open, At
<1>5. ASSUME NEW c \in Companies, initializeChannel(c) PROVE Steady(m)'
  BY <1>1, <1>3, <1>5, InitializeSetup
<1>6. ASSUME getKeys PROVE Steady(m)'
  BY <1>1, <1>3, <1>6, GetKeysSetup
<1>7. ASSUME NEW i \in DOMAIN requests, Handle(i) \/ Answer(i) PROVE Steady(m)'
  BY <1>1, <1>3, <1>7, HandleSetup, AnswerSetup
<1>8. ASSUME NEW i \in DOMAIN requests, WriteDone(i) PROVE Steady(m)'
  <2>1. \A c \in Companies :
           /\ pubkey'[c] = IF requests[i].kind = "Masterkey" /\ c = requests[i].for
                           THEN requests[i].data ELSE pubkey[c]
           /\ revoke'[c] = IF requests[i].kind = "revoke" /\ c = requests[i].for
                           THEN requests[i].data ELSE revoke[c]
    BY <1>1, <1>8 DEF WriteDone, Saved, SavedPubkey, SavedRevoke, Types
  <2>2. /\ requests' = RemoveAt(requests, i) /\ HasAnswer(requests[i])
        /\ UNCHANGED <<generation, asked>>
    BY <1>8 DEF WriteDone, HasAnswer, WriteStages
  <2>3. QED
    BY <1>1, <1>3, <2>1, <2>2, TakenSetup
<1>9. ASSUME NEW i \in DOMAIN requests, Arrives(i) \/ WriteOpened(i) \/ WriteAsked(i)
      PROVE  Steady(m)'
  <2>1. /\ \E s \in WriteStages : requests' = [requests EXCEPT ![i].stage = s]
        /\ HasAnswer(requests[i])
        /\ UNCHANGED <<generation, asked>>
    BY <1>9 DEF Arrives, WriteOpened, WriteAsked, HasAnswer, WriteStages
  <2>2. UNCHANGED <<pubkey, revoke>> \/ Saved(requests[i], Empty)
    BY <1>9 DEF Arrives, WriteOpened, WriteAsked
  <2>3. \A c \in Companies :
           /\ \/ pubkey'[c] = pubkey[c]
              \/ requests[i].kind = "Masterkey" /\ c = requests[i].for
           /\ \/ revoke'[c] = revoke[c]
              \/ requests[i].kind = "revoke" /\ c = requests[i].for
    BY <1>1, <2>2 DEF Saved, SavedPubkey, SavedRevoke, Types
  <2>4. QED
    BY <1>1, <1>3, <2>1, <2>3, MovedSetup
<1>10. ASSUME NEW u \in Users, TypeUser(u) PROVE Steady(m)'
  BY <1>4, <1>10 DEF TypeUser
<1>12. ASSUME DecStart \/ DecRead \/ DecWrite PROVE Steady(m)'
  BY <1>4, <1>12 DEF DecStart, DecRead, DecWrite
<1>13. CASE UNCHANGED vars
  BY <1>4, <1>13 DEF vars
<1>14. QED
  BY <1>1, <1>5, <1>6, <1>7, <1>8, <1>9, <1>10, <1>12, <1>13 DEF Next

-----------------------------------------------------------------------------
(* The keys that the viewer plays with *)

LEMMA InitPlaying == Init => Playing
BY ProvisioningAssumption
DEF ProvisioningAssumption, Init, Playing, Unasked, OneKeyOnly, NotRunning

\* Requests of the broadcaster's, and none of the viewer's: its first ones are
\* for the id that is typed now.
LEMMA AskedPlaying ==
    ASSUME Types, Playing,
           (\E c \in Companies : initializeChannel(c)) \/ getKeys
    PROVE  Playing'
<1>1. PICK a \in RequestType, b \in RequestType :
         /\ Wanted(a) /\ Wanted(b) /\ requests' = requests \o <<a, b>>
         /\ ~HasAnswer(a) /\ ~HasAnswer(b)
         /\ b.kind # "PrivateKey"
         /\ IF a.kind = "PrivateKey" THEN getKeys /\ a.stage = "sent" /\ a.for = userId
            ELSE \E c \in Companies : initializeChannel(c)
  <2>1. CASE getKeys
    <3> DEFINE a == Request("PrivateKey", UserServer, userId)
               b == Request("PublicKey", First, userId)
    <3>1. /\ a.kind = "PrivateKey" /\ a.stage = "sent" /\ a.for = userId
          /\ b.kind = "PublicKey" /\ b.stage = "handled"
      BY DEF Request
    <3>2. a \in RequestType /\ Wanted(a) /\ b \in RequestType /\ Wanted(b)
      BY NewRequests DEF Types
    <3>3. requests' = requests \o <<a, b>>
      BY <2>1 DEF getKeys, PrivateKeyServer
    <3> HIDE DEF a, b
    <3>4. QED
      BY <2>1, <3>1, <3>2, <3>3 DEF HasAnswer, WriteStages
  <2>2. CASE \E c \in Companies : initializeChannel(c)
    <3>1. PICK c \in Companies : initializeChannel(c)
      BY <2>2
    <3> DEFINE a == Request("Masterkey", AddressOf[c], c)
               b == Request("revoke", AddressOf[c], c)
    <3>2. /\ a.kind = "Masterkey" /\ a.stage = "sent"
          /\ b.kind = "revoke" /\ b.stage = "handled"
      BY DEF Request
    <3>3. a \in RequestType /\ Wanted(a) /\ b \in RequestType /\ Wanted(b)
      BY NewRequests
    <3>4. requests' = requests \o <<a, b>>
      BY <3>1 DEF initializeChannel, getServerAddressByName
    <3> HIDE DEF a, b
    <3>5. QED
      BY <2>2, <3>2, <3>3, <3>4 DEF HasAnswer, WriteStages
  <2>3. QED
    BY <2>1, <2>2
<1> DEFINE n == Len(requests)
<1>2. /\ n \in Nat /\ DOMAIN requests = 1 .. n /\ DOMAIN requests' = 1 .. n + 2
      /\ \A i \in 1 .. n : requests'[i] = requests[i]
      /\ requests'[n + 1] = a /\ requests'[n + 2] = b
  BY <1>1, Asking
<1> HIDE DEF n
<1>3. \A i \in DOMAIN requests' : i \in DOMAIN requests \/ i = n + 1 \/ i = n + 2
  BY <1>2
<1>4. /\ UNCHANGED <<generation, privateKeys, pubkey, userId, private, dec, retyped>>
      /\ dec.stage = "none" \/ UNCHANGED presses
      /\ presses' = 0 => presses = 0 /\ a.kind # "PrivateKey"
  <2>1. CASE getKeys
    <3>1. presses' = presses + 1 /\ presses \in Nat
      BY <2>1 DEF getKeys, Types
    <3>2. ~(presses' = 0)
      BY <3>1
    <3>3. dec.stage = "none"
      BY <2>1 DEF getKeys, Idle
    <3>4. QED
      BY <2>1, <3>2, <3>3 DEF getKeys, managerVars, broadcasterVars, viewerVars
  <2>2. CASE ~getKeys
    <3>1. PICK c \in Companies : initializeChannel(c)
      BY <2>2
    <3>2. a.kind # "PrivateKey"
      BY <1>1, <2>2
    <3>3. QED
      BY <3>1, <3>2 DEF initializeChannel, managerVars, broadcasterVars, viewerVars
  <2>3. QED
    BY <2>1, <2>2
<1>5. presses' = 0 => Unasked'
  BY <1>1, <1>2, <1>3, <1>4 DEF Playing, Unasked
<1>6. OneKeyOnly => OneKeyOnly'
  BY <1>1, <1>2, <1>3, <1>4 DEF OneKeyOnly, OnlyKey, OnlyPubkey, At, HasAnswer
<1>7. QED
  BY <1>4, <1>5, <1>6 DEF Playing

\* A key manager that initialized the channel once makes the one key.
LEMMA HandlePlaying ==
    ASSUME Types, Playing, NEW i \in DOMAIN requests, Handle(i) PROVE Playing'
<1> DEFINE r == requests[i]
<1>1. /\ r.stage = "sent" /\ r.kind \in {"Masterkey", "PrivateKey"}
      /\ r.manager \in Managers
      /\ r.kind = "PrivateKey" => r.for \in Users /\ r.manager = UserServer
  BY Requested DEF Handle, Wanted
<1>2. /\ generation[UserServer] \in Nat /\ generation'[UserServer] \in Nat
      /\ generation'[UserServer] >= generation[UserServer]
      /\ r.kind = "PrivateKey" => generation'[UserServer] = generation[UserServer]
  <2>1. UserServer \in Managers
    BY ProvisioningAssumption DEF ProvisioningAssumption
  <2>2. generation \in [Managers -> Nat] /\ generation[UserServer] \in Nat
    BY <2>1 DEF Types
  <2>3. CASE r.kind = "Masterkey"
    <3>1. generation' = [generation EXCEPT ![r.manager] = @ + 1]
      BY <2>3 DEF Handle
    <3>2. QED
      BY <2>1, <2>2, <2>3, <3>1
  <2>4. CASE r.kind # "Masterkey"
    <3>1. generation' = generation
      BY <2>4 DEF Handle
    <3>2. QED
      BY <2>2, <3>1
  <2>5. QED
    BY <2>3, <2>4
<1>3. PICK s \in {"handled", "answered"}, d \in AnyData :
         /\ requests' = [requests EXCEPT ![i].stage = s, ![i].data = d]
         /\ r.kind = "Masterkey" => s = "handled"
         /\ s = "answered" => d = ErrorPage
         /\ s = "handled" /\ r.kind = "PrivateKey" => generation[UserServer] # 0
  BY <1>1, Requested DEF Handle, AnyData, RequestType
<1>4. /\ DOMAIN requests' = DOMAIN requests
      /\ \A j \in DOMAIN requests \ {i} : requests'[j] = requests[j]
      /\ requests'[i].kind = r.kind /\ requests'[i].manager = r.manager
      /\ requests'[i].for = r.for /\ requests'[i].stage = s /\ requests'[i].data = d
  BY <1>3, Served
<1>5. UNCHANGED <<pubkey, userId, private, dec, presses, retyped>>
  BY DEF Handle, broadcasterVars, viewerVars, history
<1>6. /\ r.kind = "PrivateKey" /\ r.for = userId =>
            privateKeys'[UserServer][userId] = generation[UserServer]
      /\ r.kind # "PrivateKey" => UNCHANGED privateKeys
  BY <1>1, ProvisioningAssumption DEF ProvisioningAssumption, Handle, Types
<1> HIDE DEF r
<1>7. presses' = 0 => Unasked'
  BY <1>4, <1>5 DEF Playing, Unasked, r
<1>8. ASSUME OneKeyOnly, ~(generation'[UserServer] > 1) PROVE OneKeyOnly'
  <2>1. generation[UserServer] = 1 => generation'[UserServer] = 1
    BY <1>2, <1>8
  <2>2. ASSUME NEW j \in DOMAIN requests, requests'[j].kind = "PrivateKey",
               requests'[j].stage = "handled"
        PROVE  generation'[UserServer] = 1 /\ privateKeys'[UserServer][userId] = 1
    <3>1. CASE j = i
      BY <1>2, <1>3, <1>4, <1>6, <1>8, <2>2, <3>1 DEF OneKeyOnly, r
    <3>2. CASE j # i
      <4>1. generation[UserServer] = 1 /\ privateKeys[UserServer][userId] = 1
        BY <1>4, <1>8, <2>2, <3>2 DEF OneKeyOnly
      <4>2. r.kind = "PrivateKey" => r.for = userId
        BY <1>8 DEF OneKeyOnly, r
      <4>3. QED
        BY <1>6, <2>1, <4>1, <4>2
    <3>3. QED
      BY <3>1, <3>2
  <2>3. ASSUME NEW j \in DOMAIN requests, requests'[j].kind = "PrivateKey"
        PROVE  /\ requests'[j].for = userId
               /\ HasAnswer(requests'[j]) => requests'[j].data \in {ErrorPage, OnlyKey}
    BY <1>3, <1>4, <1>8, <2>3 DEF OneKeyOnly, HasAnswer, WriteStages, r
  <2>4. ASSUME NEW j \in DOMAIN requests, At(j, "Masterkey", UserServer)',
               HasAnswer(requests'[j])
        PROVE  requests'[j].data \in {ErrorPage, OnlyPubkey}
    BY <1>3, <1>4, <1>8, <2>4 DEF OneKeyOnly, HasAnswer, WriteStages, At, r
  <2>5. QED
    BY <1>4, <1>5, <1>8, <2>2, <2>3, <2>4 DEF OneKeyOnly, OnlyKey, OnlyPubkey, HasAnswer
<1>9. QED
  BY <1>2, <1>5, <1>7, <1>8 DEF Playing

\* What a file has then is the one key, or the pubkey that goes with it.
LEMMA AnswerPlaying ==
    ASSUME Types, Playing, NEW i \in DOMAIN requests, Answer(i) PROVE Playing'
<1> DEFINE r == requests[i]
<1>1. r.stage = "handled"
  BY DEF Answer
<1>2. /\ DOMAIN requests' = DOMAIN requests
      /\ \A j \in DOMAIN requests \ {i} : requests'[j] = requests[j]
      /\ requests'[i].kind = r.kind /\ requests'[i].manager = r.manager
      /\ requests'[i].for = r.for /\ requests'[i].stage = "answered"
      /\ requests'[i].data = Content(r)
  BY ContentType, Served DEF Answer
<1>3. UNCHANGED <<generation, privateKeys, pubkey, userId, private, dec, presses, retyped>>
  BY DEF Answer, managerVars, broadcasterVars, viewerVars, history
<1>4. /\ r.kind = "PrivateKey" =>
            Content(r) = [manager |-> UserServer, user |-> r.for,
                          made |-> privateKeys[UserServer][r.for]]
      /\ r.kind = "Masterkey" =>
            Content(r) = IF generation[r.manager] = 0 THEN ErrorPage ELSE Current(r.manager)
  BY ContentType
<1> HIDE DEF r
<1>5. presses' = 0 => Unasked'
  BY <1>2, <1>3 DEF Playing, Unasked, r
<1>6. ASSUME OneKeyOnly, ~(generation[UserServer] > 1) PROVE OneKeyOnly'
  <2>1. r.kind = "PrivateKey" => Content(r) = OnlyKey
    BY <1>1, <1>4, <1>6 DEF OneKeyOnly, OnlyKey, r
  <2>2. At(i, "Masterkey", UserServer) => Content(r) \in {ErrorPage, OnlyPubkey}
    <3>1. generation[UserServer] \in Nat
      BY ProvisioningAssumption DEF ProvisioningAssumption, Types
    <3>2. generation[UserServer] = 0 \/ generation[UserServer] = 1
      BY <1>6, <3>1
    <3>3. QED
      BY <1>4, <3>2 DEF At, Current, OnlyPubkey, r
  <2>3. QED
    BY <1>2, <1>3, <1>6, <2>1, <2>2 DEF OneKeyOnly, OnlyKey, OnlyPubkey, At, r
<1>7. QED
  BY <1>3, <1>5, <1>6 DEF Playing

\* A file that an answer is written to has one of those.
LEMMA WritePlaying ==
    ASSUME Types, Playing, NEW i \in DOMAIN requests,
           Arrives(i) \/ WriteOpened(i) \/ WriteAsked(i) \/ WriteDone(i)
    PROVE  Playing'
<1> DEFINE r == requests[i]
<1>1. HasAnswer(r)
  BY Writing
<1>2. \A j \in DOMAIN requests' : \E k \in DOMAIN requests :
         /\ requests'[j].kind = requests[k].kind /\ requests'[j].for = requests[k].for
         /\ requests'[j].manager = requests[k].manager
         /\ requests'[j].data = requests[k].data
         /\ requests'[j].stage = "handled" => requests[k].stage = "handled"
         /\ HasAnswer(requests'[j]) => HasAnswer(requests[k])
  <2>1. CASE requests' = RemoveAt(requests, i)
    BY <2>1, Taken
  <2>2. CASE \E s \in WriteStages : requests' = [requests EXCEPT ![i].stage = s]
    <3>1. PICK s \in WriteStages : requests' = [requests EXCEPT ![i].stage = s]
      BY <2>2
    <3>2. s # "handled"
      BY <3>1 DEF WriteStages
    <3>3. QED
      BY <1>1, <3>1, <3>2, Moved
  <2>3. QED
    BY <2>1, <2>2, Writing
<1>3. UNCHANGED <<generation, privateKeys, userId, dec, presses, retyped>>
  BY Writing
<1>4. PICK d \in {Empty, r.data} : Saved(r, d) \/ UNCHANGED <<pubkey, revoke, private>>
  BY Writing
<1>5. private' = private \/ (r.kind = "PrivateKey" /\ private' \in {Empty, r.data})
  BY <1>4 DEF Saved
<1>6. \/ pubkey'[Provider] = pubkey[Provider]
      \/ At(i, "Masterkey", UserServer) /\ pubkey'[Provider] \in {Empty, r.data}
  <2>1. pubkey \in [Companies -> AnyData] /\ Provider \in Companies
    BY ProvisioningAssumption DEF Types, ProvisioningAssumption
  <2>2. \/ pubkey' = pubkey
        \/ r.kind = "Masterkey" /\ pubkey' = [pubkey EXCEPT ![r.for] = d]
    BY <1>4 DEF Saved, SavedPubkey
  <2>3. r.kind = "Masterkey" /\ r.for = Provider => At(i, "Masterkey", UserServer)
    BY Requested, ProvisioningAssumption DEF ProvisioningAssumption, Wanted, At
  <2> HIDE DEF r
  <2>4. QED
    BY <1>4, <2>1, <2>2, <2>3
<1>7. presses' = 0 => Unasked'
  BY <1>2, <1>3, <1>5 DEF Playing, Unasked
<1>8. ASSUME OneKeyOnly PROVE OneKeyOnly'
  <2>1. private' \in {NoFile, ErrorPage, Empty, OnlyKey}
    BY <1>1, <1>5, <1>8 DEF OneKeyOnly
  <2>2. pubkey'[Provider] \in {NoFile, ErrorPage, Empty, OnlyPubkey}
    BY <1>1, <1>6, <1>8 DEF OneKeyOnly
  <2> HIDE DEF r
  <2>3. QED
    BY <1>2, <1>3, <1>8, <2>1, <2>2 DEF OneKeyOnly, OnlyKey, OnlyPubkey, At
<1>9. QED
  BY <1>3, <1>7, <1>8 DEF Playing

\* Nor has cpabe-dec another key to write.
LEMMA DecPlaying ==
    ASSUME Types, Playing, DecStart \/ DecRead \/ DecWrite
    PROVE  Playing'
<1>1. UNCHANGED <<generation, privateKeys, requests, pubkey, userId, presses, retyped>>
  BY DEF DecStart, DecRead, DecWrite, managerVars, broadcasterVars, history
<1>2. ASSUME presses' = 0 PROVE Unasked'
  <2>1. Unasked /\ presses = 0
    BY <1>1, <1>2 DEF Playing
  <2>2. private' = NoFile /\ dec'.stage # "read"
    BY <2>1 DEF Unasked, DecStart, DecRead, DecWrite, NotRunning
  <2>3. QED
    BY <1>1, <2>1, <2>2 DEF Unasked
<1>3. ASSUME OneKeyOnly PROVE OneKeyOnly'
  <2>1. private' \in {NoFile, ErrorPage, Empty, OnlyKey}
    BY <1>3 DEF OneKeyOnly, DecStart, DecRead, DecWrite
  <2>2. /\ dec'.stage # "none" => dec'.cipher = OnlyPubkey
        /\ dec'.stage = "started" => dec'.id = userId \/ presses = 0
        /\ dec'.stage = "read" => dec'.id = userId /\ dec'.key = OnlyKey
    <3>1. CASE DecStart
      BY <1>3, <3>1 DEF OneKeyOnly, DecStart
    <3>2. CASE DecRead
      <4>1. CASE {private, public} \cap {NoFile, ErrorPage, Empty} # {}
        BY <3>2, <4>1 DEF DecRead, NotRunning
      <4>2. CASE {private, public} \cap {NoFile, ErrorPage, Empty} = {}
        <5>1. /\ dec.stage = "started"
              /\ dec' = [stage |-> "read", id |-> dec.id, cipher |-> dec.cipher,
                         key |-> private]
          BY <3>2, <4>2 DEF DecRead
        <5>2. private = OnlyKey /\ private # NoFile
          BY <1>3, <4>2 DEF OneKeyOnly
        <5>3. dec.id = userId /\ dec.cipher = OnlyPubkey
          BY <1>3, <5>1, <5>2 DEF OneKeyOnly, Playing, Unasked
        <5>4. QED
          BY <5>1, <5>2, <5>3
      <4>3. QED
        BY <4>1, <4>2
    <3>3. CASE DecWrite
      BY <3>3 DEF DecWrite, NotRunning
    <3>4. QED
      BY <3>1, <3>2, <3>3
  <2>3. QED
    BY <1>1, <1>3, <2>1, <2>2 DEF OneKeyOnly, OnlyKey, OnlyPubkey, At
<1>4. QED
  BY <1>1, <1>2, <1>3 DEF Playing

\* Another id is typed for nothing as long as no key has been asked for.
LEMMA TypePlaying ==
    ASSUME Types, Playing, NEW u \in Users, TypeUser(u) PROVE Playing'
<1>1. UNCHANGED <<generation, privateKeys, requests, pubkey, private, dec, presses>>
  BY DEF TypeUser, managerVars, broadcasterVars
<1>2. CASE presses = 0
  <2>1. Unasked /\ ~retyped' /\ (OneKeyOnly \/ generation[UserServer] > 1)
    <3>1. Unasked /\ (OneKeyOnly \/ generation[UserServer] > 1)
      BY <1>2 DEF Playing, Unasked
    <3>2. ~(presses > 0)
      BY <1>2
    <3>3. retyped' = (presses > 0)
      BY DEF TypeUser
    <3>4. ~retyped'
      BY <3>2, <3>3, Zenon
    <3>5. QED
      BY <3>1, <3>4
  <2>2. Unasked'
    BY <1>1, <2>1 DEF Unasked
  <2>3. OneKeyOnly => OneKeyOnly'
    BY <1>1, <1>2, <2>1 DEF OneKeyOnly, Unasked, OnlyKey, OnlyPubkey, At
  <2>4. QED
    BY <1>1, <2>1, <2>2, <2>3 DEF Playing
<1>3. CASE presses # 0
  <2>1. presses > 0
    BY <1>3 DEF Types
  <2>2. retyped' = (presses > 0)
    BY DEF TypeUser
  <2>3. retyped'
    BY <2>1, <2>2, Zenon
  <2>4. QED
    BY <1>1, <1>3, <2>3 DEF Playing
<1>4. QED
  BY <1>2, <1>3

LEMMA NextPlaying == Types /\ Playing /\ [Next]_vars => Playing'
<1>1. CASE UNCHANGED vars
  BY <1>1 DEF vars, managerVars, broadcasterVars, viewerVars, history, Playing, Unasked,
              OneKeyOnly, OnlyKey, OnlyPubkey, At
<1>2. QED
  BY <1>1, AskedPlaying, HandlePlaying, AnswerPlaying, WritePlaying, DecPlaying,
     TypePlaying
  DEF Next

-----------------------------------------------------------------------------
(* The private key that arrived last *)

LEMMA InitKeyStored == Init => KeyStored
BY DEF Init, KeyStored, OneKeyAsked, NotRunning

\* A step that leaves the file and what is being written to it as they are.
LEMMA Untouched ==
    ASSUME KeyStored, "private" \notin crossed, OneKeyAsked',
           \A j \in DOMAIN requests' : StoringKey(requests'[j]) =>
               \E k \in DOMAIN requests : requests'[j] = requests[k],
           Storing => Storing', UNCHANGED <<private, dec, fetched, restored>>
    PROVE  KeyStored'
<1>1. ASSUME NEW j \in DOMAIN requests', StoringKey(requests'[j])
      PROVE  /\ requests'[j].data = fetched
             /\ restored \/ requests'[j].stage = "opening" \/ private = Empty
             /\ restored \/ requests'[j].stage # "writing" \/ dec.stage # "read"
  BY <1>1 DEF KeyStored
<1>2. ~Storing /\ ~restored => private = fetched /\ (dec.stage = "read" => dec.key = fetched)
  BY DEF KeyStored
<1>3. QED
  BY <1>1, <1>2 DEF KeyStored, StoringKey

\* The viewer's requests for a private key are at most one more, and none but a
\* press adds one.
LEMMA StillOneKeyAsked ==
    ASSUME Types, NEW i \in DOMAIN requests, OneKeyAsked,
           \/ Handle(i) \/ Answer(i) \/ Arrives(i)
           \/ WriteOpened(i) \/ WriteAsked(i) \/ WriteDone(i)
    PROVE  OneKeyAsked'
<1>1. \/ \E s \in {"handled", "answered"}, d \in AnyData :
            requests' = [requests EXCEPT ![i].stage = s, ![i].data = d]
      \/ \E s \in WriteStages : requests' = [requests EXCEPT ![i].stage = s]
      \/ requests' = RemoveAt(requests, i)
  BY Writing, Requested, ContentType DEF Handle, Answer, AnyData, RequestType
<1>2. CASE requests' = RemoveAt(requests, i)
  BY <1>2, Taken DEF OneKeyAsked
<1>3. CASE requests' # RemoveAt(requests, i)
  <2>1. /\ DOMAIN requests' = DOMAIN requests
        /\ \A j \in DOMAIN requests : requests'[j].kind = requests[j].kind
    BY <1>1, <1>3, Served, Moved
  <2>2. QED
    BY <2>1 DEF OneKeyAsked
<1>4. QED
  BY <1>2, <1>3

\* Two requests more, of a press only if no private key is asked for or written.
LEMMA AskedStoring ==
    ASSUME Types, KeyStored, "private" \notin crossed',
           (\E c \in Companies : initializeChannel(c)) \/ getKeys
    PROVE  KeyStored'
<1>1. PICK a \in RequestType, b \in RequestType :
         /\ Wanted(a) /\ Wanted(b) /\ requests' = requests \o <<a, b>>
         /\ ~StoringKey(a) /\ ~StoringKey(b) /\ b.kind # "PrivateKey"
         /\ a.kind # "PrivateKey" \/ \A i \in DOMAIN requests : requests[i].kind # "PrivateKey"
  <2>1. CASE getKeys
    <3> DEFINE a == Request("PrivateKey", UserServer, userId)
               b == Request("PublicKey", First, userId)
    <3>1. a.kind = "PrivateKey" /\ a.stage = "sent" /\ b.kind = "PublicKey"
      BY DEF Request
    <3>2. a \in RequestType /\ Wanted(a) /\ b \in RequestType /\ Wanted(b)
      BY NewRequests DEF Types
    <3>3. requests' = requests \o <<a, b>>
      BY <2>1 DEF getKeys, PrivateKeyServer
    <3>4. ~Open({"PrivateKey"}, UserServer)
      BY <2>1 DEF getKeys, PrivateKeyServer
    <3>5. \A i \in DOMAIN requests : requests[i].kind # "PrivateKey"
      BY <3>4, Requested DEF Open, Wanted
    <3> HIDE DEF a, b
    <3>6. QED
      BY <3>1, <3>2, <3>3, <3>5 DEF StoringKey, WriteStages
  <2>2. CASE \E c \in Companies : initializeChannel(c)
    <3>1. PICK c \in Companies : initializeChannel(c)
      BY <2>2
    <3> DEFINE a == Request("Masterkey", AddressOf[c], c)
               b == Request("revoke", AddressOf[c], c)
    <3>2. a.kind = "Masterkey" /\ b.kind = "revoke"
      BY DEF Request
    <3>3. a \in RequestType /\ Wanted(a) /\ b \in RequestType /\ Wanted(b)
      BY NewRequests
    <3>4. requests' = requests \o <<a, b>>
      BY <3>1 DEF initializeChannel, getServerAddressByName
    <3> HIDE DEF a, b
    <3>5. QED
      BY <3>2, <3>3, <3>4 DEF StoringKey
  <2>3. QED
    BY <2>1, <2>2
<1> DEFINE n == Len(requests)
<1>2. /\ n \in Nat /\ DOMAIN requests = 1 .. n /\ DOMAIN requests' = 1 .. n + 2
      /\ \A i \in 1 .. n : requests'[i] = requests[i]
      /\ requests'[n + 1] = a /\ requests'[n + 2] = b
  BY <1>1, Asking
<1> HIDE DEF n
<1>3. \A i \in DOMAIN requests' : i \in DOMAIN requests \/ i = n + 1 \/ i = n + 2
  BY <1>2
<1>4. "private" \notin crossed /\ UNCHANGED <<private, dec, fetched, restored>>
  BY DEF initializeChannel, getKeys, viewerVars
<1>5. OneKeyAsked'
  BY <1>1, <1>2, <1>3, <1>4 DEF KeyStored, OneKeyAsked
<1>6. \A j \in DOMAIN requests' : StoringKey(requests'[j]) =>
         j \in DOMAIN requests /\ requests'[j] = requests[j]
  BY <1>1, <1>2, <1>3
<1>7. Storing => Storing'
  <2>1. DOMAIN requests \subseteq DOMAIN requests'
    BY <1>2
  <2>2. QED
    BY <1>2, <2>1 DEF Storing
<1>8. QED
  BY <1>4, <1>5, <1>6, <1>7, Untouched

\* A request that is handled or answered is not being written.
LEMMA ServedStoring ==
    ASSUME Types, KeyStored, "private" \notin crossed,
           NEW i \in DOMAIN requests, Handle(i) \/ Answer(i)
    PROVE  KeyStored'
<1>1. PICK s \in {"handled", "answered"}, d \in AnyData :
         requests' = [requests EXCEPT ![i].stage = s, ![i].data = d]
  BY Requested, ContentType DEF Handle, Answer, AnyData, RequestType
<1>2. /\ DOMAIN requests' = DOMAIN requests
      /\ \A j \in DOMAIN requests \ {i} : requests'[j] = requests[j]
      /\ requests'[i].stage = s
  BY <1>1, Served
<1>3. requests[i].stage \notin WriteStages /\ s \notin WriteStages
  BY DEF Handle, Answer, WriteStages
<1>4. OneKeyAsked'
  BY StillOneKeyAsked DEF KeyStored
<1>5. Storing => Storing'
  BY <1>2, <1>3 DEF Storing
<1>6. UNCHANGED <<private, dec, fetched, restored>>
  BY DEF Handle, Answer, viewerVars, history
<1>7. QED
  BY <1>2, <1>3, <1>4, <1>5, <1>6, Untouched DEF StoringKey

\* Other answers are written to other files.
LEMMA OthersStoring ==
    ASSUME Types, KeyStored, "private" \notin crossed,
           NEW i \in DOMAIN requests, requests[i].kind # "PrivateKey",
           Arrives(i) \/ WriteOpened(i) \/ WriteAsked(i) \/ WriteDone(i)
    PROVE  KeyStored'
<1>1. UNCHANGED <<private, dec, fetched, restored>>
  BY DEF Arrives, WriteOpened, WriteAsked, WriteDone, Saved, viewerVars, history
<1>2. OneKeyAsked'
  BY StillOneKeyAsked DEF KeyStored
<1>3. /\ \A j \in DOMAIN requests' : requests'[j].kind = "PrivateKey" =>
            \E k \in DOMAIN requests : requests'[j] = requests[k]
      /\ \A k \in DOMAIN requests \ {i} : \E j \in DOMAIN requests' : requests'[j] = requests[k]
  <2>1. CASE requests' = RemoveAt(requests, i)
    BY <2>1, Taken
  <2>2. CASE \E s \in WriteStages : requests' = [requests EXCEPT ![i].stage = s]
    BY <2>2, Moved
  <2>3. QED
    BY <2>1, <2>2, Writing
<1>4. Storing => Storing'
  <2>1. ASSUME Storing PROVE Storing'
    <3>1. PICK k \in DOMAIN requests : StoringKey(requests[k])
      BY <2>1 DEF Storing, StoringKey
    <3>2. PICK j \in DOMAIN requests' : requests'[j] = requests[k]
      BY <1>3, <3>1 DEF StoringKey
    <3>3. QED
      BY <3>1, <3>2 DEF Storing, StoringKey
  <2>2. QED
    BY <2>1
<1>5. QED
  BY <1>1, <1>2, <1>3, <1>4, Untouched DEF StoringKey

\* The writing of the one private key goes on.
LEMMA WriteStoring ==
    ASSUME Types, KeyStored, "private" \notin crossed,
           NEW i \in DOMAIN requests, requests[i].kind = "PrivateKey",
           Arrives(i) \/ WriteOpened(i) \/ WriteAsked(i) \/ WriteDone(i)
    PROVE  KeyStored'
<1>1. OneKeyAsked /\ OneKeyAsked'
  BY StillOneKeyAsked DEF KeyStored
<1>2. CASE WriteDone(i)
  <2>1. /\ requests' = RemoveAt(requests, i)
        /\ private' = requests[i].data
        /\ StoringKey(requests[i]) /\ requests[i].stage = "writing"
        /\ UNCHANGED <<dec, fetched, restored>>
    BY <1>2 DEF WriteDone, Saved, StoringKey, WriteStages, history
  <2>2. \A j \in DOMAIN requests' : requests'[j].kind # "PrivateKey"
    BY <1>1, <2>1, Taken DEF OneKeyAsked
  <2>3. requests[i].data = fetched /\ (restored \/ dec.stage # "read")
    BY <2>1 DEF KeyStored
  <2>4. QED
    BY <1>1, <2>1, <2>2, <2>3 DEF KeyStored, StoringKey
<1>3. ASSUME NEW s \in WriteStages, requests' = [requests EXCEPT ![i].stage = s],
             requests[i].data = fetched',
             restored' \/ s = "opening" \/ private' = Empty,
             restored' \/ s # "writing" \/ dec'.stage # "read"
      PROVE  KeyStored'
  <2>1. /\ DOMAIN requests' = DOMAIN requests
        /\ requests'[i].kind = "PrivateKey"
        /\ requests'[i].stage = s /\ requests'[i].data = fetched'
    BY <1>3, Moved
  <2>2. \A j \in DOMAIN requests' : requests'[j].kind = "PrivateKey" => j = i
    BY <1>1, <2>1 DEF OneKeyAsked
  <2>3. Storing'
    BY <1>3, <2>1 DEF Storing
  <2>4. QED
    BY <1>1, <1>3, <2>1, <2>2, <2>3 DEF KeyStored, StoringKey
<1>4. CASE Arrives(i)
  <2>1. /\ requests' = [requests EXCEPT ![i].stage = "opening"]
        /\ fetched' = requests[i].data
    BY <1>4 DEF Arrives
  <2>2. "opening" \in WriteStages
    BY DEF WriteStages
  <2>3. QED
    BY <1>3, <2>1, <2>2
<1>5. CASE WriteOpened(i)
  <2>1. /\ requests' = [requests EXCEPT ![i].stage = "opened"] /\ private' = Empty
        /\ StoringKey(requests[i]) /\ fetched' = fetched
    BY <1>5 DEF WriteOpened, Saved, StoringKey, WriteStages, history
  <2>2. "opened" \in WriteStages /\ requests[i].data = fetched
    BY <2>1 DEF WriteStages, KeyStored
  <2>3. QED
    BY <1>3, <2>1, <2>2
<1>6. CASE WriteAsked(i)
  <2>1. /\ requests' = [requests EXCEPT ![i].stage = "writing"]
        /\ StoringKey(requests[i]) /\ requests[i].stage = "opened"
        /\ dec.stage # "read"
        /\ UNCHANGED <<private, dec, fetched, restored>>
    BY <1>6 DEF WriteAsked, StoringKey, WriteStages, ViewerKinds, MayCallBack, Idle,
                viewerVars, history
  <2>2. /\ "writing" \in WriteStages /\ requests[i].data = fetched
        /\ restored \/ private = Empty
    BY <2>1 DEF WriteStages, KeyStored
  <2>3. QED
    BY <1>3, <2>1, <2>2
<1>7. QED
  BY <1>2, <1>4, <1>5, <1>6

\* cpabe-dec reads the key that arrived last, or one that is about to be
\* overwritten; what it writes back while that goes on counts as restored.
LEMMA DecStoring ==
    ASSUME Types, KeyStored, "private" \notin crossed, DecStart \/ DecRead \/ DecWrite
    PROVE  KeyStored'
<1>1. CASE DecStart \/ DecRead
  <2>1. /\ UNCHANGED <<requests, private, fetched, restored>>
        /\ dec'.stage = "read" => dec'.key = private /\ private # Empty
    <3>1. CASE DecStart
      BY <3>1 DEF DecStart, history
    <3>2. CASE DecRead
      <4>1. UNCHANGED <<requests, private, fetched, restored>>
        BY <3>2 DEF DecRead, history
      <4>2. CASE {private, public} \cap {NoFile, ErrorPage, Empty} # {}
        BY <3>2, <4>1, <4>2 DEF DecRead, NotRunning
      <4>3. CASE {private, public} \cap {NoFile, ErrorPage, Empty} = {}
        <5>1. dec' = [stage |-> "read", id |-> dec.id, cipher |-> dec.cipher, key |-> private]
          BY <3>2, <4>3 DEF DecRead
        <5>2. private # Empty
          BY <4>3
        <5>3. QED
          BY <4>1, <5>1, <5>2
      <4>4. QED
        BY <4>2, <4>3
    <3>3. QED
      BY <1>1, <3>1, <3>2
  <2>2. Storing' <=> Storing
    BY <2>1 DEF Storing
  <2>3. QED
    BY <2>1, <2>2 DEF KeyStored, OneKeyAsked, StoringKey
<1>2. CASE DecWrite
  <2>1. /\ UNCHANGED <<requests, fetched>> /\ private' = dec.key
        /\ dec'.stage # "read" /\ dec.stage = "read"
    BY <1>2 DEF DecWrite, NotRunning
  <2>2. restored' <=> restored \/ Storing
    <3>1. restored' = (restored \/ Storing)
      BY <1>2 DEF DecWrite
    <3>2. QED
      BY <3>1, Zenon
  <2>3. Storing' <=> Storing
    BY <2>1 DEF Storing
  <2>4. \A j \in DOMAIN requests : StoringKey(requests[j]) => Storing
    BY DEF Storing, StoringKey
  <2>5. QED
    BY <2>1, <2>2, <2>3, <2>4 DEF KeyStored, OneKeyAsked
<1>3. QED
  BY <1>1, <1>2

LEMMA NextKeyStored == Types /\ KeyStored /\ [Next]_vars => KeyStored'
<1>1. SUFFICES ASSUME Types, KeyStored, [Next]_vars, "private" \notin crossed'
               PROVE  KeyStored'
  BY DEF KeyStored
<1>2. "private" \notin crossed
  BY <1>1 DEF Next, vars, history, initializeChannel, getKeys, TypeUser, Handle, Answer,
              Arrives, WriteOpened, WriteAsked, WriteDone, DecStart, DecRead, DecWrite
<1>3. ASSUME UNCHANGED <<requests, private, dec, fetched, restored>> PROVE KeyStored'
  <2>1. Storing' <=> Storing
    BY <1>3 DEF Storing
  <2>2. QED
    BY <1>1, <1>2, <1>3, <2>1 DEF KeyStored, OneKeyAsked, StoringKey
<1>4. CASE (\E u \in Users : TypeUser(u)) \/ UNCHANGED vars
  BY <1>3, <1>4 DEF TypeUser, vars, viewerVars, history
<1>5. ASSUME NEW i \in DOMAIN requests,
             Arrives(i) \/ WriteOpened(i) \/ WriteAsked(i) \/ WriteDone(i)
      PROVE  KeyStored'
  BY <1>1, <1>2, <1>5, OthersStoring, WriteStoring
<1>6. QED
  BY <1>1, <1>2, <1>4, <1>5, AskedStoring, ServedStoring, DecStoring DEF Next

-----------------------------------------------------------------------------
(* Theorems *)

LEMMA Inductive == Spec => [](Types /\ Setup /\ Playing /\ KeyStored)
<1>1. Init => Types /\ Setup /\ Playing /\ KeyStored
  BY InitTypes, InitSetup, InitPlaying, InitKeyStored
<1>2. Types /\ Setup /\ Playing /\ KeyStored /\ [Next]_vars
         => (Types /\ Setup /\ Playing /\ KeyStored)'
  BY NextTypes, NextSetup, NextPlaying, NextKeyStored
<1>3. QED
  BY <1>1, <1>2, PTL DEF Spec

(***************************************************************************)
(* requestKey.js:26-54 stores what /Masterkey_ and /revoke_ answer         *)
(* whenever it comes, of however many companies and key managers: without  *)
(* overlapping initializations the pubkey kept is the one made last.       *)
(***************************************************************************)
THEOREM PubkeyIsCurrent == Spec => []PubkeyCurrent
<1>1. Setup => PubkeyCurrent
  <2>1. SUFFICES ASSUME Setup, requests = <<>>,
                        NEW m \in Managers \ crossed, NEW c \in asked[m]
                 PROVE  pubkey[c] = [manager |-> m, made |-> generation[m]]
    BY DEF PubkeyCurrent
  <2>2. KeySetup(m) /\ ~Open({"Masterkey"}, m)
    BY <2>1 DEF Setup, Steady, Open
  <2>3. QED
    BY <2>2 DEF KeySetup, Current
<1>2. QED
  BY <1>1, Inductive, PTL

(***************************************************************************)
(* requestKey.js:41 asks for the list beside the keys and not after them;  *)
(* what it saves then is never older than the initialization before.       *)
(***************************************************************************)
THEOREM ListIsAtMostOneBehind == Spec => []ListAtMostOneBehind
<1>1. Setup => ListAtMostOneBehind
  <2>1. SUFFICES ASSUME Setup, requests = <<>>,
                        NEW m \in Managers \ crossed, NEW c \in asked[m]
                 PROVE  IF revoke[c] = ErrorPage THEN generation[m] = 1
                        ELSE revoke[c].made >= generation[m] - 1
    BY DEF ListAtMostOneBehind
  <2>2. ListSetup(m) /\ ~Open({"revoke"}, m) /\ ~NotYetHandled(m)
    BY <2>1 DEF Setup, Steady, Open, NotYetHandled
  <2>3. QED
    BY <2>2 DEF ListSetup, AtMostOneBehind, Coming
<1>2. QED
  BY <1>1, Inductive, PTL

(***************************************************************************)
(* Whatever the order of presses, answers, writes and ciphers, cpabe-dec   *)
(* gives noise for a key only after a second initialization of the channel *)
(* or after another id was typed (README:55).                              *)
(***************************************************************************)
THEOREM NoiseOnlyAfterChange == Spec => []NoiseNeedsChange
<1>1. Playing => NoiseNeedsChange
  BY DEF Playing, OneKeyOnly, OnlyKey, OnlyPubkey, NoiseNeedsChange, Noise
<1>2. QED
  BY <1>1, Inductive, PTL

(***************************************************************************)
(* dec.c:240 puts the private key back that it read, in the middle of the  *)
(* two steps of fs.writeFile or not: the key that arrived last is lost     *)
(* only if it does so in between or if requests for keys overlapped.       *)
(***************************************************************************)
THEOREM FetchedKeyIsKept == Spec => []FetchedKeyKept
<1>1. KeyStored => FetchedKeyKept
  BY DEF KeyStored, Idle, FetchedKeyKept
<1>2. QED
  BY <1>1, Inductive, PTL

=============================================================================
