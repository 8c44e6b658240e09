----------------------------- MODULE Provisioning -----------------------------
(***************************************************************************)
(* How the keys of one channel get from the key managers to a broadcaster  *)
(* (initializeChannel) and to a viewer (getKeys, getPublicKey), while the  *)
(* viewer already has cpabe-dec open ciphers and rewrite the private key.  *)
(*                                                                         *)
(* A key manager's handlers run one at a time and end with a sendFile,     *)
(* which reads the file later.  An answer's data event has fs.writeFile    *)
(* open and then write a file on other threads; at the viewer its          *)
(* callbacks need the main thread, which execSync occupies as long as      *)
(* cpabe-dec runs.  An answer is one data event: each event would write    *)
(* its part over the one before.                                           *)
(***************************************************************************)
EXTENDS Naturals, SequencesExt

CONSTANTS
    Companies,      \* SERVER_NAMES
    AddressOf,      \* SERVER_ADDRESSES by company; companies may share one
    First,          \* SERVER_ADDRESSES[0]
    UserServer,     \* USER_SERVER_ADDRESSES
    Provider,       \* the company of USER_SERVER_ID
    Users,          \* ids a viewer may type
    NoFile, ErrorPage, Empty,
    MaxSetups,      \* bound on initializations of the channel
    MaxFetches,     \* bound on presses of the play button
    MaxRequests     \* bound on HTTPS requests under way

Managers == {AddressOf[c] : c \in Companies}

\* A public key or revocation list by its key manager and generation, and a
\* private key by its user besides.
PublicData == [manager : Managers, made : Nat]
PrivateData == [manager : Managers, user : Users, made : Nat]

ASSUME ProvisioningAssumption ==
    /\ {First, UserServer} \subseteq Managers
    /\ Provider \in Companies /\ AddressOf[Provider] = UserServer
    /\ {MaxSetups, MaxFetches, MaxRequests} \subseteq Nat
    /\ NoFile # ErrorPage
    /\ {NoFile, ErrorPage, Empty} \cap (PublicData \cup PrivateData) = {}

VARIABLES
    generation,     \* how often a key manager has initialized the channel
    privateKeys,    \* by key manager and id, the generation of private_<ch>_<id>
    requests,       \* HTTPS requests until their answer is written to its file
    pubkey, revoke, \* the broadcaster's files of each company
    userId,         \* the id in the viewer's form
    private, public,\* the viewer's files
    dec,            \* the cpabe-dec that runs
    setups,         \* history: initializations of the channel
    asked,          \* history: by key manager, the company that initialized the
                    \* channel there last; a set of at most one
    presses,        \* history: presses of the play button
    crossed,        \* history: requests that overlapped at a key manager, or
                    \* writes of the private key
    fetched,        \* history: the private key that arrived last
    retyped,        \* history: the id was changed after keys had been asked for
    restored        \* history: cpabe-dec wrote a key back while the one fetched
                    \* last was being stored

managerVars == <<generation, privateKeys>>
broadcasterVars == <<pubkey, revoke>>
viewerVars == <<userId, private, public, dec>>
history == <<setups, asked, presses, crossed, fetched, retyped, restored>>
vars == <<managerVars, requests, broadcasterVars, viewerVars, history>>

NotRunning == [stage |-> "none"]

Init ==
    /\ generation = [m \in Managers |-> 0]
    /\ privateKeys = [m \in Managers |-> [u \in Users |-> 0]]
    /\ requests = <<>>
    /\ pubkey = [c \in Companies |-> NoFile] /\ revoke = [c \in Companies |-> NoFile]
    /\ userId \in Users
    /\ private = NoFile /\ public = NoFile
    /\ dec = NotRunning
    /\ setups = 0 /\ asked = [m \in Managers |-> {}] /\ presses = 0
    /\ crossed = {} /\ fetched = NoFile /\ retyped = FALSE /\ restored = FALSE

\* Handlers that change nothing only start the sendFile.
Request(kind, manager, for) ==
    [kind |-> kind, manager |-> manager, for |-> for, data |-> NoFile,
     stage |-> IF kind \in {"Masterkey", "PrivateKey"} THEN "sent" ELSE "handled"]

Open(kinds, manager) ==
    \E i \in DOMAIN requests : requests[i].kind \in kinds /\ requests[i].manager = manager

-----------------------------------------------------------------------------
(* The broadcaster *)

getServerAddressByName(company) == AddressOf[company]

\* Two requests at the same time; they may arrive in either order.
initializeChannel(company) ==
    LET manager == getServerAddressByName(company) IN
    /\ setups < MaxSetups /\ setups' = setups + 1
    /\ Len(requests) + 2 <= MaxRequests
    /\ requests' = requests \o <<Request("Masterkey", manager, company),
                                 Request("revoke", manager, company)>>
    /\ asked' = [asked EXCEPT ![manager] = {company}]
    /\ crossed' = IF Open({"Masterkey", "revoke"}, manager)
                  THEN crossed \cup {manager} ELSE crossed
    /\ UNCHANGED <<managerVars, broadcasterVars, viewerVars, presses, fetched, retyped,
                   restored>>

-----------------------------------------------------------------------------
(* The key managers *)

\* cpabe-keygen without a master key fails, and the answer is an error page.
Handle(i) ==
    LET r == requests[i]
        refused == r.kind = "PrivateKey" /\ generation[r.manager] = 0
    IN
    /\ r.stage = "sent"
    /\ generation' = IF r.kind = "Masterkey" THEN [generation EXCEPT ![r.manager] = @ + 1]
                     ELSE generation
    /\ privateKeys' = IF r.kind = "PrivateKey"
                      THEN [privateKeys EXCEPT ![r.manager][r.for] = generation[r.manager]]
                      ELSE privateKeys
    /\ requests' = [requests EXCEPT ![i].stage = IF refused THEN "answered" ELSE "handled",
                                    ![i].data = IF refused THEN ErrorPage ELSE @]
    /\ UNCHANGED <<broadcasterVars, viewerVars, history>>

Content(r) ==
    CASE r.kind = "PrivateKey" -> [manager |-> r.manager, user |-> r.for,
                                   made |-> privateKeys[r.manager][r.for]]
      [] r.kind # "PrivateKey" /\ generation[r.manager] = 0 -> ErrorPage
      [] OTHER -> [manager |-> r.manager, made |-> generation[r.manager]]

\* sendFile reads the file.
Answer(i) ==
    /\ requests[i].stage = "handled"
    /\ requests' = [requests EXCEPT ![i].stage = "answered",
                                    ![i].data = Content(requests[i])]
    /\ UNCHANGED <<managerVars, broadcasterVars, viewerVars, history>>

-----------------------------------------------------------------------------
(* The viewer *)

Idle == dec.stage = "none"

\* Mutant: the private key is asked for where the public one is.
PrivateFromFirst == First

PrivateKeyServer == UserServer

\* The play button: both requests are sent, and reception starts.
getKeys ==
    /\ Idle
    /\ presses < MaxFetches /\ presses' = presses + 1
    /\ Len(requests) + 2 <= MaxRequests
    /\ requests' = requests \o <<Request("PrivateKey", PrivateKeyServer, userId),
                                 Request("PublicKey", First, userId)>>
    /\ crossed' = IF Open({"PrivateKey"}, PrivateKeyServer)
                  THEN crossed \cup {"private"} ELSE crossed
    /\ UNCHANGED <<managerVars, broadcasterVars, viewerVars, setups, asked, fetched,
                   retyped, restored>>

TypeUser(u) ==
    /\ u # userId
    /\ userId' = u
    /\ retyped' = (presses > 0)
    /\ UNCHANGED <<managerVars, requests, broadcasterVars, private, public, dec,
                   setups, asked, presses, crossed, fetched, restored>>

-----------------------------------------------------------------------------
(* The answers' files *)

ViewerKinds == {"PrivateKey", "PublicKey"}

\* Mutant: a company's key is appended, and the one before it read.
PubkeyAppended(company, content) ==
    [pubkey EXCEPT ![company] = IF @ \in {NoFile, Empty} THEN content ELSE @]

SavedPubkey(company, content) == [pubkey EXCEPT ![company] = content]

\* Mutant: likewise the list.
ListAppended(company, content) ==
    [revoke EXCEPT ![company] = IF @ \in {NoFile, Empty} THEN content ELSE @]

SavedRevoke(company, content) == [revoke EXCEPT ![company] = content]

\* The file that an answer of this kind goes to.
Saved(r, content) ==
    /\ pubkey' = IF r.kind = "Masterkey" THEN SavedPubkey(r.for, content) ELSE pubkey
    /\ revoke' = IF r.kind = "revoke" THEN SavedRevoke(r.for, content) ELSE revoke
    /\ private' = IF r.kind = "PrivateKey" THEN content ELSE private
    /\ public' = IF r.kind = "PublicKey" THEN content ELSE public

\* The stages of fs.writeFile, which the data event calls.
WriteStages == {"opening", "opened", "writing"}

Storing == \E i \in DOMAIN requests :
              requests[i].kind = "PrivateKey" /\ requests[i].stage \in WriteStages

Arrives(i) ==
    /\ requests[i].stage = "answered"
    /\ requests[i].kind \in ViewerKinds => Idle
    /\ requests' = [requests EXCEPT ![i].stage = "opening"]
    /\ IF requests[i].kind = "PrivateKey"
       THEN fetched' = requests[i].data /\ restored' = FALSE
       ELSE UNCHANGED <<fetched, restored>>
    /\ UNCHANGED <<managerVars, broadcasterVars, viewerVars, setups, asked, presses,
                   crossed, retyped>>

WriteOpened(i) ==
    /\ requests[i].stage = "opening"
    /\ Saved(requests[i], Empty)
    /\ requests' = [requests EXCEPT ![i].stage = "opened"]
    /\ UNCHANGED <<managerVars, userId, dec, history>>

\* Mutant: opening and writing are one job of the other thread.
SubmittedAtOnce == TRUE

\* The callback of the viewer's opening asks for the write.
MayCallBack == Idle

WriteAsked(i) ==
    /\ requests[i].stage = "opened"
    /\ requests[i].kind \in ViewerKinds => MayCallBack
    /\ requests' = [requests EXCEPT ![i].stage = "writing"]
    /\ UNCHANGED <<managerVars, broadcasterVars, viewerVars, history>>

WriteDone(i) ==
    /\ requests[i].stage = "writing"
    /\ Saved(requests[i], requests[i].data)
    /\ requests' = RemoveAt(requests, i)
    /\ UNCHANGED <<managerVars, userId, dec, history>>

-----------------------------------------------------------------------------
(* cpabe-dec of a cipher under the provider's pubkey *)

DecStart ==
    /\ Idle /\ pubkey[Provider] \notin {NoFile, ErrorPage, Empty}
    /\ dec' = [stage |-> "started", id |-> userId, cipher |-> pubkey[Provider]]
    /\ UNCHANGED <<managerVars, requests, broadcasterVars, userId, private, public,
                   history>>

\* suck_file: without both keys it fails, and execSync throws.
DecRead ==
    /\ dec.stage = "started"
    /\ IF {private, public} \cap {NoFile, ErrorPage, Empty} # {}
       THEN dec' = NotRunning
       ELSE dec' = [stage |-> "read", id |-> dec.id, cipher |-> dec.cipher, key |-> private]
    /\ UNCHANGED <<managerVars, requests, broadcasterVars, userId, private, public,
                   history>>

\* bswabe_dec opens a cipher of the key's generation for the key's id; it makes
\* noise of others.
Noise ==
    <<dec.key.manager, dec.key.made, dec.key.user>>
        # <<dec.cipher.manager, dec.cipher.made, dec.id>>

\* Either is a message, with which the private key is rewritten.
DecWrite ==
    /\ dec.stage = "read"
    /\ private' = dec.key
    /\ dec' = NotRunning
    /\ restored' = (restored \/ Storing)
    /\ UNCHANGED <<managerVars, requests, broadcasterVars, userId, public,
                   setups, asked, presses, crossed, fetched, retyped>>

Next ==
    \/ \E c \in Companies : initializeChannel(c)
    \/ getKeys
    \/ \E u \in Users : TypeUser(u)
    \/ \E i \in DOMAIN requests :
          \/ Handle(i) \/ Answer(i)
          \/ Arrives(i) \/ WriteOpened(i) \/ WriteAsked(i) \/ WriteDone(i)
    \/ DecStart \/ DecRead \/ DecWrite

Spec == Init /\ [][Next]_vars

-----------------------------------------------------------------------------
(* Properties *)

(***************************************************************************)
(* When all answers are saved, the company that initialized the channel    *)
(* last at a key manager encrypts for the keys it now makes, if no two     *)
(* initializations there overlapped (a second press of the button).        *)
(***************************************************************************)
PubkeyCurrent ==
    requests = <<>> =>
        \A m \in Managers \ crossed : \A c \in asked[m] :
            pubkey[c] = [manager |-> m, made |-> generation[m]]

(***************************************************************************)
(* dec.c:240 writes the private key back while fs.writeFile may be storing *)
(* a new one.  The new key is lost only if one does so after the opening   *)
(* and before the writing (the next one then reads the old key there and   *)
(* writes it after), or if its request overlapped with another.            *)
(***************************************************************************)
FetchedKeyKept ==
    /\ "private" \notin crossed /\ ~Storing /\ Idle /\ ~restored
    => private = fetched

(***************************************************************************)
(* README:55: "Once the client has received both keys, they are able to    *)
(* play the encrypted video."  A viewer takes noise for an AES key only if *)
(* its key manager initialized the channel again or another id was typed,  *)
(* in whatever order requests, answers, writes and ciphers come, and       *)
(* although the public key is another key manager's.                       *)
(***************************************************************************)
NoiseNeedsChange ==
    dec.stage = "read" /\ Noise => generation[UserServer] > 1 \/ retyped

(***************************************************************************)
(* requestKey.js:41: the list is asked for while the channel is being      *)
(* initialized, and so may be the one of before, which holds users of that *)
(* time.  It is never older, and an error page only the first time, if no  *)
(* two initializations overlapped.                                         *)
(***************************************************************************)
ListAtMostOneBehind ==
    requests = <<>> =>
        \A m \in Managers \ crossed : \A c \in asked[m] :
            IF revoke[c] = ErrorPage THEN generation[m] = 1
            ELSE revoke[c].made >= generation[m] - 1

=============================================================================
