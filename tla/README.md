# Encrypted broadcasting with revocation: TLA+ models, checks and proofs

The program broadcasts a video over UDP, encrypted under an AES key that
changes every few seconds. The keys travel over UDP too, encrypted once per
provider with an identity-revocation scheme: a cipher names the user ids that
cannot open it. This directory holds TLA+ modules of the program's own
JavaScript (and of what its command line tools do to the files it exchanges with
them), the TLC configurations that check them, and TLAPS proofs.

Paths below are relative to `src/`; `B/` is `broadcaster/broadcast.nw/js/`, `C/`
is `client/client.nw/js/`, `S/` is `server/server.nw/`.

## 1. Inventory

| part | state it keeps | operations |
|---|---|---|
| Key schedule, `B/broad.js`, `B/broadAes.js` | ring of keys, key in use (`aesKey`, `aesSeq`), `lastKeyIdSent`, `timeStamp`, `lastKeySent`; files `companies/<name>/{pubkey,revoke}_<ch>` | `setup`, the bind callback, the handler of ffmpeg's video packets (`changeKey`, `broadcastAesKey`), `updateRevokeString` and its replies |
| Channel initialization, `B/requestKey.js` | the files `pubkey_<ch>`, `revoke_<ch>` | two concurrent HTTPS requests and their file writes |
| Viewer's reception, `C/receivePacket.js` | ring of keys, playing pointer `aesKey`, expected id `keyId`, write streams, files `aeskey/key.cpabe`, `aeskey/key` | the handlers of the video and key sockets, the write stream's callback (`decrypt`, `setAesKeyById`), the unlink |
| Viewer's keys, `C/requestKey.js` | files `privateKey/{private,public}_<ch>` | `getKeys`, `getPublicKey`, and the start of reception |
| Key manager, `S/runServer.js` | per channel public and master key, private keys, revocation list; `broadcastersList`, `usersList` | `/Masterkey_`, `/PublicKey_`, `/PrivateKey_`, `/revoke_`, `/revo`, `/unrevoke`, `/ajax*` |
| Ports, `database.js`, `configs.js` | none | `getVideoPortById`, `getKeyPortById` |
| Command line tools, `encryption/cpabe-0.11` | none but files | `cpabe-setup`, `-keygen`, `-enc`, `-dec` |
| Scheme, `encryption/libbswabe-0.9` | none | `bswabe_setup`, `_keygen`, `_enc` (`setId`), `_dec`, serialization |
| RTP packets, `*/js/RtpPacket.js` | a packet's header bits | accessors, `setAesSeq`, `getAesSeq` |
| GUI, vendored libraries | - | - |

How they interact. A broadcaster first initializes a channel at each provider's
key manager (HTTPS), then runs `setup`. Each video packet that ffmpeg sends to a
local UDP socket triggers one synchronous handler, which may change the key,
announce a key (an id datagram and a cipher datagram to each provider's key
port) and always sends the re-encrypted packet to each provider's video port.
A change of key also starts one HTTPS request per provider for a new revocation
list, which an asynchronous `fs.writeFile` stores where the next `cpabe-enc`
reads it. A viewer fetches its keys (HTTPS) and, without waiting, listens on the
two ports of its provider.

What is hard, and not tested anywhere in the repository (it has no tests):

* both ends compare nothing but key ids modulo the ring (10 nodes), so a viewer
  that misses messages relies on the emptying of nodes never to use an old key;
* exceptions from `readFileSync` and `execSync` leave a handler half done, and
  the application goes on with the next event;
* files are truncated and filled in two steps while others read them: by
  `fs.writeFile` at the broadcaster, by `writeFileSync` against `sendFile` at
  the key manager, by two write streams on one file at the viewer;
* variables read in a callback may have changed since the request: `keyId` at the
  viewer, `company` at the broadcaster;
* UDP loses and reorders, viewers join late, each program may restart alone;
* user ids are texts in the lists and numbers (`atoi`) in the ciphers.

* providers may share a key manager (`configs.js`: HOT and YES do), and
  initializing a channel makes new keys there for all of them;
* the tools leave each other files, and `cpabe-dec` writes the private key back
  while `fs.writeFile` may be storing a new one;
* the packet accessors compute a header's length in their own way, and both ends
  must agree on it although part of what it is read from is encrypted.

Each of these is an entry of `hazards` in `PROJECT.json`, at its line, with the
property that watches it or the reason there is none.

What makes each part correct:

* key schedule: the key of the video is always the newest or its predecessor;
  the older-key test never skips an announcement; no key is adopted that was not
  announced to every provider; ciphers come to carry the current lists;
* reception: a key is stored under its own id; no packet is decrypted under a
  wrong key; a viewer whose video runs is never interrupted; the event loop never
  hangs; a revoked user's ring never holds a key not granted to it;
* key manager: a list that is sent covers everyone revoked; revoking and
  unrevoking have the effect their answers claim; keys sent are current;
* provisioning: when the answers are in, a company encrypts for the keys its key
  manager makes, and a viewer uses the key that arrived last;
* tools and scheme: a key opens exactly the ciphers that do not list its id;
* packets and ports: no two streams share a port, VLC gets what ffmpeg sent, and
  no byte of the video goes out in clear.

## 2. Modules

| module | models | state and actions |
|---|---|---|
| `KeyRing` | `createKeysList`, `getAesKeyById`, `setAesKeyById` (both ends) | operators only; a node is its id, the ring a function. The constructor links nodes 0..N-1: the N+1st object is built and dropped |
| `Broadcaster` | key schedule | one action per handler. `ChangeKey`, `ResendKey`, `OnlyVideo` are the three branches of the video handler, throws included; `OnRevokeData/Written/Error` are a reply's steps; `Restart` |
| `Client` | viewer | `OnVideo`, `OnKeyId`, `OnCipher`, the write stream's `StreamOpened/Written/Finished` (the last with `cpabe-dec`, `decrypt` and `setAesKeyById`), `KeyFileUnlinked`, `KeyFileSaved` |
| `KeyDistribution` | one broadcaster, one viewer, the network | instances of both; `outbox` goes into two queues; `Faults` names what may go wrong, `MaxLosses` bounds what `Lose` drops |
| `RevokeList` | the string surgery of `revokeUser`, `unrevokeUser` | operators on sequences of id texts |
| `KeyManager` | the key manager | one action per request; `writeFileSync` is two steps (truncate, write), `sendFile` three (stat, open, read); the tools a handler waits for truncate and write each file too (`Masterkey`, `SetupWritesPublic`, `SetupOpensMaster`, `SetupWritesMaster`; `PrivateKey`, `KeygenWrites`); `Crash` is a kill between any two of these, and a start |
| `RevocationPolicy` | abstract specification: per channel, a set of users | `RevokeUser`, `UnrevokeUser`, and `Forget`, which an initialization and a kill during a write amount to |
| `Revocation` | key managers' lists and a broadcaster | an instance of `Broadcaster`, whose replies carry the lists |
| `Provisioning` | `initializeChannel`, `getKeys`, `getPublicKey`, the key managers' part in them, and `cpabe-dec` against the files they store | HTTPS requests go from sent to handled to answered, and with the data event (`Arrives`) through `fs.writeFile`, for each of the four files: `WriteOpened`, `WriteAsked`, `WriteDone`; `cpabe-dec` is `DecStart`, `DecRead`, `DecWrite` |
| `Ports`, `RtpPacket` | `database.js`; the accessors of `RtpPacket.js` that the handlers call | operators; a packet is the sequence of its bytes |
| `Wire` | the way of ffmpeg's packets through broadcaster and viewer to VLC | `Broadcast`, `Stop`, `ChangeKey`, `OnFfmpegMessage`, `OnVideoMessage`, `Gone` |
| `Scheme` | `core.c` and `misc.c` of libbswabe: setup, keygen, enc, dec, serialization | operators |
| `CpabeTools` | the four command line tools and the files between them | `Setup`, `Keygen`, `WriteKey`, `Enc`, `Dec`, `TakeKey` |
| `SequenceLemmas` | what `RemoveAt` returns, and sequences that are appended to, shortened, replaced or renumbered | lemmas |
| `BroadcasterProofs`, `ClientProofs`, `CpabeToolsProofs`, `KeyDistributionProofs`, `KeyManagerProofs`, `ProvisioningProofs`, `WireProofs` | proofs about the modules they name | lemmas and theorems |
| `MC*` | instances for TLC | |

Modelling decisions worth knowing:

* Time: `Broadcaster` counts ticks since the last change and the last
  announcement, up to one above the interval they are compared with. The real
  ratio `CHANGE_KEY_INTERVAL / SEND_KEY_INTERVAL` is 4.
* Keys are model values; a cipher is a record of the key and the ids it was made
  with, and opens unless the user's id is among them. `CpabeTools` is what
  justifies this: there the tools compute it.
* `Scheme` writes an element of the groups as the exponent of their generator, so
  that a product is a sum and a pairing a product. Everything `element_random`
  draws is a parameter. The quotient in `bswabe_dec` is linear in each draw
  and no product in it takes more than three of setup's, one of keygen's and one
  of enc's, so it is constant for all draws if it is for draws of 1 with up to as
  many 0s: the run's `MCDraws` are those, and its prime of 11 keeps every `id - ID_i`
  invertible. The proof takes any prime and any draws. Both curves and the hardness of
  anything are outside.
* A revocation string is the sequence of the texts before its `_`s. A truncated
  file is the empty sequence. `Overwrite` is a write at offset 0. An error page
  that a server answers, and that the broadcaster stores as a list, is a value of
  its own. What the shell makes of it as an argument depends on its text: in
  express' development mode the page can end up as the id 0 followed by words
  that `cpabe-enc` ignores, so that nobody is revoked; otherwise shell or tool
  fail. `PageIsArgument` says which; the runs take the failing one, which leaves
  the handler half done, and the proofs cover both. A list over a page keeps the
  page's tail, and is read as the page was.
* `var company` at `B/broad.js:285` belongs to the function: by the time replies
  arrive it names the last enabled provider. `Company == NumProviders`.
* `randomBytes(16)` never repeats a key that is still anywhere (`FreshKey`). Which
  key is the first makes no difference, so one is taken.
* In `KeyDistribution` datagrams wait for the replies of key managers unless
  servers are slow (`Arriving`): the two commute.
* `Wire` keeps a datagram until it is `Gone`, since a broadcast reaches everyone who
  listens, and lets providers share a broadcast address, as `configs.js` does.
  `aes-128-ctr` adds a stream's bytes that depend on the key, the payload's place
  being all that matters.
* An HTTPS answer is one `data` event in `Provisioning`. The program would write each
  event's data over the one before; keys and lists are a few KB, which one TLS record
  holds. There a key manager's handlers are one step, too: what an answer
  finds while a file is being rewritten is in `KeyManager`.
* History variables the programs do not keep and the properties need: `streams[i].for`
  and `overlapped` in `Client` (a key datagram came while the disk was busy);
  `sends[i].since`, `sends[i].overtaken` and `cut` in `KeyManager` (who has been listed
  since the request, or the master key's generation at it; whether the same user's key
  was asked for again; whose list a kill has emptied); `sealed` in `CpabeTools`, and in `Provisioning`
  the ones listed under `history`.
* Every unbounded counter has its bound as a named constant: `MaxFetches` (requests
  under way, or presses of the button), `MaxStreams`, `KeyCap`, `VideoCap`,
  `MaxLosses`, `MaxSetups`, `MaxSends`, `MaxRequests`, `MaxDatagrams`, `Mtu`.

## 3. Runs

Passing runs:

| run | question | bounds |
|---|---|---|
| `broadcaster` | the schedule with two providers, truncated and missing files, error pages, throws, restarts, everything interleaved | ring of 4, change 2, send 1, 4 requests, 3 keys |
| `client` | any datagrams in any order, also during file writes, for a user that is revoked for one of the keys | ring of 3, 2 keys, 2 streams |
| `distribution` | schedule and viewer together; the video may stall and the key managers answer late | ring of 4, change 3, send 1, queues of 4 and 2, 2 requests |
| `distribution_heals` | a viewer that joins late, loses a datagram, or whose broadcaster restarts, never hangs, plays again and again and finally under the right keys only | ring of 3, the real ratio: change 4, send 1; 1 loss (an id, a cipher or a video packet), queues of 2 and 1 |
| `key_manager` | what `/revoke_`, `/PrivateKey_` and `/unrevoke` answer while lists are edited and truncated, keys are made again, a channel is initialized again and the server is killed; refinement of `RevocationPolicy` | 2 ids, private keys for 1 of them, 1 channel, 2 setups, 2 answers under way |
| `revocation` | a list's changes reach the ciphers | 1 provider, 1 user to revoke, 2 requests |
| `wire` | packets of two channels keep apart, come out as they went in, and carry nothing in clear | channels 1 and 2, `SERVER_ID`s 1 and 3, 2 keys, 3 packets (plain, with two CSRCs, with an extension), 3 datagrams |
| `tools` | a key opens exactly the ciphers that do not list its id, over all the files in between | 2 ids, 3 lists, 2 texts, all draws; an element holds more triples than a text has |
| `provisioning` | which keys are where after the answers have come in any order, while `cpabe-dec` rewrites the private key | 3 companies on 2 key managers, 2 ids, 2 initializations, 2 presses, 3 requests |

What the properties say is in the comment before each. The ones on which most
depends: `UsedOnlyAfterFollowing` (a key comes into use only after its successor has
been announced, throws included), `NoBlackout` (which rests on it and on the viewer's
emptying of nodes), `HungOnlyIfOverlapped` and `SavedUnderItsId` (what `keyId`, read too
late, can do), `AnswerCoversRevoked` (a shortened list is never one that forgets
somebody), `UnrevokeTakesEffect`, `FetchedKeyKept`.

Why these bounds: the ring's logic depends on an id, its successor and the wrap,
all present from 3 nodes on, and the proofs about broadcaster and viewer cover every
length; at most two keys of the schedule are alive besides what a viewer still
holds; files are shared by at most two concurrent writers in the code. The queues
hold the datagrams of one change of key, and twice that where it matters. In
`distribution` a key datagram is taken up when the disk is idle (a cipher is handled
in milliseconds, announcements are seconds apart); `"slow disk"` in `Faults` lifts
this, and `client` never assumes it. `AesKeys` in the `KeyDistribution` instances is
large enough for `FreshKey` always to find a key (TLC would stop with an error at a
`CHOOSE` without one). At the key manager an answer can be overtaken by a second
request of the same user and by an initialization, each with its own answer, at
every stage; the proofs cover any number of answers and ids. Two channels and providers are enough for ports,
of which two streams share one or do not.

`CHECK_DEADLOCK FALSE` is set in `client` only: two write streams for one id can
really end the viewer in an endless search (`hung`), after which nothing runs. The
same run shows that this takes a key datagram that came while the disk was busy
(`HungOnlyIfOverlapped`).

Violation runs, each a disagreement between the code and what the repository
says of it (`findings` in `PROJECT.json` quotes both):

| run | what happens |
|---|---|
| `distribution_restart` | a restarted broadcaster starts again at id 0; a viewer that still holds a key under an id of the new run ignores the new cipher as "already obtained" and decrypts under the old key |
| `distribution_hang` | two callbacks pending: the first resets `keyId` to -1, the second looks for node -1 for ever |
| `revocation_two` | with two providers both replies go to one provider's file: the other's revocations never reach its ciphers |

Other behaviour of the same kind, which the constants of the modules reproduce:

* `KeyDistribution` with `MaxLosses` above 0 violates `RightKey`: a node that no
  video packet of its cycle emptied keeps its key, and the next cycle's is ignored
  (`Heals` says that this ends). With `Faults = {"reorder"}` it violates `NoBlackout`:
  a late packet of the previous key empties the node of the key in use; with
  `{"late join"}` it violates `KeptUntilUsed`: a late joiner got the next key first, and
  the resend of the current one empties it.
* With two providers, `Faults = {"slow server"}`, `MaxStreams = 2` and `MaxFetches = 4`
  (a change of key while the replies of the one before are under way), the announcement of a key can
  reach the first provider and throw at the second; the retry draws another key for
  the same id, which the first one's viewers ignore. They decrypt to noise (`RightKey`).
  This is why `UsedOnlyAfterFollowing` speaks only of the providers before the
  first failing one, and why the comment at `B/broad.js:98` is not true of the rest.
* `KeyManager` with `Ids = {"5", "05"}` violates `UnrevokeTakesEffect`: they are one
  user in the ciphers (`atoi`) and two in the list. A kill between truncating and
  writing leaves a list without its root; the next revoked id becomes its head, which
  `indexOf("_id_")` never finds. `UnrevokeTakesEffect` leaves out such lists (`cut`), and
  in the refinement the unrevocation is a stutter.
* `Wire` with a `SERVER_ID` of 4 violates `NoPortShared`: 4 (configured, not enabled) of
  a channel has the ports of 1 of the next.
* A broadcaster restarted while a revocation file is truncated throws in the bind
  callback before `StartVideo`, and never plays (`phase = "failed"`; `Undisturbed`
  excludes it).
* A ratio of the intervals of 2 does not guarantee that a late viewer ever plays;
  the real 4 does.
* In `Provisioning`, HOT and YES share a key manager: when one of them initializes the
  channel, the other's `pubkey` is stale (`PubkeyCurrent` speaks of the one that asked
  last). The id in the form is read anew for every cipher and may differ from the one
  the key was asked for; after another initialization an old private key decrypts
  to noise; what a server answers in case of error is saved as a key or list. The
  private key that arrived last is lost when `cpabe-dec` writes the old one back
  between `fs.writeFile`'s opening and its writing.
* In `Wire`, an extension's length always comes out as 0
  (`RtpPacket.js:138` joins the bytes with `&`), and CSRCs count one byte each. What is
  taken for the payload then begins inside the header, never after it
  (`PayloadEncrypted`). ffmpeg sends neither. A payload above 3000 bytes would be left
  in clear by `setPayload`; ffmpeg's packets have at most 1472.

### Fairness

`KeyDistribution!FairSpec`: ffmpeg reads the file at its native rate, so video
packets keep coming (`WF OnVideoMessage`), the clock goes on (`SF Tick`: strong,
because the model's clock waits for queues that fill again and again, and a real
clock does not), what is under way arrives or is lost, and disks and servers
finish what they began. Losses and restarts are never required to happen. Losses
stop at `MaxLosses`; that restarts stop is the assumption `Undisturbed` of `Heals`.
`Revocation!Spec` assumes that servers answer and that the oldest request is served,
that every tick sees a video packet, and that a file is written within a tick.
Without the last assumption a broadcaster that finds its file truncated at every
change announces nothing, for ever.

## 4. Proofs

All of them hold for every value of the constants that the modules' named assumptions
allow, and for any number of whatever the runs bound. Each module has an inductive
invariant `IInv`, one lemma per action that preserves it, and the theorems from it.

`BroadcasterProofs` (every ring of at least 2 nodes, all intervals, any number of
providers, any initial files and replies) proves

* `TypeCorrect`: `Spec => []TypeOK`;
* `InUse`: `Spec => []InUseOrNext`;
* `NoSkip`: `Spec => []NoAnnouncementSkipped`;
* `AdoptedAnnounced`: `Spec => AdoptedOnlyIfAnnounced`;
* `UsedAfterFollowing`: `Spec => UsedOnlyAfterFollowing`.

`IInv` is `TypeOK`, `OpenedExists`, `LastSentNear` and `InUseOrNext`. `InUseOrNext` alone
is inductive but says nothing of `lastKeyIdSent`; `NoAnnouncementSkipped` alone is not
inductive, because the next state's test compares with ids two nodes ahead;
`LastSentNear` (what was announced last is -1, the key in use or its successor) gives
it, and is preserved because `LastSentFor` resets at id 0, where the comparison
`last > seq + 1` would otherwise meet the wrap. `OpenedExists` is needed for the type
of a file after a write: a reply writes to a file its own opening created. The
assumption "for any two keys there is a third" stands for `randomBytes`.

`ClientProofs` (every ring, any ciphers in any order, any number of write streams)
proves

* `TypeCorrect`: `Spec => []TypeOK`;
* `OnlyGranted`: `Spec => []OnlyGrantedKeys`;
* `SearchEnds`: `Spec => []HungOnlyIfOverlapped`;
* `StoredUnderItsId`: `Spec => SavedUnderItsId`.

To the properties `IInv` adds `OutputGoes` (an output file is there only while its unlink
is under way) and `OneAtATime`: as long as no key datagram came while the disk was busy,
there is at most one stream, it is for the expected id, and what it has written is in
`key.cpabe`. That is the argument why the search ends: `keyId` is still the id the
stream was opened for when its callback reads it.

`KeyManagerProofs` (any channels, ids, answers under way, initializations and kills)
proves

* `TypeCorrect`: `Spec => []TypeOK`;
* `AnswersCover`: `Spec => []AnswerCoversRevoked`;
* `PrivateCurrent`: `Spec => []PrivateKeyCurrent`;
* `UnrevokeEffective`: `OneTextPerNumber` implies `Spec => UnrevokeTakesEffect`;
* `KeepsPolicy`: `OneTextPerNumber` implies `Spec => ImplementsPolicy`.

`OneTextPerNumber` (no user is typed in two ways, nor as the root) is what the forms
would have to ensure; with `"5"` and `"05"` both statements are false. The invariant's
core is `RevokeAnswerFine`: whoever was listed at an answer's request and has stayed so
stands in the list, and, once the size has been taken, within the list's first `size`
texts, or the size is 0. Appending does not disturb this; unrevoking somebody moves the
texts after him down by one, which keeps them within the same number; a list read while
it is truncated is empty. `TailDistinct` (no id twice behind the head, which `indexOf`
ensures) is why one removal suffices. `PrivateAnswerFine` says that the generation of a
private key on disk never falls behind the one at a request, and that the file is
empty only if the same user's key has been asked for again since. For the refinement,
`RevokedStands` and `UnrevokedStandsFor` say which set a list stands for after each
edit; the stutters are an id typed as the root that becomes the head of a list without
root, and an unrevocation of such a list's head.

`WireProofs` proves `PortsKeptApart` (`Spec => []NoPortShared`), `ForwardedAsSent`
(`Spec => []ForwardedIntact`) and `NothingInClear` (`Spec => []PayloadEncrypted`), for any
channels, packets, number of keys and key streams, if the `SERVER_ID`s are within 1..3;
the bound is sharp. `NothingInClear` also takes `Mtu <= MaxPayload` (the 3000 bytes of
`setPayload`) and that packets hold the header they announce. `IInv`: the ids in use are
ids, every datagram carries what `Sent` makes of its packet on its own stream's port, and
`ForwardedIntact`. The argument for the latter is that both ends compute the payload's
place from bytes that neither of them changes.

`KeyDistributionProofs` is about broadcaster, viewer and network together, for every
ring, interval, number of providers, set of users and queue length. It uses the two
proofs above as they are: `BP` and `CP` are their instances, and `EndsInv` (both ends'
`IInv`, and the types of what is under way, `AirOK`) is kept by every step whatever goes
wrong. From it follows `TypeCorrect`: `Spec => []TypeOK`, with all faults. The others take
a hypothesis on the constants, and without it each is false, as section 3 says:

* `Orderly`: nothing is lost or overtaken, the disk is done before the next cipher comes,
  the broadcaster is not started again, and the viewer is one of the last provider.
  Then `DecryptsWithTheRightKey` (`Spec => []RightKey`), `KeysUnderTheirIds`
  (`Spec => []SavedUnderItsId`) and `LoopAlwaysEnds` (`Spec => []NeverHung`). The video may stall,
  the key managers may answer late and anything, and the viewer may join at any time.
  The last provider's, because when the announcement throws at a later provider the
  earlier ones' viewers hold a dead key under the id that the retry uses.
* `Present`: `Orderly`, the viewer is there from the start and stands in no list, and
  the ring has at least 3 nodes. Then `NewestKeyIsKept` (`Spec => KeptUntilUsed`) and
  `PlaysOn` (`Spec => NoBlackout`). A late joiner, and a viewer that is revoked and
  unrevoked, gets keys in an order in which the emptying of nodes takes the newest;
  in a ring of two the node after the newest is the one in use.

The constants of the run `distribution` satisfy both. The invariant `Link` relates the ring to
the broadcaster's keys. A node holds the key in use, the newest, or a key that the next
video packet empties (`SlotsRight`); every video packet under way is under the key in
use, and when a change of key is due none is (`VideoInUse`, `DueIsQuiet`); a cipher
under way follows its id, and a write stream is for its cipher's id (`KeyAirPairs`,
`StreamPairs`). The interesting step is the change of key: the new id's node at the
viewer must be empty before the new cipher arrives, which needs that the pointer has
moved on by then (`PointerFollows`). `Kept` adds that a viewer that gets everything
has the key in use and the newest or will have them, in this order (`InUseReaches`,
`NewestReaches`), and that no list and no cipher names it.

`ProvisioningProofs` proves, for any companies, key managers, users and bounds,

* `PubkeyIsCurrent`: `Spec => []PubkeyCurrent`;
* `ListIsAtMostOneBehind`: `Spec => []ListAtMostOneBehind`;
* `NoiseOnlyAfterChange`: `Spec => []NoiseNeedsChange`;
* `FetchedKeyIsKept`: `Spec => []FetchedKeyKept`.

Each rests on a statement about the requests that are under way. `Setup`: unless
initializations have overlapped at a key manager, there is at most one request of each
kind at it, and the public key that an answer carries is the one that it holds; a list may
be read before the handler that makes the new keys, hence "at most one behind" what is
`Coming`. `Playing`: as long as the channel has been initialized once and no
other id was typed there is only one private key (`OneKeyOnly`) for a request, a file
or `cpabe-dec` to hold. `KeyStored`: unless two writes have overlapped, an `fs.writeFile` that has
been opened stores what arrived last, and `cpabe-dec` holds an older key only if
it has read the file before, in which case `restored` records its writing back.

`CpabeToolsProofs` proves `OpensExactly`: `Spec => OpensUnlessListed`, for every prime order,
every set of draws, and all ids, lists and texts, if ids differ by less than the order
(they are ints, it has 160 bits) and a text fits into an element. Its `IInv` says that
the files are those of one setup: each is what its tool made with some draws
(`FilesFrom`), and the cipher is of the text and list that `sealed` records. The
argument, from below:

* Numbers: what is not 0 modulo a prime has an inverse (`InverseExists`), since the
  least positive combination of the two divides both.
* Sums: the fold of the community modules is a sum (`SummedTo`) and respects
  congruence (`SumCongruent`).
* Texts and files: a text survives its decimal triples and whatever follows them in the
  element (`TextComesBack`); keys and ciphers survive their files (`PubComesBack`,
  `MskComesBack`, `PrvComesBack`, `CipherComesBack`).
* Scheme: each part of a cipher for another id gives `w * d1 * t_i` in `A4` (`Part`), `A3` is
  the mask and `w * d1` times the sum of the `t_i`, so the quotient is the mask's inverse
  (`DecOpens`); a part for the key's own id makes `bswabe_dec` return 0, and
  `Listed` says that this is an id of the list and none that equals it modulo the
  order.

Induction over numbers and over subsets is needed on the way. The library's induction
theorems take an operator, so `AllNumbers` and `AllSubsets` state it for a set,
from the well-foundedness of `<` on the naturals.

Only model-checked: liveness (`Heals`, `RevocationsReachCiphers`, `CiphersGoOn`), which under
fairness is out of the prover's reach.

## 5. Not modelled

* `FULL_ENCRYPTION = 0` at the viewer (keys in clear; `FULL_ENCRYPTION` is 1 in
  `configs.js`), and `NO_ENCRYPTION`, which has no keys.
* `broadcastersList` and `usersList` of the key manager, shown by its page.
* The accessors of `RtpPacket` that nothing calls.
* The sockets of announcements, which are never closed, and the length of a cipher,
  which grows with the revoked ids and must fit into a datagram.
* Security of the scheme: what a revoked user could compute is no property of the
  program's steps.
* The GUI and the start of ffmpeg and VLC; debugging leftovers (`B/MyRtpPacket.js`,
  `B/receivePacket.js`, `B/recieveDecrypted.js`, `changed files/`).
* Vendored code: gmp, pbc, node_modules, bootstrap, jquery. It makes up nearly all
  the lines of the repository; of the program's own, which are a few thousand, the
  models cover the part that changes state. What they need of a library is modelled
  from its use: `sendFile`'s three steps and `fs.writeFile`'s two. pbc's inverse and
  reading of bytes are modelled from its code (`montfp.c`, `fieldquadratic.c`).
* What a client makes of a public key that it is sent while `cpabe-setup` rewrites it
  (empty, or the new one: `KeyManager` models both, no property speaks of it), and
  of a public and a master key of which a kill has left only the first new.
* The parts of cpabe and libbswabe left from the original attribute-based scheme
  (policy language, `core.c` 439-618 and 916-1281), which nothing calls.

## 6. Plan

Done so far: the key schedule, the viewer and their composition; the key manager with
its refinement; the way of a revocation to the ciphers; provisioning; packets and
ports; the tools and the scheme; proofs for all of them except `Revocation`, whose
properties are liveness.

1. `KeyDistribution` with viewers of different providers.
2. `Provisioning` over `KeyManager` instances instead of its own handlers.
3. `FULL_ENCRYPTION = 0` at the viewer, where key and id come from one socket.
