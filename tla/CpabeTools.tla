------------------------------ MODULE CpabeTools ------------------------------
(***************************************************************************)
(* The command line tools of cpabe-0.11 over their files: cpabe-setup and  *)
(* -keygen at a key manager, -enc at a broadcaster, -dec at a viewer.      *)
(***************************************************************************)
EXTENDS Scheme

CONSTANTS
    UserIds,        \* ids a private key is made for
    Lists,          \* the numbers (atoi) in a revocation string, in order
    Texts,          \* contents of the key file, as sequences of bytes
    Capacity,       \* bytes of an element of GT
    Leftovers,      \* bytes the memory after an allocated string may hold
    Draws(_)        \* what element_random may give to each of a set of names

SetupDraws == {"v", "v1", "v2", "w", "h", "alpha", "beta", "a1", "a2"}
KeygenDraws == {"d1", "d2", "z1", "z2"}
EncDraws(ids) == {"s1", "s2"} \cup {ToString(i) : i \in DOMAIN ids}

Bytes == 0 .. 255

\* Ids are ints, of 32 bits; the order has 160.  Every text fits into an element.
ASSUME CpabeToolsAssumption ==
    /\ UserIds \subseteq Nat \ {0} /\ Lists \subseteq Seq(Int)
    /\ \A id \in UserIds, ids \in Lists : \A i \in DOMAIN ids :
          id - ids[i] \in -(Order - 1) .. Order - 1
    /\ Capacity \in Nat /\ Leftovers \subseteq Bytes /\ Texts \subseteq Seq(Bytes)
    /\ \A text \in Texts : 3 * Len(text) + 1 <= Capacity
    /\ \A names \in {SetupDraws, KeygenDraws} \cup {EncDraws(ids) : ids \in Lists} :
          Draws(names) \subseteq [names -> Int]
    /\ NoMessage # Garbage
    /\ {NoMessage, Garbage} \cap [1 .. Capacity -> Bytes] = {}

VARIABLES
    public, master, private,    \* files of elements
    userId,                     \* the id of the private key
    key,                        \* the broadcaster's js/companies/<name>/aeskey/key
    cipher,                     \* key.cpabe
    output,                     \* the viewer's js/aeskey/key
    sealed                      \* history: the text and the numbers of the cipher

vars == <<public, master, private, userId, key, cipher, output, sealed>>
keyFiles == <<public, master, private, userId>>

NoFile == <<>>

Init ==
    /\ public = NoFile /\ master = NoFile /\ private = NoFile /\ userId = 0
    /\ key = NoFile /\ cipher = NoFile /\ output = NoFile
    /\ sealed = [text |-> <<>>, ids |-> {}]

-----------------------------------------------------------------------------
(* A text as an element: three digits per character, ended by a zero byte *)

Digits(byte) == <<48 + byte \div 100, 48 + ((byte \div 10) % 10), 48 + (byte % 10)>>

readFromFile(text) == FlattenSeq([i \in DOMAIN text |-> Digits(text[i])]) \o <<0>>

\* element_from_bytes takes as many bytes as an element has, the string's or not.
element_from_bytes(string, leftover) ==
    [i \in 1 .. Capacity |-> IF i <= Len(string) THEN string[i] ELSE leftover]

\* strlen, then every three digits of message a byte.
writeToFile(message) ==
    LET ends == {i \in DOMAIN message : message[i] = 0}
        strlen == IF ends = {} THEN Len(message) ELSE Min(ends) - 1
    IN [j \in 1 .. strlen \div 3 |->
            100 * (message[3 * j - 2] - 48) + 10 * (message[3 * j - 1] - 48)
                + (message[3 * j] - 48)]

-----------------------------------------------------------------------------
(* The tools *)

Setup ==
    /\ public = NoFile
    /\ \E draw \in Draws(SetupDraws) :
          /\ public' = bswabe_pub_serialize(bswabe_setup(draw).pub)
          /\ master' = bswabe_msk_serialize(bswabe_setup(draw).msk)
    /\ UNCHANGED <<private, userId, key, cipher, output, sealed>>

Keygen(id) ==
    /\ public # NoFile /\ private = NoFile
    /\ \E draw \in Draws(KeygenDraws) :
          private' = bswabe_prv_serialize(
                        bswabe_keygen(bswabe_pub_unserialize(public),
                                      bswabe_msk_unserialize(master), id, draw))
    /\ userId' = id
    /\ UNCHANGED <<public, master, key, cipher, output, sealed>>

\* The broadcaster writes the AES key's text.
WriteKey(text) ==
    /\ key = NoFile /\ cipher = NoFile
    /\ key' = text
    /\ UNCHANGED <<keyFiles, cipher, output, sealed>>

\* Without -k the input is unlinked.
Enc(ids) ==
    /\ public # NoFile /\ key # NoFile
    /\ \E leftover \in Leftovers, draw \in Draws(EncDraws(ids)) :
          cipher' = bswabe_cph_serialize(
                        bswabe_enc(bswabe_pub_unserialize(public),
                                   element_from_bytes(readFromFile(key), leftover),
                                   ids, draw))
    /\ key' = NoFile
    /\ sealed' = [text |-> key, ids |-> ToSet(ids)]
    /\ UNCHANGED <<keyFiles, output>>

\* A message rewrites the private key too; the cipher is unlinked in any case.
Dec ==
    /\ private # NoFile /\ cipher # NoFile
    /\ LET prv == bswabe_prv_unserialize(private)
           msg == bswabe_dec(prv, bswabe_cph_unserialize(cipher), userId)
       IN IF msg = NoMessage THEN UNCHANGED <<private, output>>
          ELSE /\ output' = IF msg = Garbage THEN Garbage ELSE writeToFile(msg)
               /\ private' = bswabe_prv_serialize(prv)
    /\ cipher' = NoFile
    /\ UNCHANGED <<public, master, userId, key, sealed>>

\* The viewer reads the key and unlinks its file.
TakeKey ==
    /\ output # NoFile
    /\ output' = NoFile
    /\ UNCHANGED <<keyFiles, key, cipher, sealed>>

Next ==
    \/ Setup \/ Dec \/ TakeKey
    \/ \E id \in UserIds : Keygen(id)
    \/ \E text \in Texts : WriteKey(text)
    \/ \E ids \in Lists : Enc(ids)

Spec == Init /\ [][Next]_vars

-----------------------------------------------------------------------------
(***************************************************************************)
(* What Client and KeyDistribution take for granted of ciphers: whatever   *)
(* is drawn, cpabe-dec writes the text that was encrypted, character by    *)
(* character, unless the key's id is among the cipher's, and then leaves   *)
(* the output alone.  It does so however often it has rewritten the        *)
(* private key, and also when one id occurs twice (the list's head and the *)
(* empty piece after its last "_" are both 0).                             *)
(***************************************************************************)
OpensUnlessListed ==
    [][Dec => output' = IF userId \in sealed.ids THEN output ELSE sealed.text]_vars

=============================================================================
