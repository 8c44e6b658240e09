------------------------------- MODULE KeyRing -------------------------------
(***************************************************************************)
(* The ring of AES keys both ends keep: broadcaster js/broad.js and client *)
(* js/receivePacket.js hold the same linked ring of NUM_OF_AES_KEYS nodes, *)
(* each with an id and a key or null.  A node is its id here, and the ring *)
(* a function from ids to keys.                                            *)
(***************************************************************************)
EXTENDS Naturals

CONSTANTS
    NUM_OF_AES_KEYS,    \* configs.NUM_OF_AES_KEYS: nodes of the ring
    NoKey               \* the null of a node that holds no key

\* A ring of one node would null its only key in setAesKeyById.
ASSUME RingAssumption == NUM_OF_AES_KEYS \in Nat /\ NUM_OF_AES_KEYS >= 2

(***************************************************************************)
(* createKeysList counts the nodes from 0.  At length 0 the constructor    *)
(* returns the head instead of the node it was building, so node           *)
(* NUM_OF_AES_KEYS is never linked: the ids are 0 .. NUM_OF_AES_KEYS - 1   *)
(* and the last one's next is the head.                                    *)
(***************************************************************************)
KeyIds == 0 .. NUM_OF_AES_KEYS - 1

\* Mutant: the last node's next is the orphan node NUM_OF_AES_KEYS.
NextIdOrphan(id) == id + 1

NextId(id) == IF id = NUM_OF_AES_KEYS - 1 THEN 0 ELSE id + 1

createKeysList == [id \in KeyIds |-> NoKey]

\* The loop of getAesKeyById and setAesKeyById stops only at an id of the ring.
InRing(id) == id \in KeyIds

getAesKeyById(keysList, id) == keysList[id]

\* Mutant: the pointer moves on before the key is stored.
setAesKeyByIdAfter(keysList, id, newKey) == [keysList EXCEPT ![NextId(id)] = newKey]

\* Store the key and null the following node.
setAesKeyById(keysList, id, newKey) ==
    [keysList EXCEPT ![id] = newKey, ![NextId(id)] = NoKey]

=============================================================================
