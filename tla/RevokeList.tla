------------------------------ MODULE RevokeList ------------------------------
(***************************************************************************)
(* The content of a key manager's file revoke_<channel>, as revokeUser,    *)
(* unrevokeUser and generateRevokeString of runServer.js edit it.  The     *)
(* string "0_5_12_" is the sequence of the texts before each "_": the      *)
(* root "0" that generateRevokeString writes, then one id per revocation.  *)
(***************************************************************************)
EXTENDS Naturals, SequencesExt

CONSTANT Root       \* the text "0" that every list starts with

\* Mutant: the file is created empty.
InitialListEmpty == <<>>

InitialList == <<Root>>

\* indexOf("_" + userId + "_") finds an id that follows another one.
InTail(list, id) == \E j \in 2 .. Len(list) : list[j] = id

TailIds(list) == {list[j] : j \in 2 .. Len(list)}

\* Mutant: an id that is in the list is added once more.
RevokedAgain(list, id) == Append(list, id)

\* Mutant: the old string is forgotten.
RevokedOnly(list, id) == <<Root, id>>

Revoked(list, id) == IF InTail(list, id) THEN list ELSE Append(list, id)

Position(list, id) == SelectInSubSeq(list, 2, Len(list), LAMBDA x : x = id)

\* Mutant: postString is lost.
UnrevokedRest(list, id) == SubSeq(list, 1, Position(list, id) - 1)

\* preString + postString around the first occurrence.
Unrevoked(list, id) == RemoveAt(list, Position(list, id))

=============================================================================
