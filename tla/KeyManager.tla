------------------------------ MODULE KeyManager ------------------------------
(***************************************************************************)
(* A provider's key manager, runServer.js: one HTTPS server, the key files *)
(* it has cpabe-setup and cpabe-keygen write, and one revocation file per  *)
(* channel.                                                                *)
(*                                                                         *)
(* Handlers run one at a time on the main thread, which waits for the      *)
(* files they write and the tools they run: writeFileSync and the tools    *)
(* first truncate a file, and only then write it.  Answers do not: express'*)
(* sendFile asks for the file's size and reads that many bytes of it on    *)
(* other threads, between and during the handlers that follow.  Ids are    *)
(* texts of equal length, so that a number of bytes is a number of ids.    *)
(***************************************************************************)
EXTENDS RevokeList, Integers

CONSTANTS
    Channels,
    Ids,            \* texts typed as a user id, Root perhaps among them
    Number,         \* atoi: the user number cpabe-keygen and -enc take a text for
    NoFile, ErrorPage, NoId,
    Subscribers,    \* bound on the ids a private key is asked for
    MaxSetups,      \* bound on initializations of a channel
    MaxSends        \* bound on answers under way

ASSUME KeyManagerAssumption ==
    /\ Number \in [Ids \cup {Root} -> Nat]
    /\ Subscribers \subseteq Ids
    /\ MaxSetups \in Nat
    /\ MaxSends \in Nat
    /\ NoId \notin Ids
    /\ NoFile \notin Seq(Ids \cup {Root}) \cup Seq(Nat)

VARIABLES
    generation,     \* how often cpabe-setup has drawn keys for a channel
    public,         \* keys/pubkeys/public_<ch>: the generation it holds
    master,         \* keys/masterkeys/master_<ch>, likewise
    privateKeys,    \* private_<ch>_<id>: the master key's generation it is made from
    revokeFile,     \* keys/revokeStrings/revoke_<ch>
    writing,        \* the writeFileSync the main thread is in, or Idle
    tool,           \* the child process execSync waits for, or NoTool
    sends,          \* answers sendFile has not finished
    response,       \* the answer to /revo or /unrevoke of this step
    delivered,      \* the file sent in this step
    cut             \* history: the channels whose list a kill has emptied

keyFiles == <<generation, public, master, privateKeys>>
files == <<keyFiles, revokeFile>>
main == <<writing, tool>>
vars == <<files, main, sends, response, delivered, cut>>

Idle == [op |-> "idle"]
NoTool == [op |-> "none"]
Nothing == [kind |-> "nothing"]
NoResponse == [op |-> "none"]

Init ==
    /\ generation = [ch \in Channels |-> 0]
    /\ public = [ch \in Channels |-> NoFile]
    /\ master = [ch \in Channels |-> NoFile]
    /\ privateKeys = [ch \in Channels |-> [id \in Ids |-> NoFile]]
    /\ revokeFile = [ch \in Channels |-> NoFile]
    /\ writing = Idle
    /\ tool = NoTool
    /\ sends = <<>>
    /\ response = NoResponse
    /\ delivered = Nothing
    /\ cut = {}

NoAnswer == response' = NoResponse /\ delivered' = Nothing

\* A handler, or the callback of a file operation, may run.
MainIdle == writing = Idle /\ tool = NoTool

-----------------------------------------------------------------------------
(* res.sendFile *)

\* The list as the operator's last completed or current request leaves it.
ListOf(ch) ==
    IF writing # Idle /\ writing.channel = ch THEN writing.list ELSE revokeFile[ch]

\* The ids a list stands for; one that has lost its root starts with an id.
StoodFor(list) ==
    IF list \in {NoFile, <<>>} THEN {}
    ELSE IF list[1] = Root THEN TailIds(list) ELSE ToSet(list)

(***************************************************************************)
(* A new answer.  since and overtaken are history the program does not     *)
(* keep: the ids listed from the request on without a break, and for a     *)
(* private key the master key's generation at the request, and whether the *)
(* same user's key has been asked for again.                               *)
(***************************************************************************)
Send(kind, ch, id, since) ==
    [kind |-> kind, channel |-> ch, user |-> id, stage |-> "asked", size |-> 0,
     since |-> since, overtaken |-> FALSE]

Content(s) ==
    CASE s.kind = "revoke" -> revokeFile[s.channel]
      [] s.kind = "public" -> public[s.channel]
      [] s.kind = "private" -> privateKeys[s.channel][s.user]

\* An unrevoked id is no longer listed without a break.
Unlisted(ss, ch, ids) ==
    [i \in DOMAIN ss |->
        IF ss[i].kind = "revoke" /\ ss[i].channel = ch
        THEN [ss[i] EXCEPT !.since = @ \ ids] ELSE ss[i]]

Overtaken(ss, ch, id) ==
    [i \in DOMAIN ss |->
        IF ss[i].kind = "private" /\ ss[i].channel = ch /\ ss[i].user = id
        THEN [ss[i] EXCEPT !.overtaken = TRUE] ELSE ss[i]]

\* What the client gets.
Delivered(s, data) ==
    [kind |-> s.kind, data |-> data, since |-> s.since, overtaken |-> s.overtaken]

\* fs.stat: without a file the answer is an error page.
SendStat(i) ==
    /\ sends[i].stage = "asked"
    /\ LET content == Content(sends[i]) IN
       IF content = NoFile
       THEN /\ delivered' = Delivered(sends[i], ErrorPage)
            /\ sends' = RemoveAt(sends, i)
       ELSE /\ sends' = [sends EXCEPT ![i].stage = "sized", ![i].size = Len(content)]
            /\ delivered' = Nothing
    /\ response' = NoResponse
    /\ UNCHANGED <<files, main, cut>>

\* stat's callback opens a read stream that ends at the size found.
SendOpen(i) ==
    /\ sends[i].stage = "sized"
    /\ MainIdle
    /\ sends' = [sends EXCEPT ![i].stage = "reading"]
    /\ NoAnswer
    /\ UNCHANGED <<files, main, cut>>

\* A file that has become shorter is sent as far as it goes.
SendRead(i) ==
    /\ sends[i].stage = "reading"
    /\ delivered' =
        Delivered(sends[i], SubSeq(Content(sends[i]), 1,
                                   Min({sends[i].size, Len(Content(sends[i]))})))
    /\ sends' = RemoveAt(sends, i)
    /\ response' = NoResponse
    /\ UNCHANGED <<files, main, cut>>

-----------------------------------------------------------------------------
(* The handlers *)

BeginWrite(op, ch, id, list) ==
    /\ revokeFile' = [revokeFile EXCEPT ![ch] = <<>>]
    /\ writing' = [op |-> op, channel |-> ch, user |-> id, list |-> list]

\* /Masterkey_<ch>: cpabe-setup draws keys and opens public_<ch> to write it.
Masterkey(ch) ==
    /\ MainIdle
    /\ generation[ch] < MaxSetups
    /\ Len(sends) < MaxSends
    /\ generation' = [generation EXCEPT ![ch] = @ + 1]
    /\ public' = [public EXCEPT ![ch] = <<>>]
    /\ tool' = [op |-> "setup", channel |-> ch, user |-> NoId, stage |-> "public"]
    /\ NoAnswer
    /\ UNCHANGED <<master, privateKeys, revokeFile, writing, sends, cut>>

SetupAt(stage) == tool # NoTool /\ tool.op = "setup" /\ tool.stage = stage

SetupWritesPublic ==
    /\ SetupAt("public")
    /\ public' = [public EXCEPT ![tool.channel] = <<generation[tool.channel]>>]
    /\ tool' = [tool EXCEPT !.stage = "written"]
    /\ NoAnswer
    /\ UNCHANGED <<generation, master, privateKeys, revokeFile, writing, sends, cut>>

SetupOpensMaster ==
    /\ SetupAt("written")
    /\ master' = [master EXCEPT ![tool.channel] = <<>>]
    /\ tool' = [tool EXCEPT !.stage = "master"]
    /\ NoAnswer
    /\ UNCHANGED <<generation, public, privateKeys, revokeFile, writing, sends, cut>>

SetupWritesMaster ==
    /\ SetupAt("master")
    /\ master' = [master EXCEPT ![tool.channel] = <<generation[tool.channel]>>]
    /\ tool' = [tool EXCEPT !.stage = "done"]
    /\ NoAnswer
    /\ UNCHANGED <<generation, public, privateKeys, revokeFile, writing, sends, cut>>

\* execSync returns, and nobody is revoked any more.
GenerateRevokeString ==
    /\ SetupAt("done")
    /\ tool' = NoTool
    /\ BeginWrite("Masterkey", tool.channel, NoId, InitialList)
    /\ sends' = Unlisted(sends, tool.channel, Ids)
    /\ NoAnswer
    /\ UNCHANGED <<keyFiles, cut>>

\* writeFileSync ends, and the handler answers.
EndWrite ==
    /\ writing # Idle
    /\ revokeFile' = [revokeFile EXCEPT ![writing.channel] = writing.list]
    /\ writing' = Idle
    /\ IF writing.op = "Masterkey"
       THEN /\ sends' = Append(sends, Send("public", writing.channel, NoId, {}))
            /\ response' = NoResponse
            /\ cut' = cut \ {writing.channel}
       ELSE /\ response' = [op |-> writing.op, channel |-> writing.channel,
                            user |-> writing.user, ok |-> TRUE]
            /\ UNCHANGED <<sends, cut>>
    /\ delivered' = Nothing
    /\ UNCHANGED <<keyFiles, tool>>

PublicKey(ch) ==
    /\ MainIdle
    /\ Len(sends) < MaxSends
    /\ sends' = Append(sends, Send("public", ch, NoId, {}))
    /\ NoAnswer
    /\ UNCHANGED <<files, main, cut>>

Written(file) == file \notin {NoFile, <<>>}

\* Mutant: exec instead of execSync, and the answer starts before the key is written.
PrivateKeyEarly(ch, id) ==
    /\ MainIdle
    /\ Written(public[ch]) /\ Written(master[ch])
    /\ Number[id] # 0
    /\ Len(sends) < MaxSends
    /\ privateKeys' = [privateKeys EXCEPT ![ch][id] = <<>>]
    /\ sends' = Append(Overtaken(sends, ch, id), Send("private", ch, id, master[ch][1]))
    /\ tool' = [op |-> "keygen", channel |-> ch, user |-> id, stage |-> "private"]
    /\ NoAnswer
    /\ UNCHANGED <<generation, public, master, revokeFile, writing, cut>>

(***************************************************************************)
(* cpabe-keygen reads both keys before it opens private_<ch>_<id>; execSync *)
(* throws when they do not exist or are empty, and for an id that atoi     *)
(* makes 0.                                                                *)
(***************************************************************************)
PrivateKey(ch, id) ==
    /\ MainIdle
    /\ Written(public[ch]) /\ Written(master[ch])
    /\ Number[id] # 0
    /\ Len(sends) < MaxSends
    /\ privateKeys' = [privateKeys EXCEPT ![ch][id] = <<>>]
    /\ sends' = Overtaken(sends, ch, id)
    /\ tool' = [op |-> "keygen", channel |-> ch, user |-> id, stage |-> "private"]
    /\ NoAnswer
    /\ UNCHANGED <<generation, public, master, revokeFile, writing, cut>>

\* The key is written, and the handler answers with it.
KeygenWrites ==
    /\ tool # NoTool /\ tool.op = "keygen"
    /\ privateKeys' = [privateKeys EXCEPT ![tool.channel][tool.user] = master[tool.channel]]
    /\ sends' = Append(sends, Send("private", tool.channel, tool.user,
                                   master[tool.channel][1]))
    /\ tool' = NoTool
    /\ NoAnswer
    /\ UNCHANGED <<generation, public, master, revokeFile, writing, cut>>

\* /revoke_<ch>
GetRevokeFile(ch) ==
    /\ MainIdle
    /\ Len(sends) < MaxSends
    /\ sends' = Append(sends, Send("revoke", ch, NoId, StoodFor(ListOf(ch))))
    /\ NoAnswer
    /\ UNCHANGED <<files, main, cut>>

Answer(op, ch, id, ok) ==
    /\ response' = [op |-> op, channel |-> ch, user |-> id, ok |-> ok]
    /\ delivered' = Nothing
    /\ UNCHANGED <<files, main, sends, cut>>

\* POST /revo: a list that holds the id is left alone.
RevokeUser(ch, id) ==
    /\ MainIdle
    /\ IF revokeFile[ch] = NoFile THEN Answer("revo", ch, id, FALSE)
       ELSE LET list == Revoked(revokeFile[ch], id) IN
            IF list = revokeFile[ch] THEN Answer("revo", ch, id, TRUE)
            ELSE /\ BeginWrite("revo", ch, id, list)
                 /\ NoAnswer
                 /\ UNCHANGED <<keyFiles, tool, sends, cut>>

\* POST /unrevoke: for an id that is not listed newRevokeString is undefined,
\* and revokeData throws.
UnrevokeUser(ch, id) ==
    /\ MainIdle
    /\ IF revokeFile[ch] = NoFile \/ ~InTail(revokeFile[ch], id)
       THEN Answer("unrevoke", ch, id, FALSE)
       ELSE /\ BeginWrite("unrevoke", ch, id, Unrevoked(revokeFile[ch], id))
            /\ sends' = Unlisted(sends, ch, {id})
            /\ NoAnswer
            /\ UNCHANGED <<keyFiles, tool, cut>>

\* The program and its child are killed, perhaps between truncating and writing,
\* and the program is started again; the files stay as they are.
Crash ==
    /\ cut' = IF writing = Idle THEN cut ELSE cut \cup {writing.channel}
    /\ writing' = Idle
    /\ tool' = NoTool
    /\ sends' = <<>>
    /\ NoAnswer
    /\ UNCHANGED files

Next ==
    \/ SetupWritesPublic \/ SetupOpensMaster \/ SetupWritesMaster
    \/ GenerateRevokeString \/ EndWrite \/ KeygenWrites
    \/ \E ch \in Channels :
        \/ Masterkey(ch) \/ PublicKey(ch) \/ GetRevokeFile(ch)
        \/ \E id \in Subscribers : PrivateKey(ch, id)
        \/ \E id \in Ids : RevokeUser(ch, id) \/ UnrevokeUser(ch, id)
    \/ \E i \in DOMAIN sends : SendStat(i) \/ SendOpen(i) \/ SendRead(i)
    \/ Crash

Spec == Init /\ [][Next]_vars

-----------------------------------------------------------------------------
(* Properties *)

Lists == Seq(Ids \cup {Root})
Tools ==
    [op : {"setup", "keygen"}, channel : Channels, user : Ids \cup {NoId},
     stage : {"public", "written", "master", "done", "private"}]
KeyFiles == {NoFile, <<>>} \cup {<<g>> : g \in 1 .. MaxSetups}

\* The types of the key manager's variables, with the shape of its lists: a
\* list that no kill has emptied starts with the root.
TypeOK ==
    /\ generation \in [Channels -> 0 .. MaxSetups]
    /\ public \in [Channels -> KeyFiles]
    /\ master \in [Channels -> KeyFiles]
    /\ privateKeys \in [Channels -> [Ids -> KeyFiles]]
    /\ revokeFile \in [Channels -> Lists \cup {NoFile}]
    /\ \A ch \in Channels \ cut :
          ListOf(ch) # NoFile => ListOf(ch) # <<>> /\ ListOf(ch)[1] = Root
    /\ cut \subseteq Channels
    /\ writing = Idle \/
       writing \in [op : {"Masterkey", "revo", "unrevoke"}, channel : Channels,
                    user : Ids \cup {NoId}, list : Lists]
    /\ tool = NoTool \/ (tool \in Tools /\ writing = Idle)
    /\ \A i \in DOMAIN sends :
          /\ sends[i].kind \in {"public", "private", "revoke"}
          /\ sends[i].stage \in {"asked", "sized", "reading"}
          /\ sends[i].size \in Nat

(***************************************************************************)
(* A broadcaster's /revoke_ request is answered without a body, or with a  *)
(* list that holds everyone who was revoked when it was asked for and has  *)
(* stayed so, whatever handlers ran between stat and read.                 *)
(***************************************************************************)
AnswerCoversRevoked ==
    delivered.kind = "revoke" /\ delivered.data \notin {ErrorPage, <<>>} =>
        delivered.since \subseteq StoodFor(delivered.data)

(***************************************************************************)
(* A private key that is sent is not older than the master key was at its  *)
(* request, whatever initializations and requests ran between stat and     *)
(* read; it comes without a body only if the same user's key was asked for *)
(* again meanwhile.                                                        *)
(***************************************************************************)
PrivateKeyCurrent ==
    delivered.kind = "private" =>
        IF delivered.data = <<>> THEN delivered.overtaken
        ELSE delivered.data[1] >= delivered.since

(***************************************************************************)
(* README:29: "when a user needs to be either revoked or unrevoked.  The   *)
(* key manager updates the revocation data accordingly."  After an answer  *)
(* to /unrevoke no text of the list stands for that user's number, whether *)
(* it was ok or not, as long as no kill has emptied the list.              *)
(***************************************************************************)
UnrevokeTakesEffect ==
    [][response'.op = "unrevoke" /\ response'.channel \notin cut' =>
         Number[response'.user] \notin
            {Number[x] : x \in StoodFor(revokeFile'[response'.channel])}]_vars

(***************************************************************************)
(* The key manager implements RevocationPolicy: the users are numbers, and *)
(* a channel's revoked users those its list stands for.                    *)
(***************************************************************************)
Policy == INSTANCE RevocationPolicy WITH
    Users <- {Number[id] : id \in Ids},
    revoked <- [ch \in Channels |-> {Number[id] : id \in StoodFor(ListOf(ch))}]

ImplementsPolicy == Policy!Spec

=============================================================================
