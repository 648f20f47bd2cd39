----------------------------- MODULE Attachments -----------------------------
(***************************************************************************)
(* Uploaded files and the messages they are sent with (backend             *)
(* app/routers/attachments.py, send_message and delete_message of          *)
(* messages.py, sendMessage of the frontend's store), composed with        *)
(* Conversations, whose members upload and send and whose deleted channels *)
(* take rows and messages with them.                                       *)
(***************************************************************************)
EXTENDS Conversations

CONSTANTS
    File,
    Message

ASSUME AttachmentsAssumption == None \notin Message

VARIABLES
    upload,    \* what became of each file
    home,      \* the channel it was uploaded to
    link,      \* message_id of its committed row
    send,      \* requests that send a message, and what became of the message
    contended  \* history: files that two transactions took at once

fileVars == <<upload, home, link, send, contended>>
vars == <<chatVars, fileVars>>

\* "written": on disk, the row flushed; "gone": on disk without a row, since the
\* transaction failed or the message or the channel was deleted.
UploadStage == {"unused", "written", "saved", "gone"}

\* "told": the message is flushed and published with the files taken; "linked":
\* the update of their rows is flushed; "void": refused, failed or deleted.
SendStage == {"unused", "sent", "told", "linked", "committed", "void"}

\* first: the encrypted message, which is sent again in plaintext when it fails.
Sends == [stage : SendStage, by : User \cup {None}, ch : Channel \cup {None},
          ids : SUBSET File, taken : SUBSET File, first : BOOLEAN]

NoSend == [stage |-> "unused", by |-> None, ch |-> None,
           ids |-> {}, taken |-> {}, first |-> TRUE]

TypeOK ==
    /\ ChatTypeOK
    /\ upload \in [File -> UploadStage]
    /\ home \in [File -> Channel \cup {None}]
    /\ link \in [File -> Message \cup {None}]
    /\ send \in [Message -> Sends]
    /\ contended \in SUBSET File

Init ==
    /\ ChatInit
    /\ upload = [f \in File |-> "unused"]
    /\ home = [f \in File |-> None]
    /\ link = [f \in File |-> None]
    /\ send = [m \in Message |-> NoSend]
    /\ contended = {}

Uncommitted == {m \in Message : send[m].stage \in {"told", "linked"}}

-----------------------------------------------------------------------------
(***************************************************************************)
(* upload_attachment                                                       *)
(***************************************************************************)

\* The file is written and its row flushed.
Upload(f, u, ch) ==
    /\ upload[f] = "unused"
    /\ u \in members[ch]
    /\ Deed
    /\ upload' = [upload EXCEPT ![f] = "written"]
    /\ home' = [home EXCEPT ![f] = ch]
    /\ UNCHANGED <<server, request, tabs, causes, link, send, contended>>

Save(f) ==
    /\ upload[f] = "written"
    /\ upload' = [upload EXCEPT ![f] = "saved"]
    /\ UNCHANGED <<chatVars, home, link, send, contended>>

LoseUpload(f) ==
    /\ upload[f] = "written"
    /\ Deed
    /\ upload' = [upload EXCEPT ![f] = "gone"]
    /\ UNCHANGED <<server, request, tabs, causes, home, link, send, contended>>

-----------------------------------------------------------------------------
(***************************************************************************)
(* sendMessage and send_message                                            *)
(***************************************************************************)

\* The files are those the tab uploaded for this message; messages without files
\* are ChatTimeline's.
SendMessage(m, u, ch, ids) ==
    /\ send[m].stage = "unused"
    /\ list[u][ch] > 0
    /\ ids # {}
    /\ \A f \in ids : upload[f] = "saved" /\ home[f] = ch
    /\ send' = [send EXCEPT ![m] =
          [NoSend EXCEPT !.stage = "sent", !.by = u, !.ch = ch, !.ids = ids]]
    /\ UNCHANGED <<chatVars, upload, home, link, contended>>

\* Mutant: the select forgets Attachment.message_id.is_(None).
TakenAny(m) == {f \in send[m].ids : upload[f] = "saved" /\ home[f] = send[m].ch}

\* The attachments the select of send_message finds.
Taken(m) ==
    {f \in send[m].ids : upload[f] = "saved" /\ home[f] = send[m].ch /\ link[f] = None}

\* The message is flushed, the files are selected, message.new is published.
PostMessage(m) ==
    LET taken == Taken(m)
    IN /\ send[m].stage = "sent"
       /\ send[m].by \in members[send[m].ch]
       /\ send' = [send EXCEPT ![m].stage = "told", ![m].taken = taken]
       /\ contended' = contended \cup
             {f \in taken : \E n \in Uncommitted : f \in send[n].taken}
       /\ UNCHANGED <<chatVars, upload, home, link>>

\* The next select flushes the update of the rows, whoever has taken them too;
\* it waits for another transaction that holds one of them.
LinkFiles(m) ==
    /\ send[m].stage = "told"
    /\ \A n \in Message :
          send[n].stage = "linked" => send[n].taken \cap send[m].taken = {}
    /\ send' = [send EXCEPT ![m].stage = "linked"]
    /\ UNCHANGED <<chatVars, upload, home, link, contended>>

\* Mutant: the channel's id is stored as message_id.
CommitMessageChannel(m) ==
    /\ send[m].stage = "linked"
    /\ send' = [send EXCEPT ![m].stage = "committed"]
    /\ link' = [f \in File |-> IF f \in send[m].taken THEN send[m].ch ELSE link[f]]
    /\ UNCHANGED <<chatVars, upload, home, contended>>

CommitMessage(m) ==
    /\ send[m].stage = "linked"
    /\ send' = [send EXCEPT ![m].stage = "committed"]
    /\ link' = [f \in File |-> IF f \in send[m].taken THEN m ELSE link[f]]
    /\ UNCHANGED <<chatVars, upload, home, contended>>

\* Message m ends in stage st for the server and failed for the store, which
\* sends its content again as message n, the same files with it, once.
FailedAs(m, st, n) ==
    /\ send[m].first => send[n].stage = "unused"
    /\ send' = [k \in Message |->
          IF k = m THEN [send[m] EXCEPT !.stage = st]
          ELSE IF k = n /\ send[m].first
               THEN [send[m] EXCEPT !.stage = "sent", !.taken = {}, !.first = FALSE]
               ELSE send[k]]
    /\ UNCHANGED <<upload, home, link, contended>>

\* The sender is no member any more.
RefuseMessage(m, n) ==
    /\ send[m].stage = "sent"
    /\ send[m].by \notin members[send[m].ch]
    /\ FailedAs(m, "void", n)
    /\ UNCHANGED chatVars

\* The request is lost, the transaction fails, or the answer is lost.
FailMessage(m, n) ==
    /\ send[m].stage \in {"sent", "told", "linked", "committed"}
    /\ Deed
    /\ FailedAs(m, IF send[m].stage = "committed" THEN "committed" ELSE "void", n)
    /\ UNCHANGED <<server, request, tabs, causes>>

\* The rate limit refuses the request; the store does not send it again.
LimitMessage(m) ==
    /\ send[m].stage = "sent"
    /\ Deed
    /\ send' = [send EXCEPT ![m].stage = "void"]
    /\ UNCHANGED <<server, request, tabs, causes, upload, home, link, contended>>

-----------------------------------------------------------------------------
(***************************************************************************)
(* Deletions: the rows of the files cascade, the files stay on disk.       *)
(***************************************************************************)

\* The rows of the files fs are deleted with what they refer to.
Cascade(fs) ==
    /\ upload' = [f \in File |-> IF f \in fs THEN "gone" ELSE upload[f]]
    /\ link' = [f \in File |-> IF f \in fs THEN None ELSE link[f]]

DeleteMessage(m) ==
    /\ send[m].stage = "committed"
    /\ \A n \in Message : send[n].stage = "linked" =>
          \A f \in send[n].taken : link[f] # m
    /\ Deed
    /\ send' = [send EXCEPT ![m].stage = "void"]
    /\ Cascade({f \in File : upload[f] = "saved" /\ link[f] = m})
    /\ UNCHANGED <<server, request, tabs, causes, home, contended>>

\* Whoever has flushed a row of the channel's holds its row.
DeleteChannelAndFiles(ch) ==
    /\ \A f \in File : upload[f] = "written" => home[f] # ch
    /\ \A m \in Uncommitted : send[m].ch # ch
    /\ DeleteChannel(ch)
    /\ send' = [m \in Message |->
          IF send[m].ch = ch /\ send[m].stage = "committed"
          THEN [send[m] EXCEPT !.stage = "void"] ELSE send[m]]
    /\ Cascade({f \in File : upload[f] = "saved" /\ home[f] = ch})
    /\ UNCHANGED <<home, contended>>

-----------------------------------------------------------------------------
Next ==
    \/ ChatStep /\ UNCHANGED fileVars
    \/ \E ch \in Channel : DeleteChannelAndFiles(ch)
    \/ \E f \in File :
          \/ \E u \in User, ch \in Channel : Upload(f, u, ch)
          \/ Save(f)
          \/ LoseUpload(f)
    \/ \E m \in Message :
          \/ \E u \in User, ch \in Channel, ids \in SUBSET File :
                SendMessage(m, u, ch, ids)
          \/ PostMessage(m)
          \/ LinkFiles(m)
          \/ CommitMessage(m)
          \/ LimitMessage(m)
          \/ \E n \in Message \ {m} : RefuseMessage(m, n) \/ FailMessage(m, n)
          \/ DeleteMessage(m)

Spec == Init /\ [][Next]_vars

-----------------------------------------------------------------------------
(***************************************************************************)
(* A message has the files it was announced with, as long as their rows    *)
(* exist: no later message takes them away, not even the same one sent     *)
(* again after its answer was lost.  Only two transactions that selected   *)
(* the same file before either committed both announce it.                 *)
(***************************************************************************)
AnnouncedIsLinked ==
    \A m \in Message : send[m].stage = "committed" =>
        \A f \in send[m].taken :
            upload[f] = "saved" => link[f] = m \/ f \in contended
==============================================================================
