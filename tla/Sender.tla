------------------------------- MODULE Sender -------------------------------
(***************************************************************************)
(* The commands that clients send back (sender.go), and the files they and *)
(* received media leave in the storage (storage.go, upload in api.go,      *)
(* onMedia in hub.go).                                                     *)
(*                                                                         *)
(* Every command has a goroutine: the reader of a websocket connection,    *)
(* the handler of an HTTP request, an MQTT client or a WeChat message.     *)
(* They share the rate limiter and the files: a file is named by its day   *)
(* and the name the client or WeChat gave it, and os.Create truncates the  *)
(* one that is there, also while another goroutine has it open.            *)
(*                                                                         *)
(* WeChat (sending, revoking) and golang.org/x/time/rate are external.     *)
(***************************************************************************)
EXTENDS Naturals, FiniteSets

CONSTANTS
    Commands,   \* what is to be sent or stored, each by a goroutine of its own
    Plans,      \* what each of them may be, together
    Paths,      \* day and file name
    Bodies,     \* contents of files
    Hole,       \* a chunk that was not written
    Absent,     \* no file
    NotSent,    \* no file was sent
    Burst,      \* burst of the limiter, which yields one token a second
    FileTokens, \* what a file asks of it
    MaxWait,    \* seconds a text waits for its token
    MaxFileWait \* seconds a file does

(* text: SendGroupTextMsg; base64, url and resource: SendGroupMediaMsg, by   *)
(* where the file comes from; upload: the HTTP handler; media: onMedia.      *)
Kinds   == {"text", "base64", "url", "resource", "upload", "media"}
Jobs    == [kind: Kinds \cup {"none"}, path: Paths, body: Bodies, prompt: BOOLEAN]
Storing == {"upload", "media"}

ASSUME PlansType ==
    /\ Plans \subseteq [Commands -> Jobs]
    /\ \A plan \in Plans, c \in Commands :
         plan[c].prompt => plan[c].kind \in {"base64", "url", "resource"}
ASSUME LimiterType == Burst \in Nat \ {0} /\ {FileTokens, MaxWait, MaxFileWait} \subseteq Nat
ASSUME MarkersDiffer == Hole \notin Bodies

VARIABLES
    job,       \* what each command is: text, file or none
    pc,        \* where the goroutine of each command stands
    result,    \* how the command ended
    now,       \* seconds
    full,      \* when the limiter will have all its tokens
    due,       \* when the wait of a text or prompt ends, 0 when there is none
    fileDue,   \* when the wait of a file ends
    prompted,  \* commands with a promptSent that is not nil
    prompts,   \* prompts that stand in the group
    files,     \* the storage: two chunks per file
    readers,   \* readers that are open
    sent,      \* the file a command sent
    disturbed, \* history: commands whose file another one has changed since
    unrevoked  \* history: commands with a Revoke that failed

limiter == <<now, full, due, fileDue>>
group   == <<prompted, prompts, sent, unrevoked>>
storage == <<files, disturbed>>
vars    == <<job, pc, result, limiter, group, storage, readers>>

Init ==
    /\ job \in Plans
    /\ pc = [c \in Commands |-> "idle"]
    /\ result = [c \in Commands |-> "none"]
    /\ now = 1
    /\ full = 1
    /\ due = [c \in Commands |-> 0]
    /\ fileDue = [c \in Commands |-> 0]
    /\ prompted = {}
    /\ prompts = {}
    /\ files = [p \in Paths |-> Absent]
    /\ readers = {}
    /\ sent = [c \in Commands |-> NotSent]
    /\ disturbed = {}
    /\ unrevoked = {}

Kind(c)     == job[c].kind
Path(c)     == job[c].path
Prompts(c)  == job[c].prompt
Whole(body) == [i \in 1..2 |-> body]

Goto(c, label)  == pc' = [pc EXCEPT ![c] = label]
Return(c, res)  == Goto(c, "done") /\ result' = [result EXCEPT ![c] = res]

\* Mutant: a file that is there already is taken as it is.
Reuses(c) ==
    CASE files[Path(c)] # Absent -> "open"
      [] Kind(c) = "url" -> "download"
      [] OTHER           -> "create"

\* Where the file comes from.
Loading(c) ==
    CASE Kind(c) = "url"      -> "download"
      [] Kind(c) = "resource" -> "open"
      [] OTHER                -> "create"

-----------------------------------------------------------------------------
(* The limiter.                                                              *)

Later(s, t) == IF s > t THEN s ELSE t

\* When n more tokens will be there.
DueFor(n) == Later(now + Burst, Later(full, now) + n) - Burst

\* Mutant: the context has no deadline.
GrantsAll(n, longest) == n <= Burst

\* Refused at once: what never fits, and what would take too long.
Grants(n, longest) == n <= Burst /\ DueFor(n) - now <= longest

\* Mutant: a wait takes no tokens.
TakesNone(n) == Later(full, now)

Taken(n) == Later(full, now) + n

\* The error of a wait is ignored: who is refused does not wait.
WaitFor(c, n, longest, ends) ==
    IF Grants(n, longest)
    THEN ends' = [ends EXCEPT ![c] = DueFor(n)] /\ full' = Taken(n)
    ELSE UNCHANGED <<ends, full>>

Tick ==
    /\ now < full
    /\ now' = now + 1
    /\ UNCHANGED <<job, pc, result, full, due, fileDue, group, storage, readers>>

-----------------------------------------------------------------------------
(* SendMsg: the command is looked at, the bot is asked for itself, the id is *)
(* translated and the group looked up.  Uploads and media have no such start.*)

\* Something is empty or unknown, or the bot is offline.
Refuse(c) ==
    /\ pc[c] = "idle" /\ Kind(c) # "none"
    /\ Return(c, "refused")
    /\ UNCHANGED <<job, limiter, group, storage, readers>>

\* A text or a prompt waits for a token.
Wait(c) ==
    /\ pc[c] = "idle"
    /\ Kind(c) = "text" \/ Prompts(c)
    /\ WaitFor(c, 1, MaxWait, due)
    /\ Goto(c, "waiting")
    /\ UNCHANGED <<job, result, now, fileDue, group, storage, readers>>

\* A file without a prompt does not.
Start(c) ==
    /\ pc[c] = "idle"
    /\ Kind(c) \notin {"text", "none"} /\ ~Prompts(c)
    /\ Goto(c, Loading(c))
    /\ UNCHANGED <<job, result, limiter, group, storage, readers>>

Waited(c) == pc[c] = "waiting" /\ due[c] <= now

-----------------------------------------------------------------------------
(* What is sent to the group.                                                *)

SendText(c) ==
    /\ Waited(c)
    /\ Kind(c) = "text"
    /\ \E res \in {"sent", "sendFailed"} : Return(c, res)
    /\ UNCHANGED <<job, limiter, group, storage, readers>>

SendPrompt(c) ==
    /\ Waited(c)
    /\ Kind(c) # "text"
    /\ prompted' = prompted \cup {c}
    /\ prompts' = prompts \cup {c}
    /\ Goto(c, Loading(c))
    /\ UNCHANGED <<job, result, limiter, sent, unrevoked, storage, readers>>

\* The error is dropped, and promptSent is nil.
PromptFails(c) ==
    /\ Waited(c)
    /\ Kind(c) # "text"
    /\ Goto(c, Loading(c))
    /\ UNCHANGED <<job, result, limiter, group, storage, readers>>

-----------------------------------------------------------------------------
(* prepareFile: the file is brought into the storage and opened.             *)

\* Nothing limits the time a download takes.
Download(c) ==
    /\ pc[c] = "download"
    /\ \/ Goto(c, "create") /\ UNCHANGED result
       \/ Return(c, "loadFailed")
    /\ UNCHANGED <<job, limiter, group, storage, readers>>

\* Others whose file this is, written already or in part, and not yet sent.
Users(p) ==
    {d \in Commands : /\ Path(d) = p
                      /\ \/ pc[d] \in {"front", "back", "answer", "open", "prepared", "send"}
                         \/ result[d] = "stored"}

Changes(c, content) ==
    /\ files' = [files EXCEPT ![Path(c)] = content]
    /\ disturbed' = disturbed \cup (Users(Path(c)) \ {c})

\* Mutant: a lock is held from the start of a download to the end of the write.
Locked(c) == \A d \in Commands \ {c} : pc[d] \notin {"download", "front", "back"}

\* Nobody waits to make a file, whoever else has it open.
MayCreate(c) == TRUE

\* os.Create truncates what is there.
Create(c) ==
    /\ pc[c] = "create"
    /\ MayCreate(c)
    /\ Changes(c, Whole(Hole))
    /\ Goto(c, "front")
    /\ UNCHANGED <<job, result, limiter, group, readers>>

WriteFront(c) ==
    /\ pc[c] = "front"
    /\ Changes(c, [files[Path(c)] EXCEPT ![1] = job[c].body])
    /\ Goto(c, "back")
    /\ UNCHANGED <<job, result, limiter, group, readers>>

WriteBack(c) ==
    /\ pc[c] = "back"
    /\ Changes(c, [files[Path(c)] EXCEPT ![2] = job[c].body])
    /\ Goto(c, IF Kind(c) \in Storing THEN "answer" ELSE "open")
    /\ UNCHANGED <<job, result, limiter, group, readers>>

\* Mutant: the error of the write is dropped.
WroteAnyway(c) == IF Kind(c) \in Storing THEN Goto(c, "answer") /\ UNCHANGED result
                                         ELSE Goto(c, "open") /\ UNCHANGED result

\* A file that cannot be had ends the command.  prepareFile returns nil for
\* promptSent then, so that the deferred Revoke of a prompt panics, which the
\* callers recover from: the prompt stands.
GivesUp(c) == Return(c, IF Kind(c) \in Storing THEN "storeFailed" ELSE "loadFailed")

WriteFails(c) ==
    /\ pc[c] \in {"front", "back"}
    /\ GivesUp(c)
    /\ UNCHANGED <<job, limiter, group, storage, readers>>

\* The body is no base64, or the file cannot be made or opened.
LoadFails(c) ==
    /\ pc[c] \in {"create", "open"}
    /\ pc[c] = "create" => MayCreate(c)
    /\ Return(c, IF Kind(c) \in Storing THEN "storeFailed" ELSE "loadFailed")
    /\ UNCHANGED <<job, limiter, group, storage, readers>>

\* The file is opened, and waits for five tokens, of a limiter that never has more
\* than its burst.
Open(c) ==
    /\ pc[c] = "open"
    /\ files[Path(c)] # Absent
    /\ readers' = readers \cup {c}
    /\ WaitFor(c, FileTokens, MaxFileWait, fileDue)
    /\ Goto(c, "prepared")
    /\ UNCHANGED <<job, result, now, due, group, storage>>

-----------------------------------------------------------------------------
(* upload answers the path of the file, onMedia dispatches a message with it.*)

\* prepareMessage may fail, and then nothing is dispatched.
Endings(c) == {"stored"} \cup (IF Kind(c) = "media" THEN {"storeFailed"} ELSE {})

Answer(c) ==
    /\ pc[c] = "answer"
    /\ \E res \in Endings(c) : Return(c, res)
    /\ UNCHANGED <<job, limiter, group, storage, readers>>

-----------------------------------------------------------------------------
(* The rest of prepareFile, and SendGroupMediaMsg.                           *)

Prepared(c) == pc[c] = "prepared" /\ fileDue[c] <= now

\* Mutant: the deferred functions are left with a nil promptSent, and skip it.
SkipsRevoke(c) == UNCHANGED <<prompts, unrevoked>>

\* Revoke, whose error is ignored.
Revoke(c) ==
    \/ prompts' = prompts \ {c} /\ UNCHANGED unrevoked
    \/ c \in prompts /\ unrevoked' = unrevoked \cup {c} /\ UNCHANGED prompts

\* prepareFile revokes the prompt as it returns: before the file is sent.
PrepareReturns(c) ==
    /\ Prepared(c)
    /\ Prompts(c) => c \in prompted
    /\ Revoke(c)
    /\ Goto(c, "send")
    /\ UNCHANGED <<job, result, limiter, prompted, sent, storage, readers>>

\* Revoke of a prompt that could not be sent panics, before the deferred Close of
\* the reader is set up.
NilPrompt(c) ==
    /\ Prepared(c)
    /\ Prompts(c) /\ c \notin prompted
    /\ Return(c, "promptFailed")
    /\ UNCHANGED <<job, limiter, group, storage, readers>>

\* Mutant: only the reader of what was sent is closed.
ClosesSent(c, res) == IF res = "sent" THEN readers \ {c} ELSE readers

Closes(c, res) == readers \ {c}

\* The deferred function of SendGroupMediaMsg: Revoke, once more, and Close.
Leave(c, res) ==
    /\ Revoke(c)
    /\ readers' = Closes(c, res)
    /\ Return(c, res)

SendFile(c) ==
    /\ pc[c] = "send"
    /\ sent' = [sent EXCEPT ![c] = files[Path(c)]]
    /\ Leave(c, "sent")
    /\ UNCHANGED <<job, limiter, prompted, storage>>

SendFails(c) ==
    /\ pc[c] = "send"
    /\ Leave(c, "sendFailed")
    /\ UNCHANGED <<job, limiter, prompted, sent, storage>>

-----------------------------------------------------------------------------
Sending(c) ==
    \/ SendText(c) \/ SendPrompt(c) \/ PromptFails(c)
    \/ PrepareReturns(c) \/ NilPrompt(c) \/ SendFile(c) \/ SendFails(c)

Filing(c) ==
    \/ Create(c) \/ WriteFront(c) \/ WriteBack(c) \/ WriteFails(c) \/ LoadFails(c) \/ Open(c)
    \/ Answer(c)

Next ==
    \/ Tick
    \/ \E c \in Commands :
         Refuse(c) \/ Wait(c) \/ Start(c) \/ Download(c) \/ Sending(c) \/ Filing(c)

Spec == Init /\ [][Next]_vars

(***************************************************************************)
(* Goroutines run and time passes; WeChat answers.  A server need not      *)
(* answer a download: neither that of a command nor that of a media        *)
(* message, which onMedia writes to the file as it comes.                  *)
(***************************************************************************)
Fairness ==
    /\ WF_vars(Tick)
    /\ \A c \in Commands : WF_vars(Kind(c) # "media" /\ (Sending(c) \/ Filing(c)))

FairSpec == Spec /\ Fairness

-----------------------------------------------------------------------------
Contents == [1..2 -> Bodies \cup {Hole}]

TypeOK ==
    /\ job \in Plans
    /\ pc \in [Commands -> {"idle", "waiting", "download", "create", "front", "back", "answer",
                            "open", "prepared", "send", "done"}]
    /\ result \in [Commands -> {"none", "refused", "loadFailed", "storeFailed", "promptFailed",
                                "sendFailed", "sent", "stored"}]
    /\ now \in Nat /\ full \in Nat
    /\ due \in [Commands -> 0..full] /\ fileDue \in [Commands -> 0..full]
    /\ prompts \subseteq prompted /\ prompted \subseteq {c \in Commands : Prompts(c)}
    /\ files \in [Paths -> Contents \cup {Absent}]
    /\ readers \subseteq {c \in Commands : Kind(c) \notin Storing \cup {"text"}}
    /\ sent \in [Commands -> Contents \cup {Absent, NotSent}]
    /\ disturbed \subseteq Commands /\ unrevoked \subseteq prompted

(***************************************************************************)
(* A file that is sent has the body the command asked for, and a path that *)
(* upload has answered, or a media message was dispatched with, keeps      *)
(* leading to that body: whole, for no failure sends or announces a part,  *)
(* and nothing old shines through.  Only another command or message with   *)
(* the same file name on the same day can change it.                       *)
(***************************************************************************)
FilesIntact ==
    \A c \in Commands \ disturbed :
        /\ result[c] = "sent" /\ Kind(c) \in {"base64", "url"} => sent[c] = Whole(job[c].body)
        /\ result[c] = "stored" => files[Path(c)] = Whole(job[c].body)

(***************************************************************************)
(* A prompt outlives its command only when the file could not be loaded    *)
(* (promptSent is nil in the deferred function then) or WeChat did not     *)
(* revoke it; an open reader only when the prompt could not be sent.       *)
(***************************************************************************)
CleansUp ==
    \A c \in Commands : pc[c] = "done" =>
        /\ c \in prompts => result[c] = "loadFailed" \/ c \in unrevoked
        /\ c \in readers => result[c] = "promptFailed"

(***************************************************************************)
(* The waits that are granted end at the pace of the limiter: its burst,   *)
(* and one a second after that, however many commands come at once; and    *)
(* none is longer than three seconds (MaxWait).                            *)
(***************************************************************************)
Paced ==
    /\ \A s, t \in 1..full : s <= t =>
         Cardinality({c \in Commands : due[c] \in s..t}) <= Burst + (t - s)
    /\ \A c \in Commands : due[c] <= now + MaxWait

(***************************************************************************)
(* sender.go:253 calls it waiting for the limiter, and 255 an artificial   *)
(* wait: before a file is sent its wait was granted.                       *)
(***************************************************************************)
FilesWait == \A c \in Commands : pc[c] = "send" => fileDue[c] # 0

(***************************************************************************)
(* A command returns to the connection or request it came with, unless it  *)
(* waits for a download: no other command holds it up, not even one whose  *)
(* download never ends, and the waits are finite.                          *)
(***************************************************************************)
CommandsReturn ==
    \A c \in Commands :
        Kind(c) # "media" /\ pc[c] \notin {"idle", "download"} ~> pc[c] \in {"download", "done"}
=============================================================================
