---------------------------- MODULE SenderProofs ----------------------------
(***************************************************************************)
(* Proofs about Sender, for any commands, files, limits and plans: types,  *)
(* what becomes of files, prompts and readers, and the pace of the limiter.*)
(***************************************************************************)
EXTENDS Sender, FiniteSetTheorems, TLAPS

\* Where a command of a kind can stand, and what it has done before it gets there.
Fits(c) ==
    /\ pc[c] = "waiting" => Kind(c) = "text" \/ Prompts(c)
    /\ pc[c] = "download" => Kind(c) = "url"
    /\ pc[c] \in {"create", "front", "back"} => Kind(c) \in {"base64", "url", "upload", "media"}
    /\ pc[c] = "answer" => Kind(c) \in Storing
    /\ pc[c] \in {"open", "prepared", "send"} => Kind(c) \in {"base64", "url", "resource"}
    /\ pc[c] \in {"front", "back"} => files[Path(c)] \in Contents
    /\ pc[c] \in {"idle", "waiting"} => c \notin prompted
    /\ c \in readers => pc[c] \in {"prepared", "send", "done"}
    /\ result[c] # "none" <=> pc[c] = "done"

Shape ==
    /\ TypeOK
    /\ \A c \in Commands : Fits(c)
    /\ now <= full

-----------------------------------------------------------------------------
(* Types. *)

\* A wait ends before the limiter is full again, and never before now.
LEMMA WaitsEnd ==
    ASSUME now \in Nat, full \in Nat, NEW n \in Nat
    PROVE  /\ DueFor(n) \in Nat /\ Taken(n) \in Nat
           /\ now <= DueFor(n) /\ DueFor(n) <= Taken(n) /\ Taken(n) <= DueFor(n) + Burst
           /\ full <= Taken(n) /\ now <= Taken(n) /\ full + n <= Taken(n) /\ now + n <= Taken(n)
  BY LimiterType DEF DueFor, Taken, Later

\* Jobs are of the kinds the plans allow.
LEMMA JobsFit ==
    ASSUME job \in Plans, NEW c \in Commands
    PROVE  /\ Kind(c) \in Kinds \cup {"none"} /\ Path(c) \in Paths /\ job[c].body \in Bodies /\ Prompts(c) \in BOOLEAN
           /\ Prompts(c) => Kind(c) \in {"base64", "url", "resource"}
  BY PlansType DEF Kind, Path, Prompts, Jobs

\* A step that changes only where one command stands, and how it ended, keeps the shape
\* if the command fits there.
LEMMA Moves ==
    ASSUME Shape, NEW c \in Commands, NEW label, NEW res, UNCHANGED job,
           pc' = [pc EXCEPT ![c] = label], result' = [result EXCEPT ![c] = res],
           label \in {"waiting", "download", "create", "front", "back", "answer",
                      "open", "prepared", "send", "done"},
           res \in {"none", "refused", "loadFailed", "storeFailed", "promptFailed", "sendFailed", "sent", "stored"},
           now' \in Nat, full' \in Nat, full <= full', now' <= full',
           due' \in [Commands -> 0..full'], fileDue' \in [Commands -> 0..full'],
           prompts' \subseteq prompted', prompted' \subseteq {d \in Commands : Prompts(d)}, unrevoked' \subseteq prompted',
           files' \in [Paths -> Contents \cup {Absent}],
           \A p \in Paths : files[p] \in Contents => files'[p] \in Contents,
           readers' \subseteq {d \in Commands : Kind(d) \notin Storing \cup {"text"}},
           sent' \in [Commands -> Contents \cup {Absent, NotSent}],
           disturbed' \subseteq Commands,
           \A d \in Commands \ {c} : (d \in prompted' <=> d \in prompted) /\ (d \in readers' <=> d \in readers),
           label = "waiting" => (Kind(c) = "text" \/ Prompts(c)) /\ c \notin prompted',
           label = "download" => Kind(c) = "url",
           label \in {"create", "front", "back"} => Kind(c) \in {"base64", "url", "upload", "media"},
           label = "answer" => Kind(c) \in Storing,
           label \in {"open", "prepared", "send"} => Kind(c) \in {"base64", "url", "resource"},
           label \in {"front", "back"} => files'[Path(c)] \in Contents,
           c \in readers' => label \in {"prepared", "send", "done"},
           res # "none" <=> label = "done"
    PROVE  Shape'
<1>1. TypeOK'
  <2>1. \A d \in Commands : Kind(d)' = Kind(d) /\ Prompts(d)' = Prompts(d)
    BY DEF Kind, Prompts
  <2>2. /\ pc' \in [Commands -> {"idle", "waiting", "download", "create", "front", "back", "answer",
                            "open", "prepared", "send", "done"}]
        /\ result' \in [Commands -> {"none", "refused", "loadFailed", "storeFailed", "promptFailed",
                                "sendFailed", "sent", "stored"}]
    BY DEF Shape, TypeOK
  <2>3. job' \in Plans
    BY DEF Shape, TypeOK
  <2> QED  BY <2>1, <2>2, <2>3 DEF TypeOK
<1>2. ASSUME NEW d \in Commands PROVE Fits(d)'
  <2>1. Kind(d)' = Kind(d) /\ Prompts(d)' = Prompts(d) /\ Path(d)' = Path(d) /\ Path(d) \in Paths
    BY JobsFit DEF Kind, Prompts, Path, Shape, TypeOK
  <2>2. CASE d = c
    <3>1. pc'[d] = label /\ result'[d] = res
      BY <2>2 DEF Shape, TypeOK
    <3> QED  BY <2>1, <2>2, <3>1 DEF Fits, Contents
  <2>3. CASE d # c
    <3>1. pc'[d] = pc[d] /\ result'[d] = result[d] /\ Fits(d)
      BY <2>3 DEF Shape, TypeOK
    <3> QED  BY <2>1, <2>3, <3>1 DEF Fits, Contents
  <2> QED  BY <2>2, <2>3
<1> QED  BY <1>1, <1>2 DEF Shape

\* The least a step needs that leaves everything but the command's place as it is.
LEMMA JustMoves ==
    ASSUME Shape, NEW c \in Commands, NEW label, NEW res, UNCHANGED <<job, limiter, group, storage, readers>>,
           pc' = [pc EXCEPT ![c] = label],
           result' = [result EXCEPT ![c] = res] \/ (UNCHANGED result /\ res = "none" /\ pc[c] # "done"),
           label \in {"download", "create", "answer", "open", "send", "done"},
           res \in {"none", "refused", "loadFailed", "storeFailed", "promptFailed", "sendFailed", "sent", "stored"},
           label = "download" => Kind(c) = "url",
           label = "create" => Kind(c) \in {"base64", "url", "upload", "media"},
           label = "answer" => Kind(c) \in Storing,
           label \in {"open", "send"} => Kind(c) \in {"base64", "url", "resource"},
           c \in readers => label \in {"send", "done"},
           res # "none" <=> label = "done"
    PROVE  Shape'
<1>1. result' = [result EXCEPT ![c] = res]
  <2>1. result[c] # "none" <=> pc[c] = "done"
    BY DEF Shape, Fits
  <2>2. result[c] = "none" => result = [result EXCEPT ![c] = "none"]
    BY DEF Shape, TypeOK
  <2> QED  BY <2>1, <2>2
<1>2. /\ now' \in Nat /\ full' \in Nat /\ full <= full' /\ now' <= full'
      /\ due' \in [Commands -> 0..full'] /\ fileDue' \in [Commands -> 0..full']
  BY DEF Shape, TypeOK, limiter
<1>3. /\ prompts' \subseteq prompted' /\ prompted' = prompted /\ readers' = readers
      /\ prompted' \subseteq {d \in Commands : Prompts(d)} /\ unrevoked' \subseteq prompted'
      /\ files' \in [Paths -> Contents \cup {Absent}] /\ files' = files
      /\ readers' \subseteq {d \in Commands : Kind(d) \notin Storing \cup {"text"}}
      /\ sent' \in [Commands -> Contents \cup {Absent, NotSent}] /\ disturbed' \subseteq Commands
  BY DEF Shape, TypeOK, group, storage
<1>4. UNCHANGED job
  OBVIOUS
<1> QED  BY <1>1, <1>2, <1>3, <1>4, Moves

\* Where the file comes from decides where a command goes on.
LEMMA LoadingFits ==
    ASSUME NEW c \in Commands, Kind(c) \in Kinds \ {"text"}
    PROVE  /\ Loading(c) \in {"download", "create", "open"}
           /\ Loading(c) = "download" => Kind(c) = "url"
           /\ Loading(c) = "create" => Kind(c) \in {"base64", "url", "upload", "media"}
           /\ Loading(c) = "open" => Kind(c) \in {"base64", "url", "resource"}
  BY DEF Loading, Kinds

\* Two chunks, written or not.
LEMMA ContentsChange ==
    /\ Whole(Hole) \in Contents
    /\ \A b \in Bodies : Whole(b) \in Contents
    /\ \A f \in Contents, b \in Bodies :
          /\ [f EXCEPT ![1] = b] \in Contents /\ [f EXCEPT ![1] = b][1] = b
          /\ [f EXCEPT ![2] = b] \in Contents
          /\ f[1] = b => [f EXCEPT ![2] = b] = Whole(b)
<1>1. ASSUME NEW f \in Contents, NEW b \in Bodies, f[1] = b PROVE [f EXCEPT ![2] = b] = Whole(b)
  <2>1. f = [i \in 1..2 |-> f[i]] /\ 1..2 = {1, 2}
    BY DEF Contents
  <2> QED  BY <1>1, <2>1 DEF Whole
<1> QED  BY <1>1 DEF Whole, Contents

\* The file of a command changes.
LEMMA FileChanges ==
    ASSUME Shape, NEW c \in Commands, NEW content \in Contents, Changes(c, content)
    PROVE  /\ files' \in [Paths -> Contents \cup {Absent}] /\ files'[Path(c)] = content
           /\ \A p \in Paths : p # Path(c) => files'[p] = files[p]
           /\ \A p \in Paths : files[p] \in Contents => files'[p] \in Contents
           /\ disturbed' \subseteq Commands /\ disturbed \subseteq disturbed'
           /\ \A d \in Users(Path(c)) \ {c} : d \in disturbed'
<1>1. Path(c) \in Paths /\ files \in [Paths -> Contents \cup {Absent}] /\ disturbed \subseteq Commands
  BY JobsFit DEF Shape, TypeOK
<1> QED  BY <1>1 DEF Changes, Users

\* The steps that wait, send a prompt, write a file or leave keep the shape too.
LEMMA StepKeepsShape ==
    ASSUME Shape, NEW c \in Commands,
           Refuse(c) \/ Wait(c) \/ Start(c) \/ Download(c) \/ Sending(c) \/ Filing(c)
    PROVE  Shape'
<1>1. /\ TypeOK /\ Fits(c) /\ now <= full /\ job \in Plans
      /\ result[c] # "none" <=> pc[c] = "done"
  BY DEF Shape, TypeOK, Fits
<1>2. /\ Kind(c) \in Kinds \cup {"none"} /\ Path(c) \in Paths /\ job[c].body \in Bodies
      /\ Prompts(c) => Kind(c) \in {"base64", "url", "resource"}
  BY <1>1, JobsFit
<1>3. c \in readers => pc[c] \in {"prepared", "send", "done"}
  BY <1>1 DEF Fits
<1>4. result \in [Commands -> {"none", "refused", "loadFailed", "storeFailed", "promptFailed",
                                "sendFailed", "sent", "stored"}]
  BY <1>1 DEF TypeOK
<1>5. /\ now \in Nat /\ full \in Nat /\ full <= full /\ due \in [Commands -> 0..full]
      /\ fileDue \in [Commands -> 0..full]
  BY <1>1 DEF TypeOK
<1>6. /\ prompts \subseteq prompted /\ prompted \subseteq {d \in Commands : Prompts(d)} /\ unrevoked \subseteq prompted
      /\ files \in [Paths -> Contents \cup {Absent}]
      /\ readers \subseteq {d \in Commands : Kind(d) \notin Storing \cup {"text"}}
      /\ sent \in [Commands -> Contents \cup {Absent, NotSent}] /\ disturbed \subseteq Commands
  BY <1>1 DEF TypeOK
<1>7. result[c] = "none" => result = [result EXCEPT ![c] = "none"]
  BY <1>4
<1>8. CASE Refuse(c)
  BY <1>1, <1>2, <1>3, <1>8, JustMoves DEF Refuse, Return, Goto
<1>9. CASE Start(c)
  <2>1. Kind(c) \in Kinds \ {"text"} /\ c \notin readers
    BY <1>2, <1>3, <1>9 DEF Start
  <2> QED  BY <1>9, <2>1, LoadingFits, JustMoves DEF Start, Goto
<1>10. CASE Download(c)
  <2>1. Kind(c) = "url" /\ c \notin readers
    BY <1>1, <1>3, <1>10 DEF Download, Fits
  <2> QED  BY <1>10, <2>1, JustMoves DEF Download, Return, Goto
<1>11. CASE SendText(c)
  BY <1>3, <1>11, JustMoves DEF SendText, Waited, Return, Goto
<1>12. CASE PromptFails(c)
  <2>1. Kind(c) \in Kinds \ {"text"} /\ c \notin readers
    BY <1>1, <1>2, <1>3, <1>12 DEF PromptFails, Waited, Fits, Kinds
  <2> QED  BY <1>12, <2>1, LoadingFits, JustMoves DEF PromptFails, Waited, Goto
<1>13. CASE WriteFails(c) \/ LoadFails(c)
  <2>1. /\ pc[c] \in {"create", "open", "front", "back"} /\ UNCHANGED <<job, limiter, group, storage, readers>>
        /\ Return(c, "storeFailed") \/ Return(c, "loadFailed")
    BY <1>13 DEF WriteFails, LoadFails, GivesUp
  <2> QED  BY <1>3, <2>1, JustMoves DEF Return, Goto
<1>14. CASE Answer(c)
  <2>1. PICK res \in {"stored", "storeFailed"} : Return(c, res)
    BY <1>14 DEF Answer, Endings
  <2> QED  BY <1>14, <2>1, JustMoves DEF Answer, Return, Goto
<1>15. CASE NilPrompt(c)
  BY <1>15, JustMoves DEF NilPrompt, Prepared, Return, Goto
<1>16. CASE Wait(c)
  <2>1. /\ full' \in Nat /\ full <= full' /\ now <= full' /\ due' \in [Commands -> 0..full']
    <3>1. CASE UNCHANGED <<due, full>>
      BY <1>1, <1>5, <3>1
    <3>2. CASE due' = [due EXCEPT ![c] = DueFor(1)] /\ full' = Taken(1)
      <4>1. DueFor(1) \in 0..full' /\ full' \in Nat /\ full <= full' /\ now <= full'
        BY <1>5, <3>2, WaitsEnd
      <4> QED  BY <1>5, <3>2, <4>1
    <3> QED  BY <1>16, <3>1, <3>2 DEF Wait, WaitFor
  <2>2. fileDue' \in [Commands -> 0..full'] /\ now' \in Nat /\ now' <= full'
    BY <1>5, <1>16, <2>1 DEF Wait
  <2>3. /\ UNCHANGED <<job, prompted, prompts, unrevoked, files, readers, sent, disturbed>>
        /\ pc' = [pc EXCEPT ![c] = "waiting"] /\ pc[c] = "idle" /\ UNCHANGED result
        /\ Kind(c) = "text" \/ Prompts(c)
    BY <1>16 DEF Wait, Goto, group, storage
  <2>4. c \notin prompted /\ c \notin readers
    BY <1>1, <1>3, <2>3 DEF Fits
  <2>5. result' = [result EXCEPT ![c] = "none"]
    BY <1>1, <1>7, <2>3
  <2> QED  BY <1>6, <2>1, <2>2, <2>3, <2>4, <2>5, Moves
<1>17. CASE SendPrompt(c)
  <2>1. /\ UNCHANGED <<job, now, full, due, fileDue, unrevoked, files, readers, sent, disturbed, result>>
        /\ prompted' = prompted \cup {c} /\ prompts' = prompts \cup {c}
        /\ pc' = [pc EXCEPT ![c] = Loading(c)] /\ pc[c] = "waiting" /\ Kind(c) # "text"
    BY <1>17 DEF SendPrompt, Waited, Goto, limiter, storage
  <2>2. Kind(c) \in Kinds \ {"text"} /\ c \notin readers /\ Prompts(c)
    BY <1>1, <1>2, <1>3, <2>1 DEF Fits, Kinds
  <2>3. result' = [result EXCEPT ![c] = "none"]
    BY <1>1, <1>7, <2>1
  <2>4. prompts' \subseteq prompted' /\ prompted' \subseteq {d \in Commands : Prompts(d)} /\ unrevoked' \subseteq prompted'
    BY <1>6, <2>1, <2>2
  <2>5. /\ Loading(c) \in {"download", "create", "open"}
        /\ Loading(c) = "download" => Kind(c) = "url"
        /\ Loading(c) = "create" => Kind(c) \in {"base64", "url", "upload", "media"}
        /\ Loading(c) = "open" => Kind(c) \in {"base64", "url", "resource"}
    BY <2>2, LoadingFits
  <2> QED  BY <1>1, <1>5, <1>6, <2>1, <2>2, <2>3, <2>4, <2>5, Moves
<1>18. ASSUME NEW content \in Contents, Changes(c, content), NEW label,
              pc' = [pc EXCEPT ![c] = label], UNCHANGED <<job, result, limiter, group, readers>>,
              pc[c] \in {"create", "front", "back"}, label \in {"front", "back", "answer", "open"},
              label = "answer" <=> (Kind(c) \in Storing /\ pc[c] = "back"),
              label = "open" <=> (Kind(c) \notin Storing /\ pc[c] = "back")
       PROVE  Shape'
  <2>1. UNCHANGED <<job, now, full, due, fileDue, prompted, prompts, sent, unrevoked, readers>>
    BY <1>18 DEF limiter, group
  <2>2. result' = [result EXCEPT ![c] = "none"]
    BY <1>1, <1>7, <1>18
  <2>3. Kind(c) \in {"base64", "url", "upload", "media"} /\ c \notin readers
    BY <1>1, <1>3, <1>18 DEF Fits
  <2>4. /\ files' \in [Paths -> Contents \cup {Absent}] /\ files'[Path(c)] = content
        /\ \A p \in Paths : files[p] \in Contents => files'[p] \in Contents
        /\ disturbed' \subseteq Commands
    BY <1>18, FileChanges
  <2> QED  BY <1>1, <1>5, <1>6, <1>18, <2>1, <2>2, <2>3, <2>4, Moves DEF Storing
<1>19. pc[c] \in {"front", "back"} => files[Path(c)] \in Contents
  BY <1>1 DEF Fits
<1>20. CASE Create(c)
  BY <1>18, <1>20, ContentsChange DEF Create, Goto
<1>21. CASE WriteFront(c)
  <2>1. [files[Path(c)] EXCEPT ![1] = job[c].body] \in Contents
    BY <1>2, <1>19, <1>21, ContentsChange DEF WriteFront
  <2> QED  BY <1>18, <1>21, <2>1 DEF WriteFront, Goto
<1>22. CASE WriteBack(c)
  <2>1. [files[Path(c)] EXCEPT ![2] = job[c].body] \in Contents
    BY <1>2, <1>19, <1>22, ContentsChange DEF WriteBack
  <2> QED  BY <1>18, <1>22, <2>1 DEF WriteBack, Goto
<1>23. CASE Open(c)
  <2>1. /\ full' \in Nat /\ full <= full' /\ now <= full' /\ fileDue' \in [Commands -> 0..full']
    <3>1. CASE UNCHANGED <<fileDue, full>>
      BY <1>1, <1>5, <3>1
    <3>2. CASE fileDue' = [fileDue EXCEPT ![c] = DueFor(FileTokens)] /\ full' = Taken(FileTokens)
      <4>1. DueFor(FileTokens) \in 0..full' /\ full' \in Nat /\ full <= full' /\ now <= full'
        BY <1>5, <3>2, WaitsEnd, LimiterType
      <4> QED  BY <1>5, <3>2, <4>1
    <3> QED  BY <1>23, <3>1, <3>2 DEF Open, WaitFor
  <2>2. due' \in [Commands -> 0..full'] /\ now' \in Nat /\ now' <= full'
    BY <1>5, <1>23, <2>1 DEF Open
  <2>3. /\ UNCHANGED <<job, prompted, prompts, unrevoked, files, sent, disturbed, result>>
        /\ readers' = readers \cup {c}
        /\ pc' = [pc EXCEPT ![c] = "prepared"] /\ pc[c] = "open"
    BY <1>23 DEF Open, Goto, group, storage
  <2>4. Kind(c) \in {"base64", "url", "resource"}
    BY <1>1, <2>3 DEF Fits
  <2>5. result' = [result EXCEPT ![c] = "none"]
    BY <1>1, <1>7, <2>3
  <2>6. readers' \subseteq {d \in Commands : Kind(d) \notin Storing \cup {"text"}}
    BY <1>6, <2>3, <2>4 DEF Storing
  <2> QED  BY <1>6, <2>1, <2>2, <2>3, <2>4, <2>5, <2>6, Moves
<1>24. Revoke(c) => prompts' \subseteq prompted /\ unrevoked' \subseteq prompted
  BY <1>6 DEF Revoke
<1>25. CASE PrepareReturns(c)
  <2>1. /\ UNCHANGED <<job, now, full, due, fileDue, prompted, files, readers, sent, disturbed, result>>
        /\ pc' = [pc EXCEPT ![c] = "send"] /\ pc[c] = "prepared" /\ Revoke(c)
    BY <1>25 DEF PrepareReturns, Prepared, Goto, limiter, storage
  <2>2. Kind(c) \in {"base64", "url", "resource"}
    BY <1>1, <2>1 DEF Fits
  <2>3. result' = [result EXCEPT ![c] = "none"]
    BY <1>1, <1>7, <2>1
  <2> QED  BY <1>1, <1>5, <1>6, <1>24, <2>1, <2>2, <2>3, Moves
<1>26. CASE SendFile(c) \/ SendFails(c)
  <2>1. /\ UNCHANGED <<job, now, full, due, fileDue, prompted, files, disturbed>>
        /\ pc' = [pc EXCEPT ![c] = "done"] /\ pc[c] = "send" /\ Revoke(c) /\ readers' = readers \ {c}
        /\ sent' = sent \/ sent' = [sent EXCEPT ![c] = files[Path(c)]]
    BY <1>26 DEF SendFile, SendFails, Leave, Closes, Return, Goto, limiter, storage
  <2>2. PICK res \in {"sent", "sendFailed"} : result' = [result EXCEPT ![c] = res]
    BY <1>26 DEF SendFile, SendFails, Leave, Return
  <2>3. sent' \in [Commands -> Contents \cup {Absent, NotSent}]
    BY <1>2, <1>6, <2>1
  <2> QED  BY <1>1, <1>5, <1>6, <1>24, <2>1, <2>2, <2>3, Moves
<1> QED  BY <1>8, <1>9, <1>10, <1>11, <1>12, <1>13, <1>14, <1>15, <1>16, <1>17, <1>20, <1>21, <1>22, <1>23,
            <1>25, <1>26 DEF Sending, Filing

\* Tick, which only lets time pass, keeps it as well.
LEMMA ShapeHolds == Spec => []Shape
<1>1. Init => Shape
  BY DEF Init, Shape, TypeOK, Fits, Storing
<1>2. Shape /\ [Next]_vars => Shape'
  <2> SUFFICES ASSUME Shape, [Next]_vars PROVE Shape'
    OBVIOUS
  <2>1. CASE Tick
    BY <2>1 DEF Tick, Shape, TypeOK, Fits, group, storage, Kind, Path, Prompts, Contents
  <2>2. CASE UNCHANGED vars
    BY <2>2 DEF vars, Shape, TypeOK, Fits, limiter, group, storage, Kind, Path, Prompts, Contents
  <2> QED  BY <2>1, <2>2, StepKeepsShape DEF Next
<1> QED  BY <1>1, <1>2, PTL DEF Spec

\* The commands, the limiter and the storage have the shapes of the code's (sender.go, storage.go).
THEOREM SenderTypeCorrect == Spec => []TypeOK
<1>1. Shape => TypeOK
  BY DEF Shape
<1> QED  BY <1>1, ShapeHolds, PTL

-----------------------------------------------------------------------------
(* Files. *)

\* The file of a command that nobody has disturbed, as far as it is written.
FileOf(c) ==
    /\ pc[c] = "back" => files[Path(c)][1] = job[c].body
    /\ pc[c] = "answer" \/ result[c] = "stored" => files[Path(c)] = Whole(job[c].body)
    /\ pc[c] \in {"open", "prepared", "send"} /\ Kind(c) \in {"base64", "url"} => files[Path(c)] = Whole(job[c].body)
    /\ result[c] = "sent" /\ Kind(c) \in {"base64", "url"} => sent[c] = Whole(job[c].body)

FilesKept == \A c \in Commands \ disturbed : FileOf(c)

\* A step of one command leaves the files of the others alone, or disturbs them.
LEMMA OthersKept ==
    ASSUME Shape, NEW c \in Commands, NEW d \in Commands \ {c}, FileOf(d),
           Refuse(c) \/ Wait(c) \/ Start(c) \/ Download(c) \/ Sending(c) \/ Filing(c)
    PROVE  d \in disturbed' \/ FileOf(d)'
<1>1. /\ pc \in [Commands -> {"idle", "waiting", "download", "create", "front", "back", "answer",
                               "open", "prepared", "send", "done"}]
      /\ result \in [Commands -> {"none", "refused", "loadFailed", "storeFailed", "promptFailed",
                                   "sendFailed", "sent", "stored"}]
      /\ sent \in [Commands -> Contents \cup {Absent, NotSent}] /\ job \in Plans
  BY DEF Shape, TypeOK
<1>2. /\ UNCHANGED job /\ \E label : pc' = [pc EXCEPT ![c] = label]
      /\ UNCHANGED result \/ \E res : result' = [result EXCEPT ![c] = res]
      /\ UNCHANGED sent \/ \E f : sent' = [sent EXCEPT ![c] = f]
      /\ UNCHANGED <<files>> \/ \E content : Changes(c, content)
  BY DEF Refuse, Wait, Start, Download, Sending, SendText, SendPrompt, PromptFails, PrepareReturns, NilPrompt,
         SendFile, SendFails, Filing, Create, WriteFront, WriteBack, WriteFails, LoadFails, Open, Answer,
         Leave, Return, Goto, GivesUp, group, storage
<1>3. pc'[d] = pc[d] /\ result'[d] = result[d] /\ sent'[d] = sent[d]
  BY <1>1, <1>2
<1>4. /\ Kind(d)' = Kind(d) /\ Path(d)' = Path(d) /\ job'[d].body = job[d].body
  BY <1>2 DEF Kind, Path
<1>5. CASE UNCHANGED files
  BY <1>3, <1>4, <1>5 DEF FileOf
<1>6. ASSUME NEW content, Changes(c, content) PROVE d \in disturbed' \/ FileOf(d)'
  <2>1. Path(d) # Path(c) => files'[Path(d)] = files[Path(d)]
    BY <1>6 DEF Changes, Shape, TypeOK
  <2>2. CASE Path(d) # Path(c)
    BY <1>3, <1>4, <2>1, <2>2 DEF FileOf
  <2>3. CASE Path(d) = Path(c) /\ d \in Users(Path(c))
    BY <1>6, <2>3 DEF Changes
  <2>4. CASE d \notin Users(Path(c)) /\ Path(d) = Path(c)
    BY <1>3, <1>4, <2>4 DEF FileOf, Users
  <2> QED  BY <2>2, <2>3, <2>4
<1> QED  BY <1>2, <1>5, <1>6

\* And what it writes itself is its body, front and back.
LEMMA OwnKept ==
    ASSUME Shape, NEW c \in Commands, FileOf(c),
           Refuse(c) \/ Wait(c) \/ Start(c) \/ Download(c) \/ Sending(c) \/ Filing(c)
    PROVE  FileOf(c)'
<1>1. /\ pc \in [Commands -> {"idle", "waiting", "download", "create", "front", "back", "answer",
                               "open", "prepared", "send", "done"}]
      /\ result \in [Commands -> {"none", "refused", "loadFailed", "storeFailed", "promptFailed",
                                   "sendFailed", "sent", "stored"}]
      /\ sent \in [Commands -> Contents \cup {Absent, NotSent}] /\ Fits(c)
      /\ job \in Plans
  BY DEF Shape, TypeOK
<1>2. Kind(c) \in Kinds \cup {"none"} /\ Path(c) \in Paths /\ job[c].body \in Bodies
  BY <1>1, JobsFit
<1>3. UNCHANGED job
  BY DEF Refuse, Wait, Start, Download, Sending, SendText, SendPrompt, PromptFails, PrepareReturns, NilPrompt,
         SendFile, SendFails, Filing, Create, WriteFront, WriteBack, WriteFails, LoadFails, Open, Answer
<1>4. Kind(c)' = Kind(c) /\ Path(c)' = Path(c) /\ job'[c].body = job[c].body
  BY <1>3 DEF Kind, Path
<1>5. pc[c] # "done" => result[c] = "none"
  BY <1>1 DEF Fits
<1>6. ASSUME pc[c] # "done", UNCHANGED <<result, files>>, NEW label, pc' = [pc EXCEPT ![c] = label],
             label \in {"waiting", "download", "create", "open", "prepared", "send"},
             \/ label \in {"waiting", "download", "create"} \/ Kind(c) = "resource"
             \/ pc[c] \in {"open", "prepared", "send"}
      PROVE  FileOf(c)'
  <2>1. pc'[c] = label /\ result'[c] = "none"
    BY <1>1, <1>5, <1>6
  <2>2. label \in {"open", "prepared", "send"} /\ Kind(c) \in {"base64", "url"} => files[Path(c)] = Whole(job[c].body)
    BY <1>6 DEF FileOf
  <2> QED  BY <1>4, <1>6, <2>1, <2>2 DEF FileOf
<1>7. ASSUME NEW res, Return(c, res), res \notin {"sent", "stored"} PROVE FileOf(c)'
  <2>1. pc'[c] = "done" /\ result'[c] = res
    BY <1>1, <1>7 DEF Return, Goto
  <2> QED  BY <1>7, <2>1 DEF FileOf
<1>8. CASE Refuse(c) \/ WriteFails(c) \/ LoadFails(c) \/ NilPrompt(c) \/ SendFails(c)
  BY <1>7, <1>8 DEF Refuse, WriteFails, LoadFails, NilPrompt, SendFails, Leave, GivesUp
<1>9. CASE Wait(c)
  BY <1>6, <1>9 DEF Wait, Goto, storage
<1>10. ASSUME Kind(c) \notin {"text", "none"}
       PROVE  Loading(c) \in {"download", "create"} \/ (Loading(c) = "open" /\ Kind(c) = "resource")
  BY <1>10 DEF Loading
<1>11. CASE Start(c)
  BY <1>6, <1>10, <1>11 DEF Start, Goto, storage
<1>12. CASE SendPrompt(c) \/ PromptFails(c)
  <2>1. /\ pc[c] = "waiting" /\ Kind(c) # "text" /\ UNCHANGED <<result, files>>
        /\ pc' = [pc EXCEPT ![c] = Loading(c)]
    BY <1>12 DEF SendPrompt, PromptFails, Waited, Goto, storage
  <2>2. Kind(c) # "none"
    BY <1>1, <2>1, JobsFit DEF Fits
  <2> QED  BY <1>6, <1>10, <2>1, <2>2
<1>13. CASE Download(c)
  <2>1. CASE Return(c, "loadFailed")
    BY <1>7, <2>1
  <2>2. CASE Goto(c, "create") /\ UNCHANGED result
    BY <1>6, <1>13, <2>2 DEF Download, Goto, storage
  <2> QED  BY <1>13, <2>1, <2>2 DEF Download
<1>14. CASE SendText(c)
  <2>1. Kind(c) = "text"
    BY <1>14 DEF SendText
  <2>2. pc'[c] = "done" /\ result'[c] \in {"sent", "sendFailed"}
    BY <1>1, <1>14 DEF SendText, Return, Goto
  <2> QED  BY <1>4, <2>1, <2>2 DEF FileOf
<1>15. CASE Open(c) \/ PrepareReturns(c)
  BY <1>6, <1>15 DEF Open, PrepareReturns, Prepared, Goto, storage
<1>16. ASSUME NEW content, Changes(c, content) PROVE files'[Path(c)] = content
  BY <1>2, <1>16 DEF Changes, Shape, TypeOK
<1>17. CASE Create(c)
  <2>1. pc'[c] = "front" /\ result'[c] = "none"
    BY <1>1, <1>5, <1>17 DEF Create, Goto
  <2> QED  BY <2>1 DEF FileOf
<1>18. CASE WriteFront(c)
  <2>1. pc'[c] = "back" /\ result'[c] = "none" /\ files[Path(c)] \in Contents
    BY <1>1, <1>5, <1>18 DEF WriteFront, Goto, Fits
  <2>2. files'[Path(c)][1] = job[c].body
    <3> DEFINE content == [files[Path(c)] EXCEPT ![1] = job[c].body]
    <3>1. content[1] = job[c].body
      BY <1>2, <2>1, ContentsChange
    <3>2. Changes(c, content)
      BY <1>18 DEF WriteFront
    <3> HIDE DEF content
    <3> QED  BY <1>16, <3>1, <3>2
  <2> QED  BY <1>4, <2>1, <2>2 DEF FileOf
<1>19. CASE WriteBack(c)
  <2>1. pc'[c] \in {"answer", "open"} /\ result'[c] = "none" /\ files[Path(c)] \in Contents /\ pc[c] = "back"
    BY <1>1, <1>5, <1>19 DEF WriteBack, Goto, Fits
  <2>2. files'[Path(c)] = Whole(job[c].body)
    BY <1>2, <1>16, <1>19, <2>1, ContentsChange DEF WriteBack, FileOf
  <2> QED  BY <1>4, <2>1, <2>2 DEF FileOf
<1>20. CASE Answer(c)
  <2>1. pc'[c] = "done" /\ result'[c] \in {"stored", "storeFailed"} /\ UNCHANGED files /\ pc[c] = "answer"
    BY <1>1, <1>20 DEF Answer, Endings, Return, Goto, storage
  <2> QED  BY <1>4, <2>1 DEF FileOf
<1>21. CASE SendFile(c)
  <2>1. /\ pc'[c] = "done" /\ result'[c] = "sent" /\ UNCHANGED files /\ pc[c] = "send"
        /\ sent'[c] = files[Path(c)]
    BY <1>1, <1>21 DEF SendFile, Leave, Return, Goto, storage
  <2> QED  BY <1>4, <2>1 DEF FileOf
<1> QED  BY <1>8, <1>9, <1>11, <1>12, <1>13, <1>14, <1>15, <1>17, <1>18, <1>19, <1>20, <1>21 DEF Sending, Filing

\* What is sent or stored undisturbed is what was asked for (prepareFile, storage, upload, onMedia).
THEOREM FilesStayIntact == Spec => []FilesIntact
<1>1. Init => FilesKept
  BY DEF Init, FilesKept, FileOf
<1>2. Shape /\ FilesKept /\ [Next]_vars => FilesKept'
  <2> SUFFICES ASSUME Shape, FilesKept, [Next]_vars PROVE FilesKept'
    OBVIOUS
  <2>1. CASE Tick
    BY <2>1 DEF Tick, FilesKept, FileOf, Kind, Path, group, storage
  <2>2. CASE UNCHANGED vars
    BY <2>2 DEF vars, FilesKept, FileOf, Kind, Path, group, storage
  <2>3. ASSUME NEW c \in Commands,
               Refuse(c) \/ Wait(c) \/ Start(c) \/ Download(c) \/ Sending(c) \/ Filing(c)
        PROVE  FilesKept'
    <3>1. disturbed \subseteq disturbed'
      BY <2>3 DEF Refuse, Wait, Start, Download, Sending, SendText, SendPrompt, PromptFails, PrepareReturns, NilPrompt,
         SendFile, SendFails, Filing, Create, WriteFront, WriteBack, WriteFails, LoadFails, Open, Answer, Changes, storage
    <3> QED  BY <2>3, <3>1, OwnKept, OthersKept DEF FilesKept
  <2> QED  BY <2>1, <2>2, <2>3 DEF Next
<1>3. FilesKept => FilesIntact
  BY DEF FilesKept, FileOf, FilesIntact
<1> QED  BY <1>1, <1>2, <1>3, ShapeHolds, PTL DEF Spec

-----------------------------------------------------------------------------
(* Prompts and readers. *)

\* No step ends a command with a prompt that stands or a reader that is open, but the three that lose them.
LEMMA StepCleansUp ==
    ASSUME Shape, NEW c \in Commands, CleansUp,
           Refuse(c) \/ Wait(c) \/ Start(c) \/ Download(c) \/ Sending(c) \/ Filing(c)
    PROVE  CleansUp'
<1>1. /\ pc \in [Commands -> {"idle", "waiting", "download", "create", "front", "back", "answer",
                               "open", "prepared", "send", "done"}]
      /\ result \in [Commands -> {"none", "refused", "loadFailed", "storeFailed", "promptFailed",
                                   "sendFailed", "sent", "stored"}]
      /\ prompts \subseteq prompted /\ Fits(c) /\ job \in Plans
      /\ prompted \subseteq {d \in Commands : Prompts(d)}
  BY DEF Shape, TypeOK
<1>2. c \in prompts => Kind(c) \in {"base64", "url", "resource"} /\ pc[c] \notin {"idle", "waiting", "answer"}
  BY <1>1, JobsFit DEF Fits, Storing
<1>3. c \in readers => pc[c] \in {"prepared", "send", "done"}
  BY <1>1 DEF Fits
<1>4. ASSUME NEW d \in Commands \ {c}, pc'[d] = "done"
      PROVE  /\ d \in prompts' => result'[d] = "loadFailed" \/ d \in unrevoked'
             /\ d \in readers' => result'[d] = "promptFailed"
  <2>1. /\ \E label : pc' = [pc EXCEPT ![c] = label]
        /\ UNCHANGED result \/ \E res : result' = [result EXCEPT ![c] = res]
        /\ d \in prompts' => d \in prompts
        /\ d \in unrevoked => d \in unrevoked'
        /\ d \in readers' => d \in readers
    BY DEF Refuse, Wait, Start, Download, Sending, SendText, SendPrompt, PromptFails, PrepareReturns, NilPrompt,
         SendFile, SendFails, Filing, Create, WriteFront, WriteBack, WriteFails, LoadFails, Open, Answer,
         Leave, Return, Goto, GivesUp, Revoke, Closes, group, storage
  <2>2. pc[d] = "done" /\ result'[d] = result[d]
    BY <1>1, <1>4, <2>1
  <2> QED  BY <2>1, <2>2 DEF CleansUp
<1>5. ASSUME pc'[c] = "done"
      PROVE  /\ c \in prompts' => result'[c] = "loadFailed" \/ c \in unrevoked'
             /\ c \in readers' => result'[c] = "promptFailed"
  <2>1. CASE Refuse(c) \/ SendText(c) \/ Answer(c)
    <3>1. pc[c] \in {"idle", "waiting", "answer"} /\ UNCHANGED <<prompts, readers>>
      BY <2>1 DEF Refuse, SendText, Waited, Answer, group
    <3> QED  BY <1>2, <1>3, <3>1
  <2>2. CASE Download(c) \/ WriteFails(c) \/ LoadFails(c)
    <3>1. pc[c] \in {"download", "create", "front", "back", "open"} /\ UNCHANGED <<prompts, readers>>
      BY <2>2 DEF Download, WriteFails, LoadFails, group
    <3>2. Kind(c) \notin Storing => result'[c] = "loadFailed"
      <4>1. Kind(c) \notin Storing => Return(c, "loadFailed") \/ Goto(c, "create")
        BY <2>2 DEF Download, WriteFails, LoadFails, GivesUp
      <4> QED  BY <1>1, <1>5, <4>1 DEF Return, Goto
    <3> QED  BY <1>2, <1>3, <3>1, <3>2 DEF Storing
  <2>3. CASE NilPrompt(c)
    <3>1. c \notin prompted /\ UNCHANGED prompts /\ result'[c] = "promptFailed"
      BY <1>1, <2>3 DEF NilPrompt, Return, group
    <3> QED  BY <1>1, <3>1
  <2>4. CASE SendFile(c) \/ SendFails(c)
    BY <2>4 DEF SendFile, SendFails, Leave, Closes, Revoke
  <2>5. CASE \/ Wait(c) \/ Start(c) \/ SendPrompt(c) \/ PromptFails(c) \/ PrepareReturns(c)
             \/ Create(c) \/ WriteFront(c) \/ WriteBack(c) \/ Open(c)
    <3>1. \E label \in {"waiting", "download", "create", "open", "front", "back", "answer", "prepared", "send"} :
            pc' = [pc EXCEPT ![c] = label]
      BY <2>5 DEF Wait, Start, SendPrompt, PromptFails, PrepareReturns, Create, WriteFront, WriteBack, Open, Goto, Loading
    <3> QED  BY <1>1, <1>5, <3>1
  <2> QED  BY <2>1, <2>2, <2>3, <2>4, <2>5 DEF Sending, Filing
<1> QED  BY <1>4, <1>5 DEF CleansUp

\* Prompts are revoked and readers closed, but in the cases the property names (SendGroupMediaMsg's deferred calls).
THEOREM CommandsCleanUp == Spec => []CleansUp
<1>1. Init => CleansUp
  BY DEF Init, CleansUp
<1>2. Shape /\ CleansUp /\ [Next]_vars => CleansUp'
  <2> SUFFICES ASSUME Shape, CleansUp, [Next]_vars PROVE CleansUp'
    OBVIOUS
  <2>1. CASE Tick \/ UNCHANGED vars
    BY <2>1 DEF Tick, vars, group, CleansUp
  <2> QED  BY <2>1, StepCleansUp DEF Next
<1> QED  BY <1>1, <1>2, ShapeHolds, PTL DEF Spec

-----------------------------------------------------------------------------
(* The limiter. *)

\* Every wait was granted a token of its own: they come one a second, up to full, and a
\* wait ends before the burst after it has come.
Slots(slot) ==
    /\ slot \in [Commands -> Nat]
    /\ \A c \in Commands : due[c] # 0 => due[c] < slot[c] /\ slot[c] <= due[c] + Burst /\ slot[c] <= full
    /\ \A c, d \in Commands : due[c] # 0 /\ due[d] # 0 /\ slot[c] = slot[d] => c = d

Granted ==
    /\ \E slot : Slots(slot)
    /\ \A c \in Commands : due[c] <= now + MaxWait

\* Waits that end between s and t have different tokens, between s + 1 and t + Burst.
LEMMA SlotsPace ==
    ASSUME Shape, NEW slot, Slots(slot), NEW s \in 1..full, NEW t \in 1..full, s <= t
    PROVE  Cardinality({c \in Commands : due[c] \in s..t}) <= Burst + (t - s)
<1> DEFINE S == {c \in Commands : due[c] \in s..t}
           T == (s + 1)..(t + Burst)
           f == [c \in S |-> slot[c]]
<1>1. due \in [Commands -> 0..full] /\ full \in Nat /\ s \in Nat /\ t \in Nat /\ s >= 1 /\ Burst \in Nat \ {0}
  BY LimiterType DEF Shape, TypeOK
<1>2. IsFiniteSet(T) /\ Cardinality(T) = Burst + (t - s)
  <2>1. s + 1 \in Int /\ t + Burst \in Int /\ ~(s + 1 > t + Burst)
    BY <1>1
  <2> HIDE DEF T
  <2>2. IsFiniteSet(T) /\ Cardinality(T) = IF s + 1 > t + Burst THEN 0 ELSE (t + Burst) - (s + 1) + 1
    BY <2>1, FS_Interval DEF T
  <2> QED  BY <1>1, <2>1, <2>2
<1>3. \A c \in S : slot[c] \in T
  BY <1>1 DEF Slots
<1>4. \A c, d \in S : slot[c] = slot[d] => c = d
  BY <1>1 DEF Slots
<1>5. f \in Injection(S, T)
  BY <1>3, <1>4 DEF Injection, IsInjective
<1> HIDE DEF S, T, f
<1>6. Cardinality(S) <= Cardinality(T)
  BY <1>2, <1>5, FS_Injection
<1> QED  BY <1>2, <1>6 DEF S

\* A granted wait takes the next token, and nothing else touches the waits.
LEMMA GrantedKept ==
    ASSUME Shape, Granted, [Next]_vars
    PROVE  Granted'
<1>1. /\ now \in Nat /\ full \in Nat /\ now <= full /\ due \in [Commands -> 0..full]
      /\ Burst \in Nat \ {0} /\ MaxWait \in Nat /\ FileTokens \in Nat
  BY LimiterType DEF Shape, TypeOK
<1>2. PICK slot : Slots(slot)
  BY DEF Granted
<1>3. CASE UNCHANGED due /\ now <= now' /\ full <= full' /\ now' \in Nat /\ full' \in Nat
  <2>1. Slots(slot)'
    BY <1>1, <1>2, <1>3 DEF Slots
  <2>2. \A c \in Commands : due'[c] <= now' + MaxWait
    BY <1>1, <1>3 DEF Granted
  <2> QED  BY <2>1, <2>2 DEF Granted
<1>4. ASSUME NEW c \in Commands, Grants(1, MaxWait), due' = [due EXCEPT ![c] = DueFor(1)], full' = Taken(1),
             now' = now
      PROVE  Granted'
  <2> DEFINE end == DueFor(1)
  <2>1. /\ end \in Nat /\ full' \in Nat /\ full < full' /\ end < full' /\ full' <= end + Burst
        /\ end <= now + MaxWait
    BY <1>1, <1>4 DEF DueFor, Taken, Later, Grants
  <2> HIDE DEF end
  <2>2. \A d \in Commands : due'[d] = IF d = c THEN end ELSE due[d]
    BY <1>1, <1>4 DEF end
  <2>3. PICK new : new \in [Commands -> Nat] /\ \A d \in Commands : new[d] = IF d = c THEN full' ELSE slot[d]
    <3> DEFINE moved == [slot EXCEPT ![c] = full']
    <3>1. moved \in [Commands -> Nat] /\ \A d \in Commands : moved[d] = IF d = c THEN full' ELSE slot[d]
      BY <1>2, <2>1 DEF Slots
    <3> HIDE DEF moved
    <3> QED  BY <3>1
  <2>4. \A d \in Commands : due'[d] # 0 => due'[d] < new[d] /\ new[d] <= due'[d] + Burst /\ new[d] <= full'
    BY <1>1, <1>2, <2>1, <2>2, <2>3 DEF Slots
  <2>5. ASSUME NEW d \in Commands, NEW e \in Commands, due'[d] # 0, due'[e] # 0, new[d] = new[e] PROVE d = e
    <3>1. \A b \in Commands \ {c} : due'[b] # 0 => new[b] <= full /\ new[b] \in Nat
      BY <1>2, <2>2, <2>3 DEF Slots
    <3> QED  BY <1>1, <1>2, <2>1, <2>2, <2>3, <2>5, <3>1 DEF Slots
  <2>6. Slots(new)'
    BY <2>3, <2>4, <2>5 DEF Slots
  <2>7. \A d \in Commands : due'[d] <= now' + MaxWait
    BY <1>1, <1>4, <2>1, <2>2 DEF Granted
  <2> QED  BY <2>6, <2>7 DEF Granted
<1>5. CASE Tick
  BY <1>1, <1>3, <1>5 DEF Tick
<1>6. ASSUME NEW c \in Commands, Wait(c) PROVE Granted'
  BY <1>1, <1>3, <1>4, <1>6 DEF Wait, WaitFor
<1>7. ASSUME NEW c \in Commands, Open(c) PROVE Granted'
  <2>1. UNCHANGED <<due, now>> /\ full' \in {full, Taken(FileTokens)}
    BY <1>7 DEF Open, WaitFor
  <2>2. Taken(FileTokens) \in Nat /\ full <= Taken(FileTokens)
    BY <1>1, WaitsEnd
  <2> QED  BY <1>1, <1>3, <2>1, <2>2
<1>8. CASE UNCHANGED limiter
  BY <1>1, <1>3, <1>8 DEF limiter
<1> QED  BY <1>5, <1>6, <1>7, <1>8
         DEF Next, vars, Refuse, Start, Download, Sending, SendText, SendPrompt, PromptFails, PrepareReturns, NilPrompt,
             SendFile, SendFails, Filing, Create, WriteFront, WriteBack, WriteFails, LoadFails, Answer

\* Texts and prompts leave at the limiter's pace, and none waits longer than its deadline (rate.Limiter).
THEOREM WaitsPaced == Spec => []Paced
<1>1. Init => Granted
  <2>1. ASSUME Init PROVE Slots([c \in Commands |-> 0])
    BY <2>1 DEF Init, Slots
  <2> QED  BY <2>1, LimiterType DEF Init, Granted
<1>2. Shape /\ Granted /\ [Next]_vars => Granted'
  BY GrantedKept
<1>3. Shape /\ Granted => Paced
  BY SlotsPace DEF Granted, Paced
<1> QED  BY <1>1, <1>2, <1>3, ShapeHolds, PTL DEF Spec
=============================================================================
