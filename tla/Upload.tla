------------------------------- MODULE Upload -------------------------------
(***************************************************************************)
(* Uploading a file in chunks: the upload page of a browser                *)
(* (static/js/views/widget/fileupload.js over libs/resumable) and the      *)
(* command line client (common/api/upload.py) against the pacemaker        *)
(* (pacemaker/controller/upload.py).                                       *)
(*                                                                         *)
(* All uploaders here use one identifier: the same user, and files of the  *)
(* same name and size.  They are all pages or all command lines, whose     *)
(* chunks are larger.  A request and its answer are one step, as nothing   *)
(* but the answer depends on when it arrives; the answer of the request    *)
(* that assembles the file comes when the assembly ends.  All parts have   *)
(* the size of their chunk, so their sizes add up to the size of the file  *)
(* when all of them are there.  Requests nobody waits for any more, of one *)
(* version, chunk and progress, count as one: orphans and asm are sets.    *)
(***************************************************************************)
EXTENDS Naturals, FiniteSets

CONSTANTS
  Uploaders,  \* upload pages, or runs of the command line client
  Content,    \* [Uploaders -> versions of the file]
  Missing,    \* no version
  Nobody,     \* the uploader of a request whose connection is gone
  Size,       \* number of chunks of the file
  Slots,      \* simultaneousUploads (3)
  MaxFaults   \* bound on lost connections, 500 answers and crashes together

Chunks == 1..Size
Versions == {Content[u] : u \in Uploaders}

ASSUME UploadAssumption ==
  /\ Nobody \notin Uploaders
  /\ Size \in Nat \ {0} /\ MaxFaults \in Nat
  /\ Slots \in Nat \ {0}
  /\ Missing \notin Versions

VARIABLES
  pages,    \* whether the uploaders are pages: they retry what was not answered
  file,     \* [Uploaders -> state of the file that the uploader sends]
  chunk,    \* [Uploaders -> [Chunks -> what its request is doing]]
  tested,   \* [Uploaders -> SUBSET Chunks], chunks not to be looked for again
  reached,  \* uploaders whose progress() was 1 once (_prevProgress)
  done,     \* uploaders that said 'Upload complete.'
  parts,    \* [Chunks -> Versions \cup {Missing}], scratch/partialuploads
  output,   \* [Chunks -> Versions \cup {Missing}], scratch/uploads
  asm,      \* the assemblies that run
  orphans,  \* data that is on its way and whose sender does not wait for it
  faults,   \* faults so far
  crashed   \* whether the pacemaker crashed

clientVars == <<pages, file, chunk, tested, reached, done>>
serverVars == <<parts, output, asm>>
vars == <<pages, file, chunk, tested, reached, done, parts, output, asm, orphans, faults, crashed>>

-----------------------------------------------------------------------------
\* An upload is refused when the pacemaker answers 500 to a chunk, and torn when
\* an assembly that it waits for finds a part missing: the uploader sees an error.
\* A command line is lost when it neither finished nor called error_callback.
FileStates == {"none", "active", "refused", "torn", "lost", "cancelled"}

\* A chunk is looked for (test), transmitted (post), with the server (sent),
\* or its answer waits for the assembly that it started (waiting).
ChunkStates == {"pending", "test", "post", "sent", "waiting", "success"}
InFlight == {"test", "post", "sent", "waiting"}

Request == [who : Uploaders \cup {Nobody}, chunk : Chunks]
Assembly == [for : Request, left : SUBSET Chunks]

TypeOK ==
  /\ pages \in BOOLEAN
  /\ file \in [Uploaders -> FileStates]
  /\ chunk \in [Uploaders -> [Chunks -> ChunkStates]]
  /\ tested \in [Uploaders -> SUBSET Chunks]
  /\ reached \subseteq Uploaders /\ done \subseteq reached
  /\ parts \in [Chunks -> Versions \cup {Missing}]
  /\ output \in [Chunks -> Versions \cup {Missing}]
  /\ asm \subseteq Assembly
  /\ orphans \subseteq [chunk : Chunks, version : Versions]
  /\ faults \in 0..MaxFaults /\ crashed \in BOOLEAN

NoChunks == [c \in Chunks |-> "pending"]
NoFile == [c \in Chunks |-> Missing]

Init ==
  /\ pages \in BOOLEAN
  /\ file = [u \in Uploaders |-> "none"]
  /\ chunk = [u \in Uploaders |-> NoChunks]
  /\ tested = [u \in Uploaders |-> {}]
  /\ reached = {} /\ done = {}
  /\ parts = NoFile /\ output = NoFile
  /\ asm = {} /\ orphans = {}
  /\ faults = 0 /\ crashed = FALSE

Fault == faults < MaxFaults /\ faults' = faults + 1

-----------------------------------------------------------------------------
(* The uploader *)
Pending(ch) == {c \in Chunks : ch[c] = "pending"}
Least(S) == CHOOSE c \in S : \A d \in S : c <= d

\* The first n chunks of S.
Firsts(n, S) == {c \in S : Cardinality({d \in S : d < c}) < n}

\* How many requests an uploader has under way.
Width == IF pages THEN Slots ELSE 1

\* Mutant: two chunks are taken up when one ends.
UploadNextTwice(n, ch, known) ==
  [c \in Chunks |-> IF c \notin Firsts(2 * n, Pending(ch)) THEN ch[c]
                    ELSE IF c \in known THEN "post" ELSE "test"]

\* send, for the first n pending chunks: a chunk is tested once.
UploadNext(n, ch, known) ==
  [c \in Chunks |-> IF c \notin Firsts(n, Pending(ch)) THEN ch[c]
                    ELSE IF c \in known THEN "post" ELSE "test"]

\* The chunks that count as loaded: the last byte is sent.
Progress(ch) == {c \in Chunks : ch[c] \in {"sent", "waiting", "success"}}

\* Mutant: the answers that arrive do not start another chunk.
SucceedStop(u, c) ==
  LET ch == [chunk[u] EXCEPT ![c] = "success"] IN
  /\ reached' = IF Progress(ch) = Chunks THEN reached \cup {u} ELSE reached
  /\ done' = IF u \in reached' THEN done \cup {u} ELSE done
  /\ chunk' = [chunk EXCEPT ![u] = ch]
  /\ UNCHANGED <<pages, file>>

\* chunkEvent('success') and then uploadNextChunk.  progress() never falls back,
\* so it may still be 1 when a chunk that was loaded is sent again.
Succeed(u, c) ==
  LET ch == [chunk[u] EXCEPT ![c] = "success"] IN
  /\ reached' = IF Progress(ch) = Chunks THEN reached \cup {u} ELSE reached
  /\ done' = IF u \in reached' THEN done \cup {u} ELSE done
  /\ chunk' = [chunk EXCEPT ![u] = UploadNext(1, ch, tested[u])]
  /\ UNCHANGED <<pages, file>>

\* What the server may still get of requests that u aborts.
Aborted(u) == {[chunk |-> c, version |-> Content[u]] :
                 c \in {d \in Chunks : chunk[u][d] = "sent"}}

\* No answer goes to u any more.
Detach(u, cs, running) ==
  {IF a.for.who = u /\ a.for.chunk \in cs
   THEN [a EXCEPT !.for.who = Nobody] ELSE a : a \in running}

\* Mutant: the chunks are aborted one by one while they are still listed.
EndListed(u, how) ==
  /\ file' = [file EXCEPT ![u] = how]
  /\ chunk' = [chunk EXCEPT ![u] = UploadNext(Width, NoChunks, {})]
  /\ tested' = [tested EXCEPT ![u] = {}]
  /\ orphans' = orphans \cup Aborted(u)
  /\ UNCHANGED <<pages, reached, done>>

\* abort all chunks, and chunks = [].
End(u, how) ==
  /\ file' = [file EXCEPT ![u] = how]
  /\ chunk' = [chunk EXCEPT ![u] = NoChunks]
  /\ tested' = [tested EXCEPT ![u] = {}]
  /\ orphans' = orphans \cup Aborted(u)
  /\ UNCHANGED <<pages, reached, done>>

\* No answer: a page sends the chunk again at once, whatever the server did with
\* it.  The command line parses a body that is not there before it calls
\* error_callback, and stops.  The data may be on its way.
Unanswered(u, c) ==
  /\ orphans' = orphans \cup {o \in Aborted(u) : o.chunk = c}
  /\ IF pages
     THEN /\ chunk' = [chunk EXCEPT ![u][c] = "post"]
          /\ UNCHANGED <<file, tested>>
     ELSE /\ file' = [file EXCEPT ![u] = "lost"]
          /\ chunk' = [chunk EXCEPT ![u] = NoChunks]
          /\ tested' = [tested EXCEPT ![u] = {}]
  /\ UNCHANGED <<pages, reached, done>>

\* fileAdded: a new page, or a new command, starts from the first chunk.
Add(u) ==
  /\ file[u] = "none"
  /\ file' = [file EXCEPT ![u] = "active"]
  /\ chunk' = [chunk EXCEPT ![u] = UploadNext(Width, NoChunks, {})]
  /\ UNCHANGED <<pages, tested, reached, done, serverVars, orphans, faults, crashed>>

\* destroy of the page, or the command is interrupted.
Leave(u) ==
  /\ file[u] = "active"
  /\ End(u, "cancelled")
  /\ asm' = Detach(u, Chunks, asm)
  /\ UNCHANGED <<parts, output, faults, crashed>>

Transmit(u, c) ==
  /\ chunk[u][c] = "post"
  /\ chunk' = [chunk EXCEPT ![u][c] = "sent"]
  /\ UNCHANGED <<pages, file, tested, reached, done, serverVars, orphans, faults, crashed>>

\* The progress event of a chunk whose last byte is sent.
Progressed(u, c) ==
  /\ pages /\ chunk[u][c] = "sent"
  /\ u \notin reached /\ Progress(chunk[u]) = Chunks
  /\ reached' = reached \cup {u}
  /\ UNCHANGED <<pages, file, chunk, tested, done, serverVars, orphans, faults, crashed>>

-----------------------------------------------------------------------------
(* The pacemaker *)

\* get
Test(u, c) ==
  /\ chunk[u][c] = "test"
  /\ tested' = [tested EXCEPT ![u] = @ \cup {c}]
  /\ \/ parts[c] # Missing /\ Succeed(u, c)
     \/ /\ parts[c] = Missing
        /\ chunk' = [chunk EXCEPT ![u][c] = "post"]
        /\ UNCHANGED <<pages, file, reached, done>>
  /\ UNCHANGED <<serverVars, orphans, faults, crashed>>

\* Anything but a 200 makes the uploader send the chunk.
TestLost(u, c) ==
  /\ chunk[u][c] = "test"
  /\ Fault
  /\ tested' = [tested EXCEPT ![u] = @ \cup {c}]
  /\ chunk' = [chunk EXCEPT ![u][c] = "post"]
  /\ UNCHANGED <<pages, file, reached, done, serverVars, orphans, crashed>>

\* The sizes of the parts add up to the size of the file.
Complete(p) == \A c \in Chunks : p[c] # Missing

\* Mutant: the other chunks are counted from zero.
StoreFromZero(c, version, req, others) ==
  LET p == [parts EXCEPT ![c] = version] IN
  IF Complete(p)
  THEN /\ output' = [NoFile EXCEPT ![1] = p[1]]
       /\ parts' = [p EXCEPT ![1] = Missing]
       /\ asm' = others \cup {[for |-> req, left |-> 0..(Size - 1)]}
  ELSE /\ parts' = p
       /\ asm' = others
       /\ UNCHANGED output

\* post: write the part; when the sizes add up, truncate the output and assemble
\* the first part.  others are the assemblies that run.
Store(c, version, req, others) ==
  LET p == [parts EXCEPT ![c] = version] IN
  IF Complete(p)
  THEN /\ output' = [NoFile EXCEPT ![1] = p[1]]
       /\ parts' = [p EXCEPT ![1] = Missing]
       /\ asm' = others \cup {[for |-> req, left |-> Chunks \ {1}]}
  ELSE /\ parts' = p
       /\ asm' = others
       /\ UNCHANGED output

Post(u, c) ==
  /\ chunk[u][c] = "sent"
  /\ Store(c, Content[u], [who |-> u, chunk |-> c], asm)
  /\ IF asm' # asm
     THEN /\ chunk' = [chunk EXCEPT ![u][c] = "waiting"]
          /\ UNCHANGED <<pages, file, reached, done>>
     ELSE Succeed(u, c)
  /\ UNCHANGED <<tested, orphans, faults, crashed>>

\* A 500: nothing is stored, and the upload ends with an error.
Refuse(u, c) ==
  /\ chunk[u][c] = "sent"
  /\ Fault
  /\ End(u, "refused")
  /\ asm' = Detach(u, Chunks, asm)
  /\ UNCHANGED <<parts, output, crashed>>

\* The connection goes before the server has the data, before its answer is back
\* or while it assembles.
Drop(u, c) ==
  /\ chunk[u][c] \in {"post", "sent", "waiting"}
  /\ Fault
  /\ Unanswered(u, c)
  /\ asm' = Detach(u, {c}, asm)
  /\ UNCHANGED <<parts, output, crashed>>

\* The data of a request that was aborted or lost arrives, or never does.
PostOrphan(o) ==
  /\ o \in orphans
  /\ orphans' = orphans \ {o}
  /\ \/ Store(o.chunk, o.version, [who |-> Nobody, chunk |-> o.chunk], asm)
     \/ UNCHANGED serverVars
  /\ UNCHANGED <<clientVars, faults, crashed>>

\* Mutant: the next iteration is not asked for.
AssembleOnce(a) ==
  /\ a \in asm /\ a.left # {}
  /\ LET c == Least(a.left) IN
     /\ parts[c] # Missing
     /\ output' = [output EXCEPT ![c] = parts[c]]
     /\ parts' = [parts EXCEPT ![c] = Missing]
     /\ asm' = (asm \ {a}) \cup {[a EXCEPT !.left = {}]}
  /\ UNCHANGED <<clientVars, orphans, faults, crashed>>

\* assemble_chunk: one part in each iteration of the IO loop.
AssembleNext(a) ==
  /\ a \in asm /\ a.left # {}
  /\ LET c == Least(a.left) IN
     /\ parts[c] # Missing
     /\ output' = [output EXCEPT ![c] = parts[c]]
     /\ parts' = [parts EXCEPT ![c] = Missing]
     /\ asm' = (asm \ {a}) \cup {[a EXCEPT !.left = @ \ {c}]}
  /\ UNCHANGED <<clientVars, orphans, faults, crashed>>

\* Mutant: the error that opening a missing part raises is not answered.
AssembleFailsSilently(a) ==
  /\ a \in asm /\ a.left # {}
  /\ parts[Least(a.left)] = Missing
  /\ asm' = asm \ {a}
  /\ UNCHANGED <<clientVars, orphans, parts, output, faults, crashed>>

\* Another assembly took the part: opening it raises, and the request is answered
\* with a 500.
AssembleFails(a) ==
  /\ a \in asm /\ a.left # {}
  /\ parts[Least(a.left)] = Missing
  /\ LET u == a.for.who IN
     IF u = Nobody
     THEN asm' = asm \ {a} /\ UNCHANGED <<clientVars, orphans>>
     ELSE asm' = Detach(u, Chunks, asm \ {a}) /\ End(u, "torn")
  /\ UNCHANGED <<parts, output, faults, crashed>>

\* No more parts: the request is answered.
Assembled(a) ==
  /\ a \in asm /\ a.left = {}
  /\ asm' = asm \ {a}
  /\ IF a.for.who = Nobody THEN UNCHANGED <<pages, file, chunk, reached, done>>
     ELSE Succeed(a.for.who, a.for.chunk)
  /\ UNCHANGED <<tested, parts, output, orphans, faults, crashed>>

\* A chunk of u is on its way to the pacemaker, or its answer is awaited.
Posting(u) == \E c \in Chunks : chunk[u][c] \in {"post", "sent", "waiting"}

\* The pacemaker crashes and comes back at once: the requests are not answered and
\* the assemblies are gone.  It may have stored a part without assembling the file.
Crash ==
  /\ Fault
  /\ crashed' = TRUE
  /\ asm' = {}
  /\ \/ UNCHANGED parts
     \/ \E u \in Uploaders, c \in Chunks :
          /\ chunk[u][c] = "sent"
          /\ parts' = [parts EXCEPT ![c] = Content[u]]
  /\ LET gone == {u \in Uploaders : ~pages /\ Posting(u)} IN
     /\ file' = [u \in Uploaders |-> IF u \in gone THEN "lost" ELSE file[u]]
     /\ chunk' = [u \in Uploaders |->
          IF u \in gone THEN NoChunks
          ELSE [c \in Chunks |-> IF chunk[u][c] \in InFlight THEN "post" ELSE chunk[u][c]]]
     /\ tested' = [u \in Uploaders |->
          IF u \in gone THEN {}
          ELSE tested[u] \cup {c \in Chunks : chunk[u][c] = "test"}]
  /\ UNCHANGED <<pages, reached, done, output, orphans>>

-----------------------------------------------------------------------------
Answers(u, c) == Transmit(u, c) \/ Test(u, c) \/ Post(u, c)
Faulty(u, c) == TestLost(u, c) \/ Refuse(u, c) \/ Drop(u, c)
Assembling == \E a \in asm : AssembleNext(a) \/ AssembleFails(a) \/ Assembled(a)

Next ==
  \/ \E u \in Uploaders : Add(u) \/ Leave(u)
  \/ \E u \in Uploaders, c \in Chunks :
       Answers(u, c) \/ Progressed(u, c) \/ Faulty(u, c)
  \/ \E o \in orphans : PostOrphan(o)
  \/ Assembling
  \/ Crash

\* Requests are transmitted and answered, and the IO loop goes on.
Fairness ==
  /\ \A u \in Uploaders : \A c \in Chunks : WF_vars(Answers(u, c))
  /\ WF_vars(Assembling)

Spec == Init /\ [][Next]_vars /\ Fairness

-----------------------------------------------------------------------------
(* Properties *)
Whole(u) == output = [c \in Chunks |-> Content[u]]

\* At most simultaneousUploads requests of an uploader are under way.
SlotsRespected ==
  \A u \in Uploaders :
    Cardinality({c \in Chunks : chunk[u][c] \in InFlight}) <= Width

\* An upload that was left, or that ended with an error, sends nothing more.
QuietAfterEnd ==
  \A u \in Uploaders : file[u] \notin {"none", "active"} =>
    \A c \in Chunks : chunk[u][c] \notin InFlight

\* The request of a chunk will be answered: it is on its way, or the assembly that
\* answers it runs.
UnderWay(u, c) ==
  \/ chunk[u][c] \in {"test", "post", "sent"}
  \/ chunk[u][c] = "waiting" /\ \E a \in asm : a.for = [who |-> u, chunk |-> c]

\* An upload never waits for nothing: each request it has open will be answered,
\* and while chunks are left to send, it has one open.
NeverStalls ==
  \A u \in Uploaders :
    /\ \A c \in Chunks : chunk[u][c] \in InFlight => UnderWay(u, c)
    /\ file[u] = "active" /\ Pending(chunk[u]) # {} => \E c \in Chunks : UnderWay(u, c)

\* An upload ends, and the uploader is told: that the transfer is completed
\* (finished_callback of send_file, fileSuccess of a page) or that an error occurred
\* (error_callback, fileError), unless the user leaves.  There is one exception that
\* the docstring of send_file does not have: a command line whose request gets no
\* answer raises before it calls error_callback.
UploadEnds ==
  \A u \in Uploaders :
    file[u] = "active" ~>
      (u \in done \/ file[u] \in {"refused", "torn", "cancelled"} \/ (~pages /\ file[u] = "lost"))

\* What was reported as complete is complete in the end, unless the pacemaker
\* refuses a chunk that is sent again or crashes, or the user leaves.
ArrivesInTheEnd ==
  \A u \in Uploaders :
    u \in done ~> (Whole(u) \/ file[u] \in {"refused", "cancelled"} \/ crashed)
=============================================================================
