---------------------------- MODULE UploadProofs ----------------------------
(***************************************************************************)
(* Theorems about Upload, for any number of uploaders, any file and any    *)
(* number of slots and faults: its types, that an uploader never has more  *)
(* requests under way than it has slots, that it does not stall while      *)
(* chunks are left, and that it is quiet once its upload has ended.        *)
(***************************************************************************)
EXTENDS Upload, FiniteSetTheorems, WellFoundedInduction, TLAPS

\* The chunks of a list of chunks that have a request under way.
Flying(ch) == {c \in Chunks : ch[c] \in InFlight}

\* What an uploader may be, in the state f of its file and with the chunks ch.
Sound(f, ch) ==
  /\ f # "active" => ch = NoChunks
  /\ Cardinality(Flying(ch)) <= Width
  /\ f = "active" /\ Pending(ch) # {} => Flying(ch) # {}

\* The request that an assembly answers is one that waits for it.
Awaited ==
  \A a \in asm : a.for.who # Nobody => chunk[a.for.who][a.for.chunk] = "waiting"

\* A request that waits has an assembly that will answer it.
WillBeAnswered ==
  \A u \in Uploaders : \A c \in Chunks :
    chunk[u][c] = "waiting" => \E a \in asm : a.for = [who |-> u, chunk |-> c]

\* Two assemblies do not answer the same request.
AnsweredOnce ==
  \A a, b \in asm : a.for = b.for /\ a.for.who # Nobody => a = b

AllSound == \A u \in Uploaders : Sound(file[u], chunk[u])

IInv == TypeOK /\ AllSound /\ Awaited /\ WillBeAnswered /\ AnsweredOnce

\* A step leaves the requests that wait as they are, that of chunk c of u aside.
OthersWait(u, c) ==
  \A v \in Uploaders : \A d \in Chunks :
    (v = u => d # c) => (chunk'[v][d] = "waiting" <=> chunk[v][d] = "waiting")

-----------------------------------------------------------------------------
(* The chunks of a file *)

\* A set of chunks is finite, and a set of numbers.
LEMMA ChunksFinite ==
  ASSUME NEW S \in SUBSET Chunks
  PROVE  IsFiniteSet(S) /\ Cardinality(S) \in Nat /\ S \subseteq Nat
<1>1. Size \in Nat
  BY UploadAssumption
<1>2. IsFiniteSet(Chunks)
  BY <1>1, FS_Interval DEF Chunks
<1>3. IsFiniteSet(S)
  BY <1>2, FS_Subset
<1> QED
  BY <1>1, <1>3, FS_CardinalityType DEF Chunks

\* Chunks that are left have a first one.
LEMMA LeastExists ==
  ASSUME NEW S \in SUBSET Chunks, S # {}
  PROVE  \E c \in S : \A d \in S : c <= d
<1>1. S \subseteq Nat
  BY ChunksFinite
<1> DEFINE R == OpToRel(<, Nat)
<1>2. R = {ss \in Nat \X Nat : ss[1] < ss[2]}
  BY DEF OpToRel
<1>3. IsWellFoundedOn(R, Nat)
  BY NatLessThanWellFounded, ZenonT(40)
<1> HIDE DEF R
<1>4. PICK c \in S : \A d \in S : ~(<<d, c>> \in R)
  BY <1>1, <1>3, WFMin
<1>5. ASSUME NEW d \in S PROVE c <= d
  <2>1. c \in Nat /\ d \in Nat
    BY <1>1
  <2>2. <<d, c>> \notin {ss \in Nat \X Nat : ss[1] < ss[2]}
    BY <1>2, <1>4
  <2> QED
    BY <2>1, <2>2
<1> QED
  BY <1>5

\* And a last one.
LEMMA GreatestExists ==
  ASSUME NEW S \in SUBSET Chunks, S # {}
  PROVE  \E c \in S : \A d \in S : d <= c
<1> DEFINE T == {Size + 1 - c : c \in S}
<1>1. T \in SUBSET Chunks /\ T # {}
  <2>1. Size \in Nat
    BY UploadAssumption
  <2>2. ASSUME NEW c \in S PROVE Size + 1 - c \in Chunks
    BY <2>1 DEF Chunks
  <2> QED
    BY <2>2
<1>2. PICK t \in T : \A r \in T : t <= r
  BY <1>1, LeastExists
<1>3. PICK c \in S : t = Size + 1 - c
  BY <1>2
<1>4. ASSUME NEW d \in S PROVE d <= c
  <2>1. Size + 1 - d \in T
    OBVIOUS
  <2>2. t <= Size + 1 - d
    BY <1>2, <2>1
  <2> QED
    BY <1>3, <2>2, UploadAssumption DEF Chunks
<1> QED
  BY <1>4

\* Firsts never takes more chunks than it is asked for.
LEMMA FirstsBounded ==
  ASSUME NEW S \in SUBSET Chunks, NEW n \in Nat
  PROVE  Firsts(n, S) \subseteq S /\ Cardinality(Firsts(n, S)) <= n
<1> DEFINE F == Firsts(n, S)
<1>1. F \subseteq S
  BY DEF Firsts
<1>2. CASE F = {}
  BY <1>1, <1>2, FS_EmptySet
<1>3. CASE F # {}
  <2>1. PICK m \in F : \A d \in F : d <= m
    BY <1>1, <1>3, GreatestExists
  <2> DEFINE B == {d \in S : d < m}
  <2>2. IsFiniteSet(B) /\ Cardinality(B) \in Nat /\ m \notin B
    <3>1. B \in SUBSET Chunks
      OBVIOUS
    <3>2. m \in Nat
      BY <1>1, ChunksFinite
    <3> QED
      BY <3>1, <3>2, ChunksFinite
  <2>3. Cardinality(B) < n
    BY DEF Firsts
  <2>4. F \subseteq B \cup {m}
    <3>1. ASSUME NEW d \in F, d # m PROVE d \in B
      BY <1>1, <2>1, <3>1, ChunksFinite
    <3> QED
      BY <3>1
  <2>5. IsFiniteSet(B \cup {m}) /\ Cardinality(B \cup {m}) = Cardinality(B) + 1
    BY <2>2, FS_AddElement
  <2>6. Cardinality(F) <= Cardinality(B) + 1
    BY <2>4, <2>5, FS_Subset
  <2>7. Cardinality(F) \in Nat
    BY <1>1, ChunksFinite
  <2> QED
    BY <1>1, <2>2, <2>3, <2>6, <2>7
<1> QED
  BY <1>2, <1>3

\* It takes some, when some are left.
LEMMA FirstsMeet ==
  ASSUME NEW S \in SUBSET Chunks, S # {}, NEW n \in Nat \ {0}
  PROVE  Firsts(n, S) # {}
<1>1. PICK c \in S : \A d \in S : c <= d
  BY LeastExists
<1>2. {d \in S : d < c} = {}
  BY <1>1, ChunksFinite
<1>3. Cardinality({d \in S : d < c}) < n
  BY <1>2, FS_EmptySet
<1> QED
  BY <1>3 DEF Firsts

\* uploadNextChunk: no more than n chunks are taken up, some are if some were
\* left, and the others stay what they are.
LEMMA UploadNextSafe ==
  ASSUME NEW ch \in [Chunks -> ChunkStates], NEW n \in Nat \ {0}, NEW known
  PROVE  LET next == UploadNext(n, ch, known) IN
         /\ next \in [Chunks -> ChunkStates]
         /\ Cardinality(Flying(next)) <= Cardinality(Flying(ch)) + n
         /\ Pending(next) # {} => Flying(next) # {}
         /\ \A c \in Chunks : next[c] = ch[c] \/ (ch[c] = "pending" /\ next[c] \in {"test", "post"})
<1> DEFINE next == UploadNext(n, ch, known)
           F == Firsts(n, Pending(ch))
<1>1. Pending(ch) \in SUBSET Chunks
  BY DEF Pending
<1>2. F \subseteq Pending(ch) /\ Cardinality(F) <= n
  BY <1>1, FirstsBounded
<1>3. next \in [Chunks -> ChunkStates]
  BY DEF UploadNext, ChunkStates
<1>4. \A c \in Chunks : next[c] = ch[c] \/ (ch[c] = "pending" /\ next[c] \in {"test", "post"})
  BY <1>2 DEF UploadNext, Pending
<1>5. Flying(next) = Flying(ch) \cup F
  <2>1. \A c \in F : c \in Chunks /\ next[c] \in {"post", "test"}
    BY <1>1, <1>2 DEF UploadNext
  <2>2. \A c \in Chunks \ F : next[c] = ch[c]
    BY DEF UploadNext
  <2>3. \A c \in F : ch[c] = "pending"
    BY <1>2 DEF Pending
  <2> QED
    BY <2>1, <2>2, <2>3 DEF Flying, InFlight
<1>6. Cardinality(Flying(next)) <= Cardinality(Flying(ch)) + n
  <2>1. /\ IsFiniteSet(Flying(ch)) /\ Cardinality(Flying(ch)) \in Nat
        /\ IsFiniteSet(F) /\ Cardinality(F) \in Nat
    BY <1>1, <1>2, ChunksFinite DEF Flying
  <2>2. Cardinality(Flying(ch) \cap F) \in Nat
    BY <2>1, FS_Intersection, FS_CardinalityType
  <2>3. Cardinality(Flying(ch) \cup F) =
          Cardinality(Flying(ch)) + Cardinality(F) - Cardinality(Flying(ch) \cap F)
    BY <2>1, FS_Union
  <2> HIDE DEF next, F
  <2> QED
    BY <1>2, <1>5, <2>1, <2>2, <2>3
<1>7. Pending(next) # {} => Flying(next) # {}
  <2>1. ASSUME Pending(next) # {} PROVE Pending(ch) # {}
    BY <2>1 DEF Pending, UploadNext
  <2>2. Pending(ch) # {} => F # {}
    BY <1>1, FirstsMeet
  <2> QED
    BY <1>5, <2>1, <2>2
<1> QED
  BY <1>3, <1>4, <1>6, <1>7

\* NoChunks: nothing is under way.
LEMMA NoChunksIdle ==
  /\ NoChunks \in [Chunks -> ChunkStates]
  /\ Flying(NoChunks) = {} /\ Cardinality(Flying(NoChunks)) = 0
  /\ \A c \in Chunks : NoChunks[c] = "pending"
<1>1. NoChunks \in [Chunks -> ChunkStates] /\ \A c \in Chunks : NoChunks[c] = "pending"
  BY DEF NoChunks, ChunkStates
<1>2. Flying(NoChunks) = {}
  BY <1>1 DEF Flying, InFlight
<1> QED
  BY <1>1, <1>2, FS_EmptySet

\* An uploader uses at least one slot.
LEMMA WidthType == Width \in Nat \ {0}
BY UploadAssumption DEF Width

-----------------------------------------------------------------------------
(* What the calls of the handlers do *)

\* A request that goes on, or is sent again, keeps its slot.
LEMMA GoesOn ==
  ASSUME IInv, NEW u \in Uploaders, NEW c \in Chunks, chunk[u][c] \in InFlight,
         NEW s \in InFlight, chunk' = [chunk EXCEPT ![u][c] = s],
         UNCHANGED <<pages, file>>
  PROVE  /\ chunk' \in [Uploaders -> [Chunks -> ChunkStates]]
         /\ AllSound'
         /\ OthersWait(u, c) /\ chunk'[u][c] = s
<1>1. chunk \in [Uploaders -> [Chunks -> ChunkStates]]
  BY DEF IInv, TypeOK
<1>2. s \in ChunkStates
  BY DEF InFlight, ChunkStates
<1>3. chunk' \in [Uploaders -> [Chunks -> ChunkStates]] /\ chunk'[u][c] = s
  BY <1>1, <1>2
<1>4. ASSUME NEW v \in Uploaders
      PROVE  Sound(file[v], chunk[v])'
  <2>1. Sound(file[v], chunk[v])
    BY DEF IInv, AllSound
  <2>2. CASE v # u
    BY <1>1, <2>1, <2>2 DEF Sound, Width, Flying, Pending
  <2>3. CASE v = u
    <3>1. chunk'[u] = [chunk[u] EXCEPT ![c] = s]
      BY <1>1
    <3>2. Flying(chunk'[u]) = Flying(chunk[u]) /\ Pending(chunk'[u]) = Pending(chunk[u])
      BY <1>1, <3>1 DEF Flying, Pending, InFlight
    <3>3. chunk[u] # NoChunks
      BY NoChunksIdle DEF InFlight
    <3> QED
      BY <2>1, <2>3, <3>2, <3>3 DEF Sound, Width
  <2> QED
    BY <2>2, <2>3
<1>5. OthersWait(u, c)
  BY <1>1 DEF OthersWait
<1> QED
  BY <1>3, <1>4, <1>5 DEF AllSound

\* A request that succeeds gives its slot to the next chunk.
LEMMA SucceedSafe ==
  ASSUME IInv, NEW u \in Uploaders, NEW c \in Chunks, chunk[u][c] \in InFlight,
         Succeed(u, c)
  PROVE  /\ UNCHANGED <<pages, file>>
         /\ reached' \subseteq Uploaders /\ done' \subseteq reached'
         /\ chunk' \in [Uploaders -> [Chunks -> ChunkStates]]
         /\ AllSound'
         /\ OthersWait(u, c) /\ chunk'[u][c] = "success"
<1> DEFINE ch == [chunk[u] EXCEPT ![c] = "success"]
           next == UploadNext(1, ch, tested[u])
<1>1. /\ chunk \in [Uploaders -> [Chunks -> ChunkStates]]
      /\ reached \subseteq Uploaders /\ done \subseteq reached
      /\ file \in [Uploaders -> FileStates]
  BY DEF IInv, TypeOK
<1>2. UNCHANGED <<pages, file>> /\ reached' \subseteq Uploaders /\ done' \subseteq reached'
  BY <1>1 DEF Succeed
<1>3. chunk' = [chunk EXCEPT ![u] = next]
  BY DEF Succeed
<1>4. ch \in [Chunks -> ChunkStates]
  BY <1>1 DEF ChunkStates
<1>5. /\ next \in [Chunks -> ChunkStates]
      /\ Cardinality(Flying(next)) <= Cardinality(Flying(ch)) + 1
      /\ Pending(next) # {} => Flying(next) # {}
      /\ \A d \in Chunks : next[d] = ch[d] \/ (ch[d] = "pending" /\ next[d] \in {"test", "post"})
  BY <1>4, UploadNextSafe
<1> HIDE DEF next
<1>6. chunk' \in [Uploaders -> [Chunks -> ChunkStates]]
  BY <1>1, <1>3, <1>5
<1>7. Cardinality(Flying(next)) <= Width
  <2>1. Flying(ch) = Flying(chunk[u]) \ {c} /\ c \in Flying(chunk[u])
    BY <1>1 DEF Flying, InFlight
  <2>2. IsFiniteSet(Flying(chunk[u])) /\ Cardinality(Flying(chunk[u])) \in Nat
    BY ChunksFinite DEF Flying
  <2>3. Cardinality(Flying(ch)) = Cardinality(Flying(chunk[u])) - 1
    BY <2>1, <2>2, FS_RemoveElement
  <2>4. Cardinality(Flying(chunk[u])) <= Width
    BY DEF IInv, AllSound, Sound
  <2>5. Cardinality(Flying(next)) \in Nat
    BY ChunksFinite DEF Flying
  <2> QED
    BY <1>5, <2>2, <2>3, <2>4, <2>5, WidthType
<1>8. file[u] = "active"
  <2>1. chunk[u] # NoChunks
    BY NoChunksIdle DEF InFlight
  <2> QED
    BY <2>1 DEF IInv, AllSound, Sound
<1>9. ASSUME NEW v \in Uploaders
      PROVE  Sound(file[v], chunk[v])'
  <2>1. CASE v # u
    <3>1. Sound(file[v], chunk[v])
      BY DEF IInv, AllSound
    <3> QED
      BY <1>1, <1>2, <1>3, <2>1, <3>1 DEF Sound, Width, Flying, Pending
  <2>2. CASE v = u
    BY <1>1, <1>2, <1>3, <1>5, <1>7, <1>8, <2>2 DEF Sound, Width
  <2> QED
    BY <2>1, <2>2
<1>10. OthersWait(u, c) /\ chunk'[u][c] = "success"
  <2>1. ASSUME NEW d \in Chunks PROVE next[d] = "waiting" <=> ch[d] = "waiting"
    BY <1>5
  <2>2. ch[c] = "success" /\ \A d \in Chunks \ {c} : ch[d] = chunk[u][d]
    BY <1>1
  <2>3. next[c] = "success"
    BY <1>5, <2>2
  <2>4. chunk'[u] = next /\ \A v \in Uploaders \ {u} : chunk'[v] = chunk[v]
    BY <1>1, <1>3
  <2> QED
    BY <2>1, <2>2, <2>3, <2>4 DEF OthersWait
<1> QED
  BY <1>2, <1>6, <1>9, <1>10 DEF AllSound

\* The end of an upload leaves nothing of it.
LEMMA EndSafe ==
  ASSUME IInv, NEW u \in Uploaders, NEW how \in FileStates \ {"active"},
         file' = [file EXCEPT ![u] = how],
         chunk' = [chunk EXCEPT ![u] = NoChunks],
         tested' = [tested EXCEPT ![u] = {}],
         orphans' \subseteq orphans \cup Aborted(u), UNCHANGED pages
  PROVE  /\ file' \in [Uploaders -> FileStates]
         /\ chunk' \in [Uploaders -> [Chunks -> ChunkStates]]
         /\ tested' \in [Uploaders -> SUBSET Chunks]
         /\ orphans' \subseteq [chunk : Chunks, version : Versions]
         /\ AllSound'
         /\ \A v \in Uploaders \ {u} : chunk'[v] = chunk[v]
         /\ \A d \in Chunks : chunk'[u][d] # "waiting"
<1>1. /\ chunk \in [Uploaders -> [Chunks -> ChunkStates]]
      /\ file \in [Uploaders -> FileStates]
      /\ tested \in [Uploaders -> SUBSET Chunks]
      /\ orphans \subseteq [chunk : Chunks, version : Versions]
  BY DEF IInv, TypeOK
<1>3. Aborted(u) \subseteq [chunk : Chunks, version : Versions]
  BY DEF Aborted, Versions
<1>4. file' \in [Uploaders -> FileStates]
  BY <1>1
<1>5. ASSUME NEW v \in Uploaders
      PROVE  Sound(file[v], chunk[v])'
  <2>1. CASE v # u
    <3>1. Sound(file[v], chunk[v])
      BY DEF IInv, AllSound
    <3> QED
      BY <1>1, <2>1, <3>1 DEF Sound, Width, Flying, Pending
  <2>2. CASE v = u
    <3>1. file'[v] # "active" /\ chunk'[v] = NoChunks
      BY <1>1, <2>2
    <3>2. Width' = Width
      BY DEF Width
    <3> QED
      BY <3>1, <3>2, NoChunksIdle, WidthType DEF Sound
  <2> QED
    BY <2>1, <2>2
<1>6. chunk' \in [Uploaders -> [Chunks -> ChunkStates]]
  BY <1>1, NoChunksIdle
<1>7. \A d \in Chunks : chunk'[u][d] # "waiting"
  BY <1>1, NoChunksIdle
<1> QED
  BY <1>1, <1>3, <1>4, <1>5, <1>6, <1>7 DEF AllSound

\* A part is stored, and at most one assembly begins, for the request that
\* brought the part.
LEMMA StoreSafe ==
  ASSUME IInv, NEW c \in Chunks, NEW version \in Versions, NEW req \in Request,
         Store(c, version, req, asm)
  PROVE  /\ parts' \in [Chunks -> Versions \cup {Missing}]
         /\ output' \in [Chunks -> Versions \cup {Missing}]
         /\ asm' \subseteq Assembly
         /\ \E new : new.for = req /\ (asm' = asm \/ asm' = asm \cup {new})
<1> DEFINE p == [parts EXCEPT ![c] = version]
           new == [for |-> req, left |-> Chunks \ {1}]
<1>1. /\ parts \in [Chunks -> Versions \cup {Missing}]
      /\ output \in [Chunks -> Versions \cup {Missing}]
      /\ asm \subseteq Assembly
  BY DEF IInv, TypeOK
<1>2. p \in [Chunks -> Versions \cup {Missing}] /\ 1 \in Chunks
  BY <1>1, UploadAssumption DEF Chunks
<1>3. new \in Assembly /\ new.for = req
  BY DEF Assembly
<1>4. NoFile \in [Chunks -> Versions \cup {Missing}]
  BY DEF NoFile
<1>5. CASE /\ output' = [NoFile EXCEPT ![1] = p[1]]
           /\ parts' = [p EXCEPT ![1] = Missing]
           /\ asm' = asm \cup {new}
  BY <1>1, <1>2, <1>3, <1>4, <1>5
<1>6. CASE parts' = p /\ asm' = asm /\ UNCHANGED output
  BY <1>1, <1>2, <1>3, <1>6
<1> QED
  BY <1>5, <1>6 DEF Store

\* No answer to some requests of an uploader: the other assemblies stay, and so
\* do the requests that they answer.
LEMMA DetachSafe ==
  ASSUME IInv, NEW u \in Uploaders, NEW cs \in SUBSET Chunks,
         NEW running \in SUBSET asm, asm' = Detach(u, cs, running)
  PROVE  /\ asm' \subseteq Assembly
         /\ AnsweredOnce'
         /\ \A a \in asm' : a.for.who # Nobody =>
              a \in asm /\ (a.for.who = u => a.for.chunk \notin cs)
         /\ \A a \in running : ~(a.for.who = u /\ a.for.chunk \in cs) => a \in asm'
<1>1. asm \subseteq Assembly
  BY DEF IInv, TypeOK
<1>2. ASSUME NEW a \in asm'
      PROVE  /\ a \in Assembly
             /\ a.for.who # Nobody => a \in asm /\ (a.for.who = u => a.for.chunk \notin cs)
  <2>1. PICK b \in running : a = IF b.for.who = u /\ b.for.chunk \in cs
                             THEN [b EXCEPT !.for.who = Nobody] ELSE b
    BY DEF Detach
  <2>2. b \in Assembly /\ b.for \in Request
    BY <1>1 DEF Assembly
  <2>3. CASE b.for.who = u /\ b.for.chunk \in cs
    <3>1. a = [b EXCEPT !.for.who = Nobody]
      BY <2>1, <2>3
    <3>2. a.for.who = Nobody
      BY <2>2, <3>1 DEF Assembly, Request
    <3>3. a \in Assembly
      BY <2>2, <3>1 DEF Assembly, Request
    <3> QED
      BY <3>2, <3>3
  <2>4. CASE ~(b.for.who = u /\ b.for.chunk \in cs)
    BY <2>1, <2>2, <2>4
  <2> QED
    BY <2>3, <2>4
<1>3. AnsweredOnce'
  BY <1>2 DEF IInv, AnsweredOnce
<1>4. \A a \in running : ~(a.for.who = u /\ a.for.chunk \in cs) => a \in asm'
  BY DEF Detach
<1> QED
  BY <1>2, <1>3, <1>4

-----------------------------------------------------------------------------
(* One lemma for each kind of step *)

\* Nobody has sent anything at first.
LEMMA InitSafe ==
  ASSUME Init
  PROVE  IInv
<1>1. TypeOK
  <2>1. faults \in 0..MaxFaults
    BY UploadAssumption DEF Init
  <2>2. /\ file \in [Uploaders -> FileStates]
        /\ chunk \in [Uploaders -> [Chunks -> ChunkStates]]
        /\ tested \in [Uploaders -> SUBSET Chunks]
    BY NoChunksIdle DEF Init, FileStates
  <2>3. /\ parts \in [Chunks -> Versions \cup {Missing}]
        /\ output \in [Chunks -> Versions \cup {Missing}]
    BY DEF Init, NoFile
  <2>4. pages \in BOOLEAN /\ crashed \in BOOLEAN
    BY DEF Init
  <2> QED
    BY <2>1, <2>2, <2>3, <2>4 DEF Init, TypeOK
<1>2. ASSUME NEW u \in Uploaders PROVE Sound(file[u], chunk[u])
  <2>1. file[u] = "none" /\ chunk[u] = NoChunks
    BY DEF Init
  <2> QED
    BY <2>1, NoChunksIdle, WidthType DEF Sound
<1>3. asm = {}
  BY DEF Init
<1>4. WillBeAnswered
  BY NoChunksIdle DEF Init, WillBeAnswered
<1> QED
  BY <1>1, <1>2, <1>3, <1>4 DEF IInv, AllSound, Awaited, AnsweredOnce

\* The requests that assemblies answer.
LEMMA AwaitedRequest ==
  ASSUME IInv, NEW a \in asm, a.for.who # Nobody
  PROVE  /\ a.for.who \in Uploaders /\ a.for.chunk \in Chunks
         /\ chunk[a.for.who][a.for.chunk] = "waiting"
<1>1. a \in Assembly
  BY DEF IInv, TypeOK
<1> QED
  BY <1>1 DEF Assembly, Request, IInv, Awaited

\* When no new assembly begins, it is enough that the requests that are still to be
\* answered go on to wait, and that the assemblies of those that wait go on.
LEMMA AsmKept ==
  ASSUME IInv,
         \A a \in asm' : a.for.who # Nobody =>
           a \in asm /\ chunk'[a.for.who][a.for.chunk] = "waiting",
         \A v \in Uploaders : \A d \in Chunks : chunk'[v][d] = "waiting" =>
           /\ chunk[v][d] = "waiting"
           /\ \A a \in asm : a.for = [who |-> v, chunk |-> d] => a \in asm'
  PROVE  Awaited' /\ WillBeAnswered' /\ AnsweredOnce'
<1>1. Awaited' /\ AnsweredOnce'
  BY DEF IInv, Awaited, AnsweredOnce
<1>2. ASSUME NEW v \in Uploaders, NEW d \in Chunks, chunk'[v][d] = "waiting"
      PROVE  \E a \in asm' : a.for = [who |-> v, chunk |-> d]
  BY <1>2 DEF IInv, WillBeAnswered
<1> QED
  BY <1>1, <1>2 DEF WillBeAnswered

\* The same when one request at most ends, and its assembly with it.
LEMMA OneEnds ==
  ASSUME IInv, NEW u \in Uploaders, NEW c \in Chunks,
         OthersWait(u, c), chunk'[u][c] # "waiting",
         \A a \in asm' : a.for.who # Nobody =>
           a \in asm /\ ~(a.for.who = u /\ a.for.chunk = c),
         \A a \in asm : a.for.who # Nobody /\ ~(a.for.who = u /\ a.for.chunk = c) =>
           a \in asm'
  PROVE  Awaited' /\ WillBeAnswered' /\ AnsweredOnce'
<1>1. ASSUME NEW a \in asm', a.for.who # Nobody
      PROVE  a \in asm /\ chunk'[a.for.who][a.for.chunk] = "waiting"
  <2>1. a \in asm /\ ~(a.for.who = u /\ a.for.chunk = c)
    BY <1>1
  <2>2. /\ a.for.who \in Uploaders /\ a.for.chunk \in Chunks
        /\ chunk[a.for.who][a.for.chunk] = "waiting"
    BY <1>1, <2>1, AwaitedRequest
  <2> QED
    BY <2>1, <2>2 DEF OthersWait
<1>2. ASSUME NEW v \in Uploaders, NEW d \in Chunks, chunk'[v][d] = "waiting"
      PROVE  /\ chunk[v][d] = "waiting"
             /\ \A a \in asm : a.for = [who |-> v, chunk |-> d] => a \in asm'
  <2>1. ~(v = u /\ d = c)
    BY <1>2
  <2>2. chunk[v][d] = "waiting"
    BY <1>2, <2>1 DEF OthersWait
  <2>3. v # Nobody
    BY UploadAssumption
  <2> QED
    BY <2>1, <2>2, <2>3
<1> QED
  BY <1>1, <1>2, AsmKept

\* Add takes up as many chunks as there are slots.
LEMMA AddStep ==
  ASSUME IInv, NEW u \in Uploaders, Add(u)
  PROVE  IInv'
<1> DEFINE next == UploadNext(Width, NoChunks, {})
<1>1. /\ file[u] = "none" /\ file' = [file EXCEPT ![u] = "active"]
      /\ chunk' = [chunk EXCEPT ![u] = next]
      /\ UNCHANGED <<pages, tested, reached, done, parts, output, asm, orphans, faults, crashed>>
  BY DEF Add, serverVars
<1>2. /\ next \in [Chunks -> ChunkStates]
      /\ Cardinality(Flying(next)) <= Cardinality(Flying(NoChunks)) + Width
      /\ Pending(next) # {} => Flying(next) # {}
      /\ \A d \in Chunks : next[d] # "waiting"
  <2>1. /\ next \in [Chunks -> ChunkStates]
        /\ Cardinality(Flying(next)) <= Cardinality(Flying(NoChunks)) + Width
        /\ Pending(next) # {} => Flying(next) # {}
    BY NoChunksIdle, WidthType, UploadNextSafe
  <2>2. \A d \in Chunks : next[d] # "waiting"
    BY NoChunksIdle DEF UploadNext
  <2> HIDE DEF next
  <2> QED
    BY <2>1, <2>2
<1>3. Cardinality(Flying(next)) <= Width
  BY <1>2, NoChunksIdle, WidthType
<1> HIDE DEF next
<1>4. TypeOK
  BY DEF IInv
<1>5. TypeOK'
  BY <1>1, <1>2, <1>4 DEF TypeOK, FileStates
<1>6. ASSUME NEW v \in Uploaders PROVE Sound(file[v], chunk[v])'
  <2>1. Sound(file[v], chunk[v])
    BY DEF IInv, AllSound
  <2>2. CASE v # u
    BY <1>1, <1>4, <2>1, <2>2 DEF Sound, Width, Flying, Pending, TypeOK
  <2>3. CASE v = u
    BY <1>1, <1>2, <1>3, <1>4, <2>3 DEF Sound, Width, TypeOK
  <2> QED
    BY <2>2, <2>3
<1>7. ASSUME NEW a \in asm', a.for.who # Nobody
      PROVE  a \in asm /\ chunk'[a.for.who][a.for.chunk] = "waiting"
  <2>1. a \in asm /\ a.for.who \in Uploaders /\ a.for.chunk \in Chunks
    BY <1>1, <1>4, <1>7 DEF TypeOK, Assembly, Request
  <2>2. chunk[a.for.who][a.for.chunk] = "waiting"
    BY <1>7, <2>1 DEF IInv, Awaited
  <2>3. chunk[u] = NoChunks
    BY <1>1 DEF IInv, AllSound, Sound
  <2>4. a.for.who # u
    BY <2>1, <2>2, <2>3, NoChunksIdle
  <2> QED
    BY <1>1, <1>4, <2>1, <2>2, <2>4 DEF TypeOK
<1>8. ASSUME NEW v \in Uploaders, NEW d \in Chunks, chunk'[v][d] = "waiting"
      PROVE  chunk[v][d] = "waiting"
  BY <1>1, <1>2, <1>4, <1>8 DEF TypeOK
<1>9. Awaited' /\ WillBeAnswered' /\ AnsweredOnce'
  BY <1>1, <1>7, <1>8, AsmKept
<1> QED
  BY <1>5, <1>6, <1>9 DEF IInv, AllSound

\* Leave, and the 500 answers: the upload ends, and its assemblies answer nobody.
\* An assembly that does not go on was for the upload that ends.
LEMMA EndStep ==
  ASSUME IInv, NEW u \in Uploaders, NEW how \in FileStates \ {"active"}, End(u, how),
         NEW running \in SUBSET asm, \A a \in asm \ running : a.for.who = u,
         asm' = Detach(u, Chunks, running), UNCHANGED <<parts, output, crashed>>,
         faults' \in 0..MaxFaults
  PROVE  IInv'
<1>1. UNCHANGED <<pages, reached, done>>
  BY DEF End
<1>2. /\ file' \in [Uploaders -> FileStates]
      /\ chunk' \in [Uploaders -> [Chunks -> ChunkStates]]
      /\ tested' \in [Uploaders -> SUBSET Chunks]
      /\ orphans' \subseteq [chunk : Chunks, version : Versions]
      /\ AllSound'
      /\ \A v \in Uploaders \ {u} : chunk'[v] = chunk[v]
      /\ \A d \in Chunks : chunk'[u][d] # "waiting"
  BY EndSafe DEF End
<1>3. /\ asm' \subseteq Assembly /\ AnsweredOnce'
      /\ \A a \in asm' : a.for.who # Nobody =>
           a \in asm /\ (a.for.who = u => a.for.chunk \notin Chunks)
      /\ \A a \in running : ~(a.for.who = u /\ a.for.chunk \in Chunks) => a \in asm'
  BY DetachSafe
<1>4. TypeOK'
  BY <1>1, <1>2, <1>3 DEF IInv, TypeOK
<1>5. ASSUME NEW a \in asm', a.for.who # Nobody
      PROVE  a \in asm /\ chunk'[a.for.who][a.for.chunk] = "waiting"
  BY <1>2, <1>3, <1>5, AwaitedRequest
<1>6. ASSUME NEW v \in Uploaders, NEW d \in Chunks, chunk'[v][d] = "waiting"
      PROVE  /\ chunk[v][d] = "waiting"
             /\ \A a \in asm : a.for = [who |-> v, chunk |-> d] => a \in asm'
  BY <1>2, <1>3, <1>6
<1> QED
  BY <1>2, <1>4, <1>5, <1>6, AsmKept DEF IInv

\* Transmit, and a test that does not find the part: the request goes on.
LEMMA GoesOnStep ==
  ASSUME IInv, NEW u \in Uploaders, NEW c \in Chunks, chunk[u][c] \in {"test", "post"},
         NEW s \in InFlight \ {"waiting"},
         chunk' = [chunk EXCEPT ![u][c] = s],
         tested' = tested \/ tested' = [tested EXCEPT ![u] = @ \cup {c}],
         UNCHANGED <<pages, file, reached, done, parts, output, asm, orphans, crashed>>,
         faults' \in 0..MaxFaults
  PROVE  IInv'
<1>1. /\ chunk' \in [Uploaders -> [Chunks -> ChunkStates]]
      /\ AllSound'
      /\ OthersWait(u, c) /\ chunk'[u][c] = s
  BY GoesOn DEF InFlight
<1>2. tested' \in [Uploaders -> SUBSET Chunks]
  BY DEF IInv, TypeOK
<1>3. TypeOK'
  BY <1>1, <1>2 DEF IInv, TypeOK
<1>4. ASSUME NEW a \in asm, a.for.who # Nobody
      PROVE  ~(a.for.who = u /\ a.for.chunk = c)
  BY <1>4, AwaitedRequest
<1>5. Awaited' /\ WillBeAnswered' /\ AnsweredOnce'
  BY <1>1, <1>4, OneEnds
<1> QED
  BY <1>1, <1>3, <1>5 DEF IInv

\* A test that finds the part.
LEMMA TestFoundStep ==
  ASSUME IInv, NEW u \in Uploaders, NEW c \in Chunks, chunk[u][c] = "test",
         tested' = [tested EXCEPT ![u] = @ \cup {c}], Succeed(u, c),
         UNCHANGED <<parts, output, asm, orphans, faults, crashed>>
  PROVE  IInv'
<1>1. /\ UNCHANGED <<pages, file>> /\ reached' \subseteq Uploaders /\ done' \subseteq reached'
      /\ chunk' \in [Uploaders -> [Chunks -> ChunkStates]]
      /\ AllSound'
      /\ OthersWait(u, c) /\ chunk'[u][c] = "success"
  BY SucceedSafe DEF InFlight
<1>2. TypeOK'
  BY <1>1 DEF IInv, TypeOK
<1>3. ASSUME NEW a \in asm, a.for.who # Nobody
      PROVE  ~(a.for.who = u /\ a.for.chunk = c)
  BY <1>3, AwaitedRequest
<1>4. Awaited' /\ WillBeAnswered' /\ AnsweredOnce'
  BY <1>1, <1>3, OneEnds
<1> QED
  BY <1>1, <1>2, <1>4 DEF IInv

\* post: the request is answered, or waits for the assembly that it began.  No
\* other assembly is for it, as it was not waiting.
LEMMA PostStep ==
  ASSUME IInv, NEW u \in Uploaders, NEW c \in Chunks, Post(u, c)
  PROVE  IInv'
<1> DEFINE req == [who |-> u, chunk |-> c]
<1>1. /\ chunk[u][c] = "sent" /\ Store(c, Content[u], req, asm)
      /\ UNCHANGED <<tested, orphans, faults, crashed>>
  BY DEF Post
<1>2. Content[u] \in Versions /\ req \in Request /\ u # Nobody
  BY UploadAssumption DEF Versions, Request
<1>3. /\ parts' \in [Chunks -> Versions \cup {Missing}]
      /\ output' \in [Chunks -> Versions \cup {Missing}]
      /\ asm' \subseteq Assembly
      /\ \E new : new.for = req /\ (asm' = asm \/ asm' = asm \cup {new})
  BY <1>1, <1>2, StoreSafe
<1>4. CASE /\ asm' # asm
           /\ chunk' = [chunk EXCEPT ![u][c] = "waiting"]
           /\ UNCHANGED <<pages, file, reached, done>>
  <2>1. /\ chunk' \in [Uploaders -> [Chunks -> ChunkStates]]
        /\ AllSound'
        /\ OthersWait(u, c) /\ chunk'[u][c] = "waiting"
    BY <1>1, <1>4, GoesOn DEF InFlight
  <2>2. TypeOK'
    BY <1>1, <1>3, <1>4, <2>1 DEF IInv, TypeOK
  <2>3. PICK new : new.for = req /\ asm' = asm \cup {new}
    BY <1>3, <1>4
  <2>4. ASSUME NEW a \in asm, a.for.who # Nobody
        PROVE  a.for # req /\ chunk'[a.for.who][a.for.chunk] = "waiting"
    <3>1. /\ a.for.who \in Uploaders /\ a.for.chunk \in Chunks
          /\ chunk[a.for.who][a.for.chunk] = "waiting"
      BY <2>4, AwaitedRequest
    <3>2. ~(a.for.who = u /\ a.for.chunk = c)
      BY <1>1, <3>1
    <3> QED
      BY <2>1, <3>1, <3>2 DEF OthersWait
  <2>5. Awaited'
    BY <2>1, <2>3, <2>4 DEF Awaited
  <2>6. AnsweredOnce'
    <3>1. AnsweredOnce
      BY DEF IInv
    <3> QED
      BY <1>2, <2>3, <2>4, <3>1 DEF AnsweredOnce
  <2>7. ASSUME NEW v \in Uploaders, NEW d \in Chunks, chunk'[v][d] = "waiting"
        PROVE  \E a \in asm' : a.for = [who |-> v, chunk |-> d]
    <3>1. CASE v = u /\ d = c
      BY <2>3, <3>1
    <3>2. CASE ~(v = u /\ d = c)
      <4>1. chunk[v][d] = "waiting"
        BY <2>1, <2>7, <3>2 DEF OthersWait
      <4> QED
        BY <2>3, <4>1 DEF IInv, WillBeAnswered
    <3> QED
      BY <3>1, <3>2
  <2> QED
    BY <2>1, <2>2, <2>5, <2>6, <2>7 DEF IInv, WillBeAnswered
<1>5. CASE asm' = asm /\ Succeed(u, c)
  <2>1. /\ UNCHANGED <<pages, file>> /\ reached' \subseteq Uploaders /\ done' \subseteq reached'
        /\ chunk' \in [Uploaders -> [Chunks -> ChunkStates]]
        /\ AllSound'
        /\ OthersWait(u, c) /\ chunk'[u][c] = "success"
    BY <1>1, <1>5, SucceedSafe DEF InFlight
  <2>2. TypeOK'
    BY <1>1, <1>3, <2>1 DEF IInv, TypeOK
  <2>3. ASSUME NEW a \in asm, a.for.who # Nobody
        PROVE  ~(a.for.who = u /\ a.for.chunk = c)
    BY <1>1, <2>3, AwaitedRequest
  <2>4. Awaited' /\ WillBeAnswered' /\ AnsweredOnce'
    BY <1>5, <2>1, <2>3, OneEnds
  <2> QED
    BY <2>1, <2>2, <2>4 DEF IInv
<1> QED
  BY <1>4, <1>5 DEF Post

\* Nobody waits for an assembly that is begun for Nobody.
LEMMA StoreForNobody ==
  ASSUME IInv, NEW c \in Chunks, NEW version \in Versions,
         Store(c, version, [who |-> Nobody, chunk |-> c], asm)
  PROVE  /\ parts' \in [Chunks -> Versions \cup {Missing}]
         /\ output' \in [Chunks -> Versions \cup {Missing}]
         /\ asm' \subseteq Assembly
         /\ \A a \in asm' : a.for.who # Nobody => a \in asm
         /\ asm \subseteq asm'
<1> DEFINE req == [who |-> Nobody, chunk |-> c]
<1>1. req \in Request /\ req.who = Nobody
  BY DEF Request
<1>2. /\ parts' \in [Chunks -> Versions \cup {Missing}]
      /\ output' \in [Chunks -> Versions \cup {Missing}]
      /\ asm' \subseteq Assembly
      /\ \E new : new.for = req /\ (asm' = asm \/ asm' = asm \cup {new})
  BY <1>1, StoreSafe
<1> QED
  BY <1>1, <1>2

\* An uploader with one slot has no other request under way.
LEMMA OnlyRequest ==
  ASSUME IInv, ~pages, NEW u \in Uploaders, NEW c \in Chunks, NEW d \in Chunks,
         chunk[u][c] \in InFlight, chunk[u][d] \in InFlight
  PROVE  c = d
<1> DEFINE F == Flying(chunk[u])
<1>1. c \in F /\ d \in F
  BY DEF Flying
<1>2. IsFiniteSet(F) /\ Cardinality(F) \in Nat
  BY ChunksFinite DEF Flying
<1>3. Cardinality(F) <= 1
  BY DEF IInv, AllSound, Sound, Width
<1>4. Cardinality(F) = 0 \/ Cardinality(F) = 1
  BY <1>2, <1>3
<1>5. F # {}
  BY <1>1
<1>6. \E x : F = {x}
  BY <1>2, <1>4, <1>5, FS_EmptySet, FS_Singleton
<1> QED
  BY <1>1, <1>6

\* No answer: the page sends the chunk again, the command line is lost, and no
\* assembly answers the request.  The command line has no other one that waits.
LEMMA UnansweredStep ==
  ASSUME IInv, NEW u \in Uploaders, NEW c \in Chunks,
         chunk[u][c] \in {"post", "sent", "waiting"}, Unanswered(u, c),
         asm' = Detach(u, {c}, asm), UNCHANGED <<parts, output, crashed>>,
         faults' \in 0..MaxFaults
  PROVE  IInv'
<1>1. chunk[u][c] \in InFlight
  BY DEF InFlight
<1>2. /\ UNCHANGED <<pages, reached, done>>
      /\ orphans' \subseteq orphans \cup Aborted(u)
  BY DEF Unanswered
<1>3. /\ asm' \subseteq Assembly
      /\ \A a \in asm' : a.for.who # Nobody =>
           a \in asm /\ ~(a.for.who = u /\ a.for.chunk = c)
      /\ \A a \in asm : ~(a.for.who = u /\ a.for.chunk = c) => a \in asm'
  <2>1. {c} \in SUBSET Chunks /\ asm \in SUBSET asm
    OBVIOUS
  <2>2. /\ asm' \subseteq Assembly
        /\ \A a \in asm' : a.for.who # Nobody =>
             a \in asm /\ (a.for.who = u => a.for.chunk \notin {c})
        /\ \A a \in asm : ~(a.for.who = u /\ a.for.chunk \in {c}) => a \in asm'
    BY <2>1, DetachSafe
  <2> QED
    BY <2>2
<1>4. CASE chunk' = [chunk EXCEPT ![u][c] = "post"] /\ UNCHANGED <<file, tested>>
  <2>1. /\ chunk' \in [Uploaders -> [Chunks -> ChunkStates]]
        /\ AllSound'
        /\ OthersWait(u, c) /\ chunk'[u][c] = "post"
    BY <1>1, <1>2, <1>4, GoesOn DEF InFlight
  <2>2. orphans' \subseteq [chunk : Chunks, version : Versions]
    BY <1>2 DEF Aborted, Versions, IInv, TypeOK
  <2>3. TypeOK'
    BY <1>2, <1>3, <1>4, <2>1, <2>2 DEF IInv, TypeOK
  <2>4. Awaited' /\ WillBeAnswered' /\ AnsweredOnce'
    BY <1>3, <2>1, OneEnds
  <2> QED
    BY <2>1, <2>3, <2>4 DEF IInv
<1>5. CASE /\ ~pages /\ file' = [file EXCEPT ![u] = "lost"]
           /\ chunk' = [chunk EXCEPT ![u] = NoChunks]
           /\ tested' = [tested EXCEPT ![u] = {}]
  <2>1. "lost" \in FileStates \ {"active"}
    BY DEF FileStates
  <2>2. /\ file' \in [Uploaders -> FileStates]
        /\ chunk' \in [Uploaders -> [Chunks -> ChunkStates]]
        /\ tested' \in [Uploaders -> SUBSET Chunks]
        /\ orphans' \subseteq [chunk : Chunks, version : Versions]
        /\ AllSound'
        /\ \A v \in Uploaders \ {u} : chunk'[v] = chunk[v]
        /\ \A d \in Chunks : chunk'[u][d] # "waiting"
    BY <1>2, <1>5, <2>1, EndSafe
  <2>3. TypeOK'
    BY <1>2, <1>3, <2>2 DEF IInv, TypeOK
  <2>4. \A d \in Chunks : d # c => chunk[u][d] # "waiting"
    BY <1>1, <1>5, OnlyRequest DEF InFlight
  <2>5. OthersWait(u, c)
    BY <2>2, <2>4 DEF OthersWait
  <2>6. Awaited' /\ WillBeAnswered' /\ AnsweredOnce'
    BY <1>3, <2>2, <2>5, OneEnds
  <2> QED
    BY <2>2, <2>3, <2>6 DEF IInv
<1> QED
  BY <1>4, <1>5 DEF Unanswered

\* A fault is one of those that are allowed.
LEMMA FaultBound ==
  ASSUME IInv, Fault
  PROVE  faults' \in 0..MaxFaults
BY UploadAssumption DEF IInv, TypeOK, Fault

\* PostOrphan
LEMMA OrphanStep ==
  ASSUME IInv, NEW o \in orphans, PostOrphan(o)
  PROVE  IInv'
<1>1. /\ orphans' = orphans \ {o}
      /\ UNCHANGED <<pages, file, chunk, tested, reached, done, faults, crashed>>
      /\ \/ Store(o.chunk, o.version, [who |-> Nobody, chunk |-> o.chunk], asm)
         \/ UNCHANGED <<parts, output, asm>>
  BY DEF PostOrphan, clientVars, serverVars
<1>2. TypeOK /\ o.chunk \in Chunks /\ o.version \in Versions
  BY DEF IInv, TypeOK
<1>3. /\ parts' \in [Chunks -> Versions \cup {Missing}]
      /\ output' \in [Chunks -> Versions \cup {Missing}]
      /\ asm' \subseteq Assembly
      /\ \A a \in asm' : a.for.who # Nobody => a \in asm
      /\ asm \subseteq asm'
  <2>1. CASE Store(o.chunk, o.version, [who |-> Nobody, chunk |-> o.chunk], asm)
    BY <1>2, <2>1, StoreForNobody
  <2>2. CASE UNCHANGED <<parts, output, asm>>
    BY <1>2, <2>2 DEF TypeOK
  <2> QED
    BY <1>1, <2>1, <2>2
<1>4. TypeOK'
  BY <1>1, <1>2, <1>3 DEF TypeOK
<1>5. AllSound'
  BY <1>1 DEF IInv, AllSound, Sound, Width, Flying, Pending
<1>6. ASSUME NEW a \in asm', a.for.who # Nobody
      PROVE  a \in asm /\ chunk'[a.for.who][a.for.chunk] = "waiting"
  BY <1>1, <1>3, <1>6, AwaitedRequest
<1>7. Awaited' /\ WillBeAnswered' /\ AnsweredOnce'
  BY <1>1, <1>3, <1>6, AsmKept
<1> QED
  BY <1>4, <1>5, <1>7 DEF IInv

\* One iteration of assemble_chunk: the assembly goes on for the same request.
LEMMA AssembleNextStep ==
  ASSUME IInv, NEW a \in asm, AssembleNext(a)
  PROVE  IInv'
<1> DEFINE c == Least(a.left)
           b == [a EXCEPT !.left = @ \ {c}]
<1>1. TypeOK /\ a \in Assembly
  BY DEF IInv, TypeOK
<1>2. /\ output' = [output EXCEPT ![c] = parts[c]]
      /\ parts' = [parts EXCEPT ![c] = Missing]
      /\ asm' = (asm \ {a}) \cup {b}
      /\ UNCHANGED <<pages, file, chunk, tested, reached, done, orphans, faults, crashed>>
  BY DEF AssembleNext, clientVars
<1>3. b \in Assembly /\ b.for = a.for
  BY <1>1 DEF Assembly
<1>4. TypeOK'
  <2>1. output' \in [Chunks -> Versions \cup {Missing}]
    BY <1>1, <1>2 DEF TypeOK
  <2>2. parts' \in [Chunks -> Versions \cup {Missing}]
    BY <1>1, <1>2 DEF TypeOK
  <2> QED
    BY <1>1, <1>2, <1>3, <2>1, <2>2 DEF TypeOK
<1>5. AllSound'
  BY <1>2 DEF IInv, AllSound, Sound, Width, Flying, Pending
<1>6. Awaited'
  BY <1>2, <1>3 DEF IInv, Awaited
<1>7. WillBeAnswered'
  <2>1. ASSUME NEW v \in Uploaders, NEW d \in Chunks, chunk'[v][d] = "waiting"
        PROVE  \E e \in asm' : e.for = [who |-> v, chunk |-> d]
    <3>1. PICK e \in asm : e.for = [who |-> v, chunk |-> d]
      BY <1>2, <2>1 DEF IInv, WillBeAnswered
    <3>2. CASE e = a
      BY <1>2, <1>3, <3>1, <3>2
    <3>3. CASE e # a
      BY <1>2, <3>1, <3>3
    <3> QED
      BY <3>2, <3>3
  <2> QED
    BY <2>1 DEF WillBeAnswered
<1>8. AnsweredOnce'
  <2>1. AnsweredOnce
    BY DEF IInv
  <2>2. ASSUME NEW e \in asm \ {a}, e.for = b.for, e.for.who # Nobody PROVE FALSE
    BY <1>3, <2>1, <2>2 DEF AnsweredOnce
  <2> QED
    BY <1>2, <2>1, <2>2 DEF AnsweredOnce
<1> QED
  BY <1>4, <1>5, <1>6, <1>7, <1>8 DEF IInv

\* A part is missing: the upload that waits for the assembly ends.
LEMMA AssembleFailsStep ==
  ASSUME IInv, NEW a \in asm, AssembleFails(a)
  PROVE  IInv'
<1>1. UNCHANGED <<parts, output, faults, crashed>>
  BY DEF AssembleFails
<1>2. CASE /\ a.for.who = Nobody /\ asm' = asm \ {a}
           /\ UNCHANGED <<pages, file, chunk, tested, reached, done, orphans>>
  <2>1. TypeOK'
    BY <1>1, <1>2 DEF IInv, TypeOK
  <2>2. AllSound'
    BY <1>2 DEF IInv, AllSound, Sound, Width, Flying, Pending
  <2>3. ASSUME NEW e \in asm', e.for.who # Nobody
        PROVE  e \in asm /\ chunk'[e.for.who][e.for.chunk] = "waiting"
    BY <1>2, <2>3, AwaitedRequest
  <2>4. ASSUME NEW v \in Uploaders, NEW d \in Chunks, chunk'[v][d] = "waiting"
        PROVE  /\ chunk[v][d] = "waiting"
               /\ \A e \in asm : e.for = [who |-> v, chunk |-> d] => e \in asm'
    BY <1>2, <2>4, UploadAssumption
  <2>5. Awaited' /\ WillBeAnswered' /\ AnsweredOnce'
    BY <2>3, <2>4, AsmKept
  <2> QED
    BY <2>1, <2>2, <2>5 DEF IInv
<1>3. CASE /\ a.for.who # Nobody
           /\ asm' = Detach(a.for.who, Chunks, asm \ {a}) /\ End(a.for.who, "torn")
  <2>1. a.for.who \in Uploaders
    BY <1>3, AwaitedRequest
  <2>2. "torn" \in FileStates \ {"active"} /\ faults' \in 0..MaxFaults
    BY <1>1 DEF FileStates, IInv, TypeOK
  <2>3. asm \ {a} \in SUBSET asm /\ \A e \in asm \ (asm \ {a}) : e.for.who = a.for.who
    OBVIOUS
  <2> QED
    BY <1>1, <1>3, <2>1, <2>2, <2>3, EndStep
<1> QED
  BY <1>2, <1>3 DEF AssembleFails, clientVars

\* Assembled answers the request that waits for it, and nobody else does.
LEMMA AssembledStep ==
  ASSUME IInv, NEW a \in asm, Assembled(a)
  PROVE  IInv'
<1>1. asm' = asm \ {a} /\ UNCHANGED <<tested, parts, output, orphans, faults, crashed>>
  BY DEF Assembled
<1>2. CASE a.for.who = Nobody /\ UNCHANGED <<pages, file, chunk, reached, done>>
  <2>1. TypeOK'
    BY <1>1, <1>2 DEF IInv, TypeOK
  <2>2. AllSound'
    BY <1>2 DEF IInv, AllSound, Sound, Width, Flying, Pending
  <2>3. ASSUME NEW e \in asm', e.for.who # Nobody
        PROVE  e \in asm /\ chunk'[e.for.who][e.for.chunk] = "waiting"
    BY <1>1, <1>2, <2>3, AwaitedRequest
  <2>4. ASSUME NEW v \in Uploaders, NEW d \in Chunks, chunk'[v][d] = "waiting"
        PROVE  /\ chunk[v][d] = "waiting"
               /\ \A e \in asm : e.for = [who |-> v, chunk |-> d] => e \in asm'
    BY <1>1, <1>2, <2>4, UploadAssumption
  <2>5. Awaited' /\ WillBeAnswered' /\ AnsweredOnce'
    BY <2>3, <2>4, AsmKept
  <2> QED
    BY <2>1, <2>2, <2>5 DEF IInv
<1>3. CASE a.for.who # Nobody /\ Succeed(a.for.who, a.for.chunk)
  <2> DEFINE u == a.for.who
             c == a.for.chunk
  <2>1. u \in Uploaders /\ c \in Chunks /\ chunk[u][c] = "waiting"
    BY <1>3, AwaitedRequest
  <2>2. /\ UNCHANGED <<pages, file>> /\ reached' \subseteq Uploaders /\ done' \subseteq reached'
        /\ chunk' \in [Uploaders -> [Chunks -> ChunkStates]]
        /\ AllSound'
        /\ OthersWait(u, c) /\ chunk'[u][c] = "success"
    BY <1>3, <2>1, SucceedSafe DEF InFlight
  <2>3. TypeOK'
    BY <1>1, <2>2 DEF IInv, TypeOK
  <2>4. ASSUME NEW e \in asm', e.for.who # Nobody
        PROVE  e \in asm /\ ~(e.for.who = u /\ e.for.chunk = c)
    <3>1. e \in asm /\ e # a
      BY <1>1
    <3>2. e.for # a.for
      BY <2>4, <3>1 DEF IInv, AnsweredOnce
    <3>3. e.for \in Request /\ a.for \in Request
      BY <3>1 DEF IInv, TypeOK, Assembly
    <3> QED
      BY <3>1, <3>2, <3>3 DEF Request
  <2>5. \A e \in asm : ~(e.for.who = u /\ e.for.chunk = c) => e \in asm'
    BY <1>1
  <2>6. Awaited' /\ WillBeAnswered' /\ AnsweredOnce'
    BY <2>1, <2>2, <2>4, <2>5, OneEnds
  <2> QED
    BY <2>2, <2>3, <2>6 DEF IInv
<1> QED
  BY <1>2, <1>3 DEF Assembled

\* Crash: the pages send again what was under way, and the command lines that
\* sent a chunk are lost.  Nobody waits for an assembly any more.
LEMMA CrashStep ==
  ASSUME IInv, Crash
  PROVE  IInv'
<1> DEFINE gone == {u \in Uploaders : ~pages /\ Posting(u)}
<1>1. /\ crashed' = TRUE /\ asm' = {}
      /\ UNCHANGED <<pages, reached, done, output, orphans>>
      /\ file' = [u \in Uploaders |-> IF u \in gone THEN "lost" ELSE file[u]]
      /\ chunk' = [u \in Uploaders |->
           IF u \in gone THEN NoChunks
           ELSE [c \in Chunks |-> IF chunk[u][c] \in InFlight THEN "post" ELSE chunk[u][c]]]
      /\ tested' = [u \in Uploaders |->
           IF u \in gone THEN {}
           ELSE tested[u] \cup {c \in Chunks : chunk[u][c] = "test"}]
  BY DEF Crash
<1> HIDE DEF gone
<1>2. TypeOK
  BY DEF IInv
<1>3. faults' \in 0..MaxFaults
  BY FaultBound DEF Crash
<1>4. parts' \in [Chunks -> Versions \cup {Missing}]
  <2>1. \A u \in Uploaders : Content[u] \in Versions
    BY DEF Versions
  <2> QED
    BY <1>2, <2>1 DEF Crash, TypeOK
<1>5. ASSUME NEW u \in Uploaders, u \notin gone
      PROVE  chunk'[u] = [c \in Chunks |-> IF chunk[u][c] \in InFlight THEN "post"
                                            ELSE chunk[u][c]]
  BY <1>1, <1>5
<1>6. ASSUME NEW u \in Uploaders
      PROVE  /\ chunk'[u] \in [Chunks -> ChunkStates]
             /\ \A c \in Chunks : chunk'[u][c] # "waiting"
  <2>1. CASE u \in gone
    <3>1. chunk'[u] = NoChunks
      BY <1>1, <2>1
    <3> QED
      BY <3>1, NoChunksIdle
  <2>2. CASE u \notin gone
    <3>1. chunk'[u] = [c \in Chunks |-> IF chunk[u][c] \in InFlight THEN "post"
                                        ELSE chunk[u][c]]
      BY <1>5, <2>2
    <3>2. \A c \in Chunks : chunk[u][c] \in ChunkStates
      BY <1>2 DEF TypeOK
    <3> QED
      BY <3>1, <3>2 DEF ChunkStates, InFlight
  <2> QED
    BY <2>1, <2>2
<1>7. chunk' \in [Uploaders -> [Chunks -> ChunkStates]]
  <2>1. chunk' = [u \in Uploaders |-> chunk'[u]]
    BY <1>1
  <2> QED
    BY <1>6, <2>1
<1>8. file' \in [Uploaders -> FileStates] /\ tested' \in [Uploaders -> SUBSET Chunks]
  BY <1>1, <1>2 DEF TypeOK, FileStates
<1>9. TypeOK'
  BY <1>1, <1>2, <1>3, <1>4, <1>7, <1>8 DEF TypeOK
<1>10. ASSUME NEW u \in Uploaders PROVE Sound(file[u], chunk[u])'
  <2>1. Sound(file[u], chunk[u]) /\ Width' = Width
    BY <1>1 DEF IInv, AllSound, Width
  <2>2. CASE u \in gone
    <3>1. file'[u] # "active" /\ chunk'[u] = NoChunks
      BY <1>1, <2>2
    <3> QED
      BY <2>1, <3>1, NoChunksIdle, WidthType DEF Sound
  <2>3. CASE u \notin gone
    <3>1. file'[u] = file[u]
      BY <1>1, <2>3
    <3>2. chunk'[u] = [c \in Chunks |-> IF chunk[u][c] \in InFlight THEN "post"
                                        ELSE chunk[u][c]]
      BY <1>5, <2>3
    <3>3. Flying(chunk'[u]) = Flying(chunk[u])
      BY <3>2 DEF Flying, InFlight
    <3>4. Pending(chunk'[u]) = Pending(chunk[u])
      BY <3>2 DEF Pending, InFlight
    <3>5. chunk[u] = NoChunks => chunk'[u] = NoChunks
      BY <3>2, NoChunksIdle DEF NoChunks, InFlight
    <3> QED
      BY <2>1, <3>1, <3>3, <3>4, <3>5 DEF Sound
  <2> QED
    BY <2>2, <2>3
<1>11. WillBeAnswered'
  BY <1>6 DEF WillBeAnswered
<1> QED
  BY <1>1, <1>9, <1>10, <1>11 DEF IInv, AllSound, Awaited, AnsweredOnce

\* The progress event of a chunk says nothing but that progress() was 1.
LEMMA ProgressedStep ==
  ASSUME IInv, NEW u \in Uploaders, NEW c \in Chunks, Progressed(u, c)
  PROVE  IInv'
<1>1. /\ reached' = reached \cup {u}
      /\ UNCHANGED <<pages, file, chunk, tested, done, parts, output, asm, orphans, faults,
                     crashed>>
  BY DEF Progressed, serverVars
<1>2. TypeOK'
  BY <1>1 DEF IInv, TypeOK
<1>3. AllSound'
  BY <1>1 DEF IInv, AllSound, Sound, Width, Flying, Pending
<1> QED
  BY <1>1, <1>2, <1>3 DEF IInv, Awaited, WillBeAnswered, AnsweredOnce

\* Every step keeps the invariant.
LEMMA StepSafe ==
  ASSUME IInv, [Next]_vars
  PROVE  IInv'
<1>1. faults \in 0..MaxFaults /\ asm \in SUBSET asm
  BY DEF IInv, TypeOK
<1>2. ASSUME NEW u \in Uploaders, Add(u) \/ Leave(u) PROVE IInv'
  <2>1. CASE Add(u)
    BY <2>1, AddStep
  <2>2. CASE Leave(u)
    <3>1. /\ End(u, "cancelled") /\ asm' = Detach(u, Chunks, asm)
          /\ UNCHANGED <<parts, output, crashed>> /\ faults' \in 0..MaxFaults
          /\ "cancelled" \in FileStates \ {"active"}
      BY <1>1, <2>2 DEF Leave, FileStates
    <3> QED
      BY <1>1, <3>1, EndStep
  <2> QED
    BY <1>2, <2>1, <2>2
<1>3. ASSUME NEW u \in Uploaders, NEW c \in Chunks, Answers(u, c) PROVE IInv'
  <2>1. CASE Transmit(u, c)
    BY <1>1, <2>1, GoesOnStep DEF Transmit, InFlight, serverVars
  <2>2. CASE Test(u, c)
    <3>1. CASE Succeed(u, c)
      BY <2>2, <3>1, TestFoundStep DEF Test, serverVars
    <3>2. CASE /\ chunk' = [chunk EXCEPT ![u][c] = "post"]
               /\ UNCHANGED <<pages, file, reached, done>>
      BY <1>1, <2>2, <3>2, GoesOnStep DEF Test, InFlight, serverVars
    <3> QED
      BY <2>2, <3>1, <3>2 DEF Test
  <2>3. CASE Post(u, c)
    BY <2>3, PostStep
  <2> QED
    BY <1>3, <2>1, <2>2, <2>3 DEF Answers
<1>4. ASSUME NEW u \in Uploaders, NEW c \in Chunks, Faulty(u, c) PROVE IInv'
  <2>1. CASE TestLost(u, c)
    <3>1. faults' \in 0..MaxFaults
      BY <2>1, FaultBound DEF TestLost
    <3> QED
      BY <2>1, <3>1, GoesOnStep DEF TestLost, InFlight, serverVars
  <2>2. CASE Refuse(u, c)
    <3>1. /\ End(u, "refused") /\ asm' = Detach(u, Chunks, asm)
          /\ UNCHANGED <<parts, output, crashed>> /\ faults' \in 0..MaxFaults
          /\ "refused" \in FileStates \ {"active"}
      BY <2>2, FaultBound DEF Refuse, FileStates
    <3> QED
      BY <1>1, <3>1, EndStep
  <2>3. CASE Drop(u, c)
    <3>1. faults' \in 0..MaxFaults
      BY <2>3, FaultBound DEF Drop
    <3> QED
      BY <2>3, <3>1, UnansweredStep DEF Drop
  <2> QED
    BY <1>4, <2>1, <2>2, <2>3 DEF Faulty
<1>5. ASSUME NEW u \in Uploaders, NEW c \in Chunks, Progressed(u, c) PROVE IInv'
  BY <1>5, ProgressedStep
<1>6. ASSUME NEW o \in orphans, PostOrphan(o) PROVE IInv'
  BY <1>6, OrphanStep
<1>7. CASE Assembling
  BY <1>7, AssembleNextStep, AssembleFailsStep, AssembledStep DEF Assembling
<1>8. CASE Crash
  BY <1>8, CrashStep
<1>9. CASE UNCHANGED vars
  <2>1. TypeOK'
    BY <1>9 DEF vars, IInv, TypeOK
  <2>2. AllSound'
    BY <1>9 DEF vars, IInv, AllSound, Sound, Width, Flying, Pending
  <2>3. Awaited' /\ WillBeAnswered' /\ AnsweredOnce'
    BY <1>9 DEF vars, IInv, Awaited, WillBeAnswered, AnsweredOnce
  <2> QED
    BY <2>1, <2>2, <2>3 DEF IInv
<1> QED
  BY <1>2, <1>3, <1>4, <1>5, <1>6, <1>7, <1>8, <1>9 DEF Next

-----------------------------------------------------------------------------
\* IInv holds in every state of every behaviour.
LEMMA Inductive == Spec => []IInv
<1>1. Init => IInv
  BY InitSafe
<1>2. IInv /\ [Next]_vars => IInv'
  BY StepSafe
<1> QED
  BY <1>1, <1>2, PTL DEF Spec

\* The state of the uploaders and of the pacemaker has its types, whatever is
\* lost, aborted or sent twice.
THEOREM TypeCorrect == Spec => []TypeOK
<1>1. IInv => TypeOK
  BY DEF IInv
<1> QED
  BY <1>1, Inductive, PTL

\* An uploader never has more requests under way than simultaneousUploads, or
\* than one for the command line: each answer starts at most one other request,
\* and only the request that it is the answer of ends.
THEOREM SlotsAreRespected == Spec => []SlotsRespected
<1>1. IInv => SlotsRespected
  BY DEF IInv, AllSound, Sound, Flying, SlotsRespected
<1> QED
  BY <1>1, Inductive, PTL

\* After an error or destroy nothing more is sent: no answer that comes later
\* takes up a chunk again.
THEOREM QuietAfterTheEnd == Spec => []QuietAfterEnd
<1>1. ASSUME IInv, NEW u \in Uploaders, file[u] \notin {"none", "active"},
             NEW c \in Chunks
      PROVE  chunk[u][c] \notin InFlight
  <2>1. chunk[u] = NoChunks
    BY <1>1 DEF IInv, AllSound, Sound
  <2> QED
    BY <2>1, NoChunksIdle DEF InFlight
<1>2. IInv => QuietAfterEnd
  BY <1>1 DEF QuietAfterEnd
<1> QED
  BY <1>2, Inductive, PTL

\* Each request that is open will be answered, by the pacemaker at once or by an
\* assembly that runs, and while chunks are left to send, one is open: no answer is
\* awaited from an assembly that ended, died or answers somebody else.
THEOREM NothingStalls == Spec => []NeverStalls
<1>1. ASSUME IInv, NEW u \in Uploaders, NEW c \in Chunks, chunk[u][c] \in InFlight
      PROVE  UnderWay(u, c)
  BY <1>1 DEF IInv, WillBeAnswered, InFlight, UnderWay
<1>2. ASSUME IInv, NEW u \in Uploaders, file[u] = "active", Pending(chunk[u]) # {}
      PROVE  \E c \in Chunks : UnderWay(u, c)
  <2>1. PICK c \in Chunks : chunk[u][c] \in InFlight
    BY <1>2 DEF IInv, AllSound, Sound, Flying
  <2> QED
    BY <1>1, <1>2, <2>1
<1>3. IInv => NeverStalls
  BY <1>1, <1>2 DEF NeverStalls
<1> QED
  BY <1>3, Inductive, PTL
=============================================================================
