----------------------------- MODULE FilesProofs -----------------------------
(***************************************************************************)
(* What FilesService guarantees for any number of names, sessions and      *)
(* requests in flight, and any sizes: types, that a completed chunked      *)
(* upload is its parts in order with one row (AssembledWhole), that whole  *)
(* uploads one after the other stay within the quota (QuotaKept), that a   *)
(* byte range is answered with the bytes it names (RangeHonoured), and     *)
(* that thumbnails show the present contents of their file (Fresh).        *)
(***************************************************************************)
EXTENDS Uploads, Thumbnails, FiniteSetTheorems, TLAPS

(* The records of requests and sessions. *)
HandlerType ==
    [pc : {"idle", "get", "check", "index", "save", "count", "pipe", "piped"},
     op : {"none", "upload", "init", "complete"}, n : Names \cup {None},
     size : Sizes \cup {0}, used : Nat, s : Sessions \cup {None}, k : Index, hit : BOOLEAN]
SessionType == [st : {"unused", "open", "gone"}, n : Names \cup {None},
                size : Sizes \cup {0}, got : SUBSET Index]
PartType == [of : Sessions \cup {Direct, None}, i : Index]
Types ==
    /\ disk \in [Names -> Seq(PartType) \cup {None}]
    /\ tmp \in [Names -> [Index -> Sessions \cup {None}] \cup {None}]
    /\ rows \in [Names -> Nat]
    /\ session \in [Sessions -> SessionType]
    /\ handler \in [Handlers -> HandlerType]
    /\ cache \in Nat \cup {None}
    /\ requests \in 0..MaxRequests
    /\ told \in [Names -> Sessions \cup {None}]
    /\ rough \subseteq Roughness

(* Where each kind of request can stand, and what it then knows: a         *)
(* completion works on a session that exists, for its name and size.       *)
Knows(m) ==
    /\ m.op = "none" => m.pc = "idle"
    /\ m.op # "none" => m.n \in Names /\ m.size \in Sizes
    /\ m.op = "upload" => m.pc \in {"get", "check", "index", "save", "count"}
    /\ m.op = "init" => m.pc \in {"get", "check"}
    /\ m.op = "complete" => /\ m.pc \in {"pipe", "piped", "index", "save"}
                            /\ m.s \in Sessions /\ m.k < m.size
Works(m) == m.op = "complete" =>
    session[m.s].st # "unused" /\ session[m.s].n = m.n /\ session[m.s].size = m.size

Begun(z) == z.st # "unused" =>
    z.n \in Names /\ z.size \in Sizes /\ z.got \subseteq 0..(z.size - 1)

Shape ==
    /\ \A h \in Handlers : Knows(handler[h]) /\ Works(handler[h])
    /\ \A h \in Handlers : handler[h].op = "complete" => disk[handler[h].n] \in Seq(PartType)
    /\ \A s \in Sessions : Begun(session[s])
    /\ \A n \in Names : told[n] # None => session[told[n]].st = "gone"

(* One upload at a time goes to a name, and completion is asked for once.  *)
Apart == rough \cap {"shared", "again"} = {}

(* Then no two sessions are open for a name and no two requests are about  *)
(* one; a session stays open, with all its parts, while it is completed;   *)
Open(s) == session[s].st = "open"
OneOpen == \A s, z \in Sessions : Open(s) /\ Open(z) /\ session[s].n = session[z].n => s = z
OneRequest == \A h, g \in Handlers :
    handler[h].op # "none" /\ handler[g].op # "none" /\ handler[h].n = handler[g].n => h = g
HeldOpen == \A h \in Handlers : handler[h].op = "complete" =>
    Open(handler[h].s) /\ session[handler[h].s].got = 0..(handler[h].size - 1)

(* a part a session has stored is still its own, or has been assembled;    *)
(* leftovers of a crash are overwritten before they count;                 *)
OwnParts == \A s \in Sessions : \A i \in session[s].got :
    Open(s) /\ tmp[session[s].n] # None => tmp[session[s].n][i] \in {s, None}

(* the destination holds the parts assembled so far;                       *)
Parts(s, c) == [i \in 1..c |-> Part(s, i - 1)]
Piece(m) == IF m.pc = "pipe" THEN m.k ELSE IF m.pc = "piped" THEN m.k + 1 ELSE m.size
Assembling == \A h \in Handlers : handler[h].op = "complete" =>
    disk[handler[h].n] = Parts(handler[h].s, Piece(handler[h]))

(* and a row is inserted only if there is none.                            *)
OneRow ==
    /\ \A n \in Names : rows[n] \in {0, 1}
    /\ \A h \in Handlers : handler[h].pc = "save" =>
            (handler[h].hit <=> rows[handler[h].n] = 1)

Whole == \A n \in Names : told[n] # None =>
    disk[n] = Parts(told[n], session[told[n]].size) /\ rows[n] = 1

Alone == OneOpen /\ OneRequest /\ HeldOpen /\ OwnParts /\ Assembling /\ OneRow /\ Whole

IInv == Types /\ Shape /\ (Apart => Alone)

-----------------------------------------------------------------------------
(* Facts about the records and operators of the model.                     *)

LEMMA IdleFacts ==
    /\ Idle \in HandlerType /\ Idle.op = "none" /\ Idle.pc = "idle" /\ Knows(Idle)
    /\ Unused \in SessionType /\ Unused.st = "unused" /\ Unused.got = {}
BY MaxAssumption DEF Idle, Unused, HandlerType, SessionType, Index, Knows

(* A request that moves from one await to the next. *)
LEMMA MoveFacts ==
    ASSUME NEW m \in HandlerType, NEW p \in {"idle", "get", "check", "index", "save", "count", "pipe", "piped"}
    PROVE  LET n == [m EXCEPT !.pc = p]
           IN  /\ n \in HandlerType /\ n.pc = p
               /\ n.op = m.op /\ n.n = m.n /\ n.size = m.size /\ n.used = m.used
               /\ n.s = m.s /\ n.k = m.k /\ n.hit = m.hit
BY DEF HandlerType

(* The parts so far, with the next one written at their end. *)
LEMMA WriteAtEnd ==
    ASSUME NEW s, NEW k \in Nat
    PROVE  WriteAt(Parts(s, k), k, Part(s, k)) = Parts(s, k + 1)
BY DEF WriteAt, Parts, Part

LEMMA PartsType ==
    ASSUME NEW s \in Sessions \cup {Direct, None}, NEW c \in 0..MaxSize
    PROVE  Parts(s, c) \in Seq(PartType) /\ Len(Parts(s, c)) = c
<1>1. \A i \in 1..c : Part(s, i - 1) \in PartType
  BY MaxAssumption DEF PartType, Part, Index
<1> QED BY <1>1, MaxAssumption DEF Parts

LEMMA WriteAtType ==
    ASSUME NEW file \in Seq(PartType), NEW k \in Index, NEW p \in PartType
    PROVE  WriteAt(file, k, p) \in Seq(PartType)
<1>1. Part(None, 0) \in PartType
  BY MaxAssumption DEF PartType, Part, Index
<1>2. k \in Nat /\ Len(file) \in Nat
  BY MaxAssumption DEF Index
<1> DEFINE c == IF k + 1 > Len(file) THEN k + 1 ELSE Len(file)
<1>3. c \in Nat /\ WriteAt(file, k, p) = [i \in 1..c |->
        IF i = k + 1 THEN p ELSE IF i <= Len(file) THEN file[i] ELSE Part(None, 0)]
  BY <1>2 DEF WriteAt
<1>4. \A i \in 1..c : (IF i = k + 1 THEN p ELSE IF i <= Len(file) THEN file[i] ELSE Part(None, 0)) \in PartType
  BY <1>1, <1>2, <1>3
<1> HIDE DEF c
<1> QED BY <1>3, <1>4
-----------------------------------------------------------------------------
(* What one step of a request leaves of the others. *)
LEMMA BecomeFacts ==
    ASSUME Types, NEW h \in Handlers, NEW m \in HandlerType, Become(h, m)
    PROVE  /\ handler' \in [Handlers -> HandlerType]
           /\ handler'[h] = m
           /\ \A g \in Handlers : g # h => handler'[g] = handler[g]
BY DEF Types, Become

(* A request that only reads: it asks, waits or gives up. *)
LEMMA ReadingStep ==
    ASSUME IInv, NEW h \in Handlers, NEW m \in HandlerType, Become(h, m), Knows(m), Works(m),
           UNCHANGED <<store, session, told>>,
           rough \subseteq rough', rough' \subseteq Roughness,
           cache' \in Nat \cup {None}, requests' \in 0..MaxRequests,
           m.op # "none" => \/ m.op = handler[h].op /\ m.n = handler[h].n
                            \/ Apart' => \A g \in Handlers \ {h} :
                                            handler[g].op # "none" => handler[g].n # m.n,
           m.op = "complete" => handler[h].op = "complete" /\ m.s = handler[h].s
                                /\ m.size = handler[h].size /\ Piece(m) = Piece(handler[h]),
           m.pc = "save" => (m.hit <=> rows[m.n] > 0)
    PROVE  IInv'
<1> USE BecomeFacts
<1>1. Types'
  BY DEF IInv, Types, store
<1>2. Shape'
  BY DEF IInv, Shape, Works, store
<1>3. ASSUME Apart' PROVE Alone'
  <2>1. Apart /\ Alone
    BY <1>3 DEF Apart, IInv
  <2>2. OneOpen' /\ OwnParts' /\ Whole'
    BY <2>1 DEF Alone, OneOpen, Open, OwnParts, Whole, store
  <2>3. OneRequest'
    BY <1>3, <2>1 DEF Alone, OneRequest, IInv
  <2>4. HeldOpen'
    BY <2>1 DEF Alone, HeldOpen, Open, IInv
  <2>5. Assembling'
    BY <2>1 DEF Alone, Assembling, IInv, Shape, Works, store
  <2>6. OneRow'
    BY <2>1 DEF Alone, OneRow, IInv, Shape, Knows, store
  <2> QED BY <2>2, <2>3, <2>4, <2>5, <2>6 DEF Alone
<1> QED BY <1>1, <1>2, <1>3 DEF IInv
-----------------------------------------------------------------------------
(* The total is a number: there are finitely many names, and finitely many *)
(* parts under each.                                                       *)
Visible == Names \ Hidden

LEMMA FinitelyMany ==
    ASSUME NEW f, f = [n \in Visible |-> f[n]], \A n \in Visible : IsFiniteSet(f[n])
    PROVE  IsFiniteSet(UNION {{n} \X f[n] : n \in Visible})
<1> DEFINE T == {{n} \X f[n] : n \in Visible}
           g == [n \in Visible |-> {n} \X f[n]]
<1>1. g \in Surjection(Visible, T)
  BY DEF Surjection
<1>2. IsFiniteSet(T)
  <2>1. IsFiniteSet(Visible)
    BY FS_Subset, NamesAssumption DEF Visible
  <2> QED BY <1>1, <2>1, FS_Surjection
<1>3. \A n \in Visible : IsFiniteSet({n} \X f[n])
  BY FS_Product, FS_Singleton
<1>4. \A t \in T : IsFiniteSet(t)
  BY <1>3
<1> QED BY <1>2, <1>4, FS_UNION

Files == UNION {{n} \X (0..(Size(n) - 1)) : n \in Visible}
Chunks == UNION {{n} \X PartFiles(n) : n \in Visible}

LEMMA TotalFinite ==
    ASSUME Types
    PROVE  IsFiniteSet(Files) /\ IsFiniteSet(Chunks)
<1>1. \A n \in Visible : Size(n) \in Nat /\ IsFiniteSet(0..(Size(n) - 1))
  <2> TAKE n \in Visible
  <2>1. Size(n) \in Nat
    BY DEF Types, Size, Visible
  <2> QED BY <2>1, FS_Interval
<1>2. \A n \in Visible : IsFiniteSet(PartFiles(n))
  <2> TAKE n \in Visible
  <2>1. PartFiles(n) \subseteq Index
    BY DEF PartFiles
  <2>2. IsFiniteSet(Index)
    BY FS_Interval, MaxAssumption DEF Index
  <2> QED BY <2>1, <2>2, FS_Subset
<1> DEFINE f == [n \in Visible |-> 0..(Size(n) - 1)]
           g == [n \in Visible |-> PartFiles(n)]
<1>3. IsFiniteSet(UNION {{n} \X f[n] : n \in Visible})
  <2>1. \A n \in Visible : IsFiniteSet(f[n])
    BY <1>1
  <2>2. f = [n \in Visible |-> f[n]]
    OBVIOUS
  <2> HIDE DEF f
  <2> QED BY <2>1, <2>2, FinitelyMany
<1>4. IsFiniteSet(UNION {{n} \X g[n] : n \in Visible})
  <2>1. \A n \in Visible : IsFiniteSet(g[n])
    BY <1>2
  <2>2. g = [n \in Visible |-> g[n]]
    OBVIOUS
  <2> HIDE DEF g
  <2> QED BY <2>1, <2>2, FinitelyMany
<1>5. Files = UNION {{n} \X f[n] : n \in Visible} /\ Chunks = UNION {{n} \X g[n] : n \in Visible}
  BY DEF Files, Chunks
<1> QED BY <1>3, <1>4, <1>5

LEMMA TotalNat == Types => Total \in Nat
BY TotalFinite, FS_CardinalityType DEF Total, SizeOf, Visible, Files, Chunks

-----------------------------------------------------------------------------
(* The steps that write nothing.                                           *)

(* A request that has asked for the total: it waits for it, or has it. *)
Waits(op, n, size) == [Idle EXCEPT !.pc = "get", !.op = op, !.n = n, !.size = size]
Checks(op, n, size, total) ==
    [Idle EXCEPT !.pc = "check", !.op = op, !.n = n, !.size = size, !.used = total]

LEMMA AskFacts ==
    ASSUME NEW op \in {"upload", "init"}, NEW n \in Names, NEW size \in Sizes, NEW total \in Nat
    PROVE  LET w == Waits(op, n, size)
               c == Checks(op, n, size, total)
           IN  /\ w \in HandlerType /\ w.pc = "get" /\ w.op = op /\ w.n = n /\ w.size = size
               /\ c \in HandlerType /\ c.pc = "check" /\ c.op = op /\ c.n = n /\ c.size = size
               /\ c.used = total
BY IdleFacts DEF HandlerType, Waits, Checks

LEMMA AskStep ==
    ASSUME IInv, NEW h \in Handlers, NEW op \in {"upload", "init"}, NEW n \in Names,
           NEW size \in Sizes, Ask(h, op, n, size)
    PROVE  IInv'
<1>1. Total \in Nat
  BY TotalNat DEF IInv
<1>2. PICK m \in {Waits(op, n, size), Checks(op, n, size, Total)} : Become(h, m)
  BY DEF Ask, Waits, Checks
<1>3. m \in HandlerType /\ m.op = op /\ m.n = n /\ m.size = size /\ m.pc \in {"get", "check"}
  BY <1>1, AskFacts
<1>4. Knows(m) /\ Works(m)
  BY <1>3 DEF Knows, Works
<1>5. /\ UNCHANGED <<store, session, told>> /\ requests' \in 0..MaxRequests
      /\ cache' \in Nat \cup {None}
  BY TotalNat, MaxAssumption DEF Ask, IInv, Types, Requested
<1>6. rough \subseteq rough' /\ rough' \subseteq Roughness
  BY DEF Ask, IInv, Types, Roughness
<1>7. Apart' => \A g \in Handlers \ {h} : handler[g].op # "none" => handler[g].n # m.n
  BY <1>3 DEF Ask, Apart, Others
<1> QED BY <1>2, <1>3, <1>4, <1>5, <1>6, <1>7, ReadingStep

LEMMA GetStep ==
    ASSUME IInv, NEW h \in Handlers, GetUsedData(h)
    PROVE  IInv'
<1> DEFINE o == handler[h]
           m == [o EXCEPT !.pc = "check", !.used = IF cache = None THEN 0 ELSE cache]
<1>1. o \in HandlerType /\ o.pc = "get" /\ cache \in Nat \cup {None} /\ Knows(o)
  BY DEF IInv, Types, GetUsedData, Shape
<1>2. /\ m \in HandlerType /\ m.pc = "check" /\ m.op = o.op /\ m.n = o.n /\ m.size = o.size
  BY <1>1 DEF HandlerType
<1>3. o.op \in {"upload", "init"} /\ Knows(m) /\ Works(m)
  BY <1>1, <1>2 DEF Knows, Works, HandlerType
<1>4. Become(h, m) /\ UNCHANGED <<store, session, told, cache, requests>>
  BY DEF GetUsedData
<1>5. rough \subseteq rough' /\ rough' \subseteq Roughness
  BY DEF GetUsedData, IInv, Types, Roughness, Cause
<1> HIDE DEF m
<1> QED BY <1>1, <1>2, <1>3, <1>4, <1>5, ReadingStep DEF IInv, Types

(* A request that is over: it is refused, done or has failed. *)
LEMMA OverStep ==
    ASSUME IInv, NEW h \in Handlers, Become(h, Idle), UNCHANGED <<store, session, told, requests>>,
           cache' \in Nat \cup {None}, rough \subseteq rough', rough' \subseteq Roughness
    PROVE  IInv'
<1>1. Works(Idle)
  BY IdleFacts DEF Works
<1> QED BY <1>1, IdleFacts, ReadingStep DEF IInv, Types

LEMMA FoundFacts ==
    ASSUME NEW o \in HandlerType, NEW b \in BOOLEAN
    PROVE  LET m == [o EXCEPT !.pc = "save", !.hit = b]
           IN  /\ m \in HandlerType /\ m.pc = "save" /\ m.op = o.op /\ m.n = o.n /\ m.size = o.size
               /\ m.s = o.s /\ m.k = o.k /\ m.hit = b
BY DEF HandlerType

LEMMA FindRowStep ==
    ASSUME IInv, NEW h \in Handlers, FindRow(h)
    PROVE  IInv'
<1> DEFINE o == handler[h]
           b == rows[o.n] > 0
           m == [o EXCEPT !.pc = "save", !.hit = b]
<1>1. o \in HandlerType /\ o.pc = "index" /\ Knows(o) /\ Works(o)
  BY DEF IInv, Types, FindRow, Shape
<1>2. /\ m \in HandlerType /\ m.pc = "save" /\ m.op = o.op /\ m.n = o.n /\ m.size = o.size
      /\ m.s = o.s /\ m.k = o.k /\ m.hit = b
  <2>1. b \in BOOLEAN
    OBVIOUS
  <2> HIDE DEF b
  <2> QED BY <1>1, <2>1, FoundFacts
<1>3. Knows(m) /\ Works(m)
  BY <1>1, <1>2 DEF Knows, Works, HandlerType
<1>4. Piece(m) = Piece(o)
  BY <1>1, <1>2 DEF Piece
<1>5. Become(h, m) /\ UNCHANGED <<store, session, told, cache, requests, rough>>
  BY DEF FindRow
<1> HIDE DEF m
<1> QED BY <1>1, <1>2, <1>3, <1>4, <1>5, ReadingStep DEF IInv, Types

LEMMA RefuseStep == ASSUME IInv, NEW h \in Handlers, Refuse(h) PROVE IInv'
BY OverStep DEF Refuse, IInv, Types

LEMMA CountStep == ASSUME IInv, NEW h \in Handlers, UploadCount(h) PROVE IInv'
<1>1. handler[h] \in HandlerType /\ handler[h].used + handler[h].size \in Nat
  BY MaxAssumption DEF IInv, Types, HandlerType, Sizes
<1> QED BY <1>1, OverStep DEF UploadCount, IInv, Types

LEMMA UploadFailsStep == ASSUME IInv, NEW h \in Handlers, UploadFails(h) PROVE IInv'
BY OverStep DEF UploadFails, IInv, Types, Cause, Roughness

LEMMA ExpireStep == ASSUME IInv, Expire PROVE IInv'
<1> USE DEF Expire, store
<1>1. Types' /\ Shape'
  BY DEF IInv, Types, Shape, Works
<1>2. Apart' => Apart
  BY DEF Apart
<1>3. Alone => Alone'
  BY DEF Alone, OneOpen, OneRequest, HeldOpen, Open, OwnParts, Assembling, OneRow, Whole
<1> QED BY <1>1, <1>2, <1>3 DEF IInv
-----------------------------------------------------------------------------
(* The steps that write a destination.                                     *)

WritesTo(h, m, n, d) ==
    /\ m \in HandlerType /\ Become(h, m) /\ Knows(m) /\ Works(m)
    /\ m.op # "none" /\ m.n = n /\ m.pc # "save"
    /\ d \in Seq(PartType) /\ disk' = [disk EXCEPT ![n] = d] /\ Written(n)
    /\ UNCHANGED <<tmp, rows, session, cache>> /\ requests' \in 0..MaxRequests
    /\ rough \subseteq rough' /\ rough' \subseteq Roughness
    /\ Apart' => \A g \in Handlers \ {h} : handler[g].op # "none" => handler[g].n # n
    /\ Apart' /\ m.op = "complete" =>
           Open(m.s) /\ session[m.s].got = 0..(m.size - 1) /\ d = Parts(m.s, Piece(m))

LEMMA WritingStep ==
    ASSUME IInv, NEW h \in Handlers, NEW m, NEW n \in Names, NEW d, WritesTo(h, m, n, d)
    PROVE  IInv'
<1>1. m \in HandlerType /\ Become(h, m)
  BY DEF WritesTo
<1> USE <1>1, BecomeFacts DEF WritesTo
<1>2. Types'
  BY DEF IInv, Types, Written
<1>3. Shape'
  <2>1. told' \in [Names -> Sessions \cup {None}] /\ told'[n] = None
        /\ \A x \in Names : x # n => told'[x] = told[x]
    BY DEF IInv, Types, Written
  <2>2. \A x \in Names : disk'[x] = (IF x = n THEN d ELSE disk[x])
    BY DEF IInv, Types
  <2> QED BY <2>1, <2>2 DEF IInv, Shape, Works, Knows
<1>4. ASSUME Apart' PROVE Alone'
  <2>1. Apart /\ Alone
    BY <1>4 DEF Apart, IInv
  <2>2. /\ disk'[n] = d /\ told'[n] = None
        /\ \A x \in Names : x # n => disk'[x] = disk[x] /\ told'[x] = told[x]
    BY DEF IInv, Types, Written
  <2>3. OneOpen' /\ OwnParts'
    BY <2>1 DEF Alone, OneOpen, Open, OwnParts
  <2>4. OneRequest'
    BY <1>4, <2>1 DEF Alone, OneRequest, IInv
  <2>5. HeldOpen'
    BY <1>4, <2>1 DEF Alone, HeldOpen, Open, IInv
  <2>6. Assembling'
    BY <1>4, <2>1, <2>2 DEF Alone, Assembling, IInv, Shape, Knows
  <2>7. OneRow'
    BY <2>1 DEF Alone, OneRow, IInv
  <2>8. Whole'
    BY <2>1, <2>2 DEF Alone, Whole
  <2> QED BY <2>3, <2>4, <2>5, <2>6, <2>7, <2>8 DEF Alone
<1> QED BY <1>2, <1>3, <1>4 DEF IInv

(* Nobody else is at the name of a request. *)
LEMMA OnlyOne ==
    ASSUME IInv, Apart, NEW h \in Handlers, handler[h].op # "none"
    PROVE  \A g \in Handlers \ {h} : handler[g].op # "none" => handler[g].n # handler[h].n
BY DEF IInv, Alone, OneRequest

LEMMA UploadWriteStep ==
    ASSUME IInv, NEW h \in Handlers, UploadWrite(h)
    PROVE  IInv'
<1> DEFINE o == handler[h]
           m == [o EXCEPT !.pc = "index"]
           d == Parts(Direct, o.size)
<1>1. o \in HandlerType /\ o.op = "upload" /\ o.n \in Names /\ o.size \in Sizes
  BY DEF IInv, Types, UploadWrite, At, Shape, Knows
<1>2. m \in HandlerType /\ m.pc = "index" /\ m.op = o.op /\ m.n = o.n /\ m.size = o.size
  BY <1>1, MoveFacts
<1>3. Knows(m) /\ Works(m)
  BY <1>1, <1>2 DEF Knows, Works
<1>4. d \in Seq(PartType)
  BY <1>1, PartsType, MaxAssumption DEF Sizes
<1>5. /\ Become(h, m) /\ disk' = [disk EXCEPT ![o.n] = d] /\ Written(o.n)
      /\ UNCHANGED <<tmp, rows, session, cache, requests>>
  BY DEF UploadWrite, Parts
<1>r. rough \subseteq rough' /\ rough' \subseteq Roughness
  BY DEF UploadWrite, Cause, IInv, Types, Roughness
<1>6. Apart' => \A g \in Handlers \ {h} : handler[g].op # "none" => handler[g].n # o.n
  BY <1>1, <1>r, OnlyOne DEF Apart
<1> HIDE DEF m, d
<1>7. WritesTo(h, m, o.n, d)
  BY <1>1, <1>2, <1>3, <1>4, <1>5, <1>6, <1>r DEF WritesTo, IInv, Types
<1> QED BY <1>1, <1>7, WritingStep

LEMMA CompleteStep ==
    ASSUME IInv, NEW h \in Handlers, NEW s \in Sessions, ChunkedUploadComplete(h, s)
    PROVE  IInv'
<1> DEFINE z == session[s]
           m == [Idle EXCEPT !.pc = "pipe", !.op = "complete", !.n = z.n, !.s = s, !.size = z.size]
<1>1. z \in SessionType /\ z.st = "open" /\ z.n \in Names /\ z.size \in Sizes
  BY DEF IInv, Types, ChunkedUploadComplete, Shape, Begun
<1>2. /\ m \in HandlerType /\ m.pc = "pipe" /\ m.op = "complete" /\ m.n = z.n /\ m.size = z.size
      /\ m.s = s /\ m.k = 0
  BY <1>1, IdleFacts DEF HandlerType, Idle
<1>3. Knows(m) /\ Works(m)
  BY <1>1, <1>2, MaxAssumption DEF Knows, Works, Sizes
<1>4. <<>> \in Seq(PartType) /\ <<>> = Parts(s, 0) /\ Piece(m) = 0
  BY <1>2 DEF Parts, Piece
<1>5. /\ Become(h, m) /\ disk' = [disk EXCEPT ![z.n] = <<>>] /\ Written(z.n)
      /\ UNCHANGED <<tmp, rows, session, cache>> /\ requests' \in 0..MaxRequests
  BY MaxAssumption DEF ChunkedUploadComplete, IInv, Types, Requested
<1>6. rough \subseteq rough' /\ rough' \subseteq Roughness
  BY DEF ChunkedUploadComplete, IInv, Types, Roughness
<1>7. Apart' => \A g \in Handlers \ {h} : handler[g].op # "none" => handler[g].n # z.n
  BY DEF ChunkedUploadComplete, Apart, Others
<1>8. Open(s) /\ z.got = 0..(z.size - 1)
  BY DEF ChunkedUploadComplete, Open
<1> HIDE DEF m
<1>9. WritesTo(h, m, z.n, <<>>)
  BY <1>1, <1>2, <1>3, <1>4, <1>5, <1>6, <1>7, <1>8 DEF WritesTo
<1> QED BY <1>1, <1>9, WritingStep

LEMMA PipeStep ==
    ASSUME IInv, NEW h \in Handlers, Pipe(h)
    PROVE  IInv'
<1> DEFINE o == handler[h]
           m == [o EXCEPT !.pc = "piped"]
           p == tmp[o.n][o.k]
           d == WriteAt(disk[o.n], o.k, Part(p, o.k))
<1>1. /\ o \in HandlerType /\ o.op = "complete" /\ o.pc = "pipe" /\ o.n \in Names /\ o.size \in Sizes
      /\ o.s \in Sessions /\ o.k \in Index /\ o.k < o.size /\ Works(o)
  BY DEF IInv, Types, Pipe, At, Shape, Knows, HandlerType
<1>2. /\ m \in HandlerType /\ m.pc = "piped" /\ m.op = o.op /\ m.n = o.n /\ m.size = o.size
      /\ m.s = o.s /\ m.k = o.k
  BY <1>1, MoveFacts
<1>3. Knows(m) /\ Works(m)
  BY <1>1, <1>2 DEF Knows, Works
<1>4. tmp[o.n] # None /\ p # None /\ p \in Sessions
  BY <1>1 DEF IInv, Types, Pipe, HasPart
<1>5. Apart => /\ Open(o.s) /\ session[o.s].got = 0..(o.size - 1) /\ p = o.s
               /\ disk[o.n] = Parts(o.s, o.k)
  <2> SUFFICES ASSUME Apart PROVE /\ Open(o.s) /\ session[o.s].got = 0..(o.size - 1) /\ p = o.s
                                  /\ disk[o.n] = Parts(o.s, o.k)
    OBVIOUS
  <2>1. Alone
    BY DEF IInv
  <2>2. Open(o.s) /\ session[o.s].got = 0..(o.size - 1)
    BY <1>1, <2>1 DEF Alone, HeldOpen
  <2>3. o.k \in session[o.s].got /\ session[o.s].n = o.n
    BY <1>1, <2>2, MaxAssumption DEF Works, Index, Sizes
  <2>4. p = o.s
    BY <1>1, <1>4, <2>1, <2>2, <2>3 DEF Alone, OwnParts
  <2>5. disk[o.n] = Parts(o.s, o.k)
    BY <1>1, <2>1 DEF Alone, Assembling, Piece
  <2> QED BY <2>2, <2>4, <2>5
<1>6. d \in Seq(PartType)
  <2>1. Part(p, o.k) \in PartType /\ disk[o.n] \in Seq(PartType)
    BY <1>1, <1>4 DEF PartType, Part, IInv, Shape
  <2> QED BY <1>1, <2>1, WriteAtType
<1>7. Apart => d = Parts(m.s, Piece(m))
  BY <1>1, <1>2, <1>5, WriteAtEnd, MaxAssumption DEF Piece, Index
<1>8. /\ Become(h, m) /\ disk' = [disk EXCEPT ![o.n] = d] /\ Written(o.n)
      /\ UNCHANGED <<tmp, rows, session, cache, requests, rough>>
  BY <1>1 DEF Pipe, IInv, Types
<1>9. Apart' => Apart
  BY <1>8 DEF Apart
<1>10. Apart => \A g \in Handlers \ {h} : handler[g].op # "none" => handler[g].n # o.n
  BY <1>1, OnlyOne
<1> HIDE DEF m, d
<1>11. WritesTo(h, m, o.n, d)
  BY <1>1, <1>2, <1>3, <1>5, <1>6, <1>7, <1>8, <1>9, <1>10 DEF WritesTo, IInv, Types
<1> QED BY <1>1, <1>11, WritingStep
-----------------------------------------------------------------------------
(* The steps that save the row, and the end of a completion.               *)

LEMMA SaveFacts ==
    ASSUME IInv, NEW h \in Handlers, handler[h].pc = "save", SaveRow(h)
    PROVE  /\ handler[h] \in HandlerType /\ handler[h].op # "none" /\ handler[h].n \in Names
           /\ rows' \in [Names -> Nat]
           /\ \A n \in Names : n # handler[h].n => rows'[n] = rows[n]
           /\ Apart => rows'[handler[h].n] = 1
           /\ Apart => \A n \in Names : rows'[n] \in {0, 1} /\ (rows[n] = 1 => rows'[n] = 1)
<1>1. handler[h] \in HandlerType /\ handler[h].op # "none" /\ handler[h].n \in Names
  BY DEF IInv, Types, Shape, Knows
<1>2. rows' \in [Names -> Nat] /\ \A n \in Names : n # handler[h].n => rows'[n] = rows[n]
  BY <1>1 DEF IInv, Types, SaveRow
<1>3. rows'[handler[h].n] = IF handler[h].hit THEN rows[handler[h].n] ELSE rows[handler[h].n] + 1
  BY <1>1 DEF IInv, Types, SaveRow
<1>4. Apart => rows[handler[h].n] \in {0, 1} /\ (handler[h].hit <=> rows[handler[h].n] = 1)
  BY <1>1 DEF IInv, Alone, OneRow
<1>5. Apart => rows'[handler[h].n] = 1
  BY <1>3, <1>4
<1>6. Apart => \A n \in Names : rows'[n] \in {0, 1} /\ (rows[n] = 1 => rows'[n] = 1)
  BY <1>2, <1>5 DEF IInv, Alone, OneRow
<1> QED BY <1>1, <1>2, <1>5, <1>6

LEMMA UploadSaveStep ==
    ASSUME IInv, NEW h \in Handlers, UploadSave(h)
    PROVE  IInv'
<1> DEFINE o == handler[h]
           m == [o EXCEPT !.pc = "count"]
<1>1. o \in HandlerType /\ o.op = "upload" /\ o.pc = "save" /\ o.n \in Names /\ Knows(o)
  BY DEF IInv, Types, UploadSave, At, Shape, Knows
<1>2. m \in HandlerType /\ m.pc = "count" /\ m.op = o.op /\ m.n = o.n /\ m.size = o.size
  BY <1>1, MoveFacts
<1>3. Become(h, m) /\ SaveRow(h) /\ UNCHANGED <<disk, tmp, session, cache, requests, told, rough>>
  BY DEF UploadSave
<1> HIDE DEF m
<1>4. /\ handler' \in [Handlers -> HandlerType] /\ handler'[h] = m
      /\ \A g \in Handlers : g # h => handler'[g] = handler[g]
  BY <1>2, <1>3, BecomeFacts DEF IInv
<1>5. Types'
  BY <1>1, <1>3, <1>4, SaveFacts DEF IInv, Types
<1>6. Shape'
  BY <1>1, <1>2, <1>3, <1>4 DEF IInv, Shape, Knows, Works
<1>7. ASSUME Apart' PROVE Alone'
  <2>1. Apart /\ Alone
    BY <1>3, <1>7 DEF Apart, IInv
  <2>2. OneOpen' /\ OwnParts'
    BY <1>3, <2>1 DEF Alone, OneOpen, OwnParts, Open
  <2>3. OneRequest' /\ HeldOpen' /\ Assembling'
    BY <1>1, <1>2, <1>3, <1>4, <2>1 DEF Alone, OneRequest, HeldOpen, Assembling, Open
  <2>4. OneRow'
    <3>1. \A g \in Handlers : g # h /\ handler[g].pc = "save" =>
             handler[g].n \in Names /\ handler[g].n # o.n
      BY <1>1, <2>1, OnlyOne DEF IInv, Shape, Knows
    <3> QED BY <1>1, <1>2, <1>3, <1>4, <2>1, <3>1, SaveFacts DEF Alone, OneRow
  <2>5. Whole'
    BY <1>1, <1>3, <2>1, SaveFacts DEF Alone, Whole
  <2> QED BY <2>2, <2>3, <2>4, <2>5 DEF Alone
<1> QED BY <1>5, <1>6, <1>7 DEF IInv

LEMMA ReleaseFacts ==
    ASSUME IInv, NEW h \in Handlers, handler[h].op = "complete", Release(h)
    PROVE  LET s == handler[h].s
           IN  /\ s \in Sessions /\ handler[h].n \in Names
               /\ handler' \in [Handlers -> HandlerType] /\ handler'[h] = Idle
               /\ \A g \in Handlers : g # h => handler'[g] = handler[g]
               /\ session' \in [Sessions -> SessionType] /\ session'[s].st = "gone"
               /\ session'[s].n = session[s].n /\ session'[s].size = session[s].size
               /\ session'[s].got = session[s].got
               /\ \A z \in Sessions : z # s => session'[z] = session[z]
<1> DEFINE s == handler[h].s
<1>1. s \in Sessions /\ handler[h].n \in Names /\ session[s] \in SessionType
  BY DEF IInv, Types, Shape, Knows
<1>2. /\ handler' \in [Handlers -> HandlerType] /\ handler'[h] = Idle
      /\ \A g \in Handlers : g # h => handler'[g] = handler[g]
  BY IdleFacts, BecomeFacts DEF Release, IInv
<1>3. /\ session' \in [Sessions -> SessionType] /\ session'[s].st = "gone"
      /\ session'[s].n = session[s].n /\ session'[s].size = session[s].size
      /\ session'[s].got = session[s].got
      /\ \A z \in Sessions : z # s => session'[z] = session[z]
  BY <1>1 DEF Release, Gone, IInv, Types, SessionType
<1> QED BY <1>1, <1>2, <1>3

(* A released session leaves the others as they are. *)
LEMMA ReleaseLeaves ==
    ASSUME IInv, NEW h \in Handlers, handler[h].op = "complete", Release(h),
           UNCHANGED <<disk, tmp>>
    PROVE  /\ \A g \in Handlers : Knows(handler'[g]) /\ Works(handler[g])'
           /\ \A g \in Handlers : handler'[g].op = "complete" => disk'[handler'[g].n] \in Seq(PartType)
           /\ \A z \in Sessions : Begun(session'[z])
           /\ \A z \in Sessions : session[z].st = "gone" => session'[z].st = "gone"
           /\ \A z \in Sessions : session'[z].size = session[z].size
           /\ Apart => OneOpen' /\ OneRequest' /\ HeldOpen' /\ OwnParts' /\ Assembling'
<1> DEFINE s == handler[h].s
<1> USE ReleaseFacts, IdleFacts
<1>1. \A g \in Handlers : Knows(handler'[g]) /\ Works(handler[g])'
  <2>1. \A g \in Handlers : handler[g].op = "complete" => handler[g].s \in Sessions
    BY DEF IInv, Shape, Knows
  <2>2. \A z \in Sessions : session'[z].n = session[z].n /\ session'[z].size = session[z].size
                             /\ (session[z].st # "unused" => session'[z].st # "unused")
    OBVIOUS
  <2>3. \A g \in Handlers : g # h => Works(handler[g])'
    BY <2>1, <2>2 DEF IInv, Shape, Works
  <2> QED BY <2>3 DEF IInv, Shape, Works
<1>2. \A g \in Handlers : handler'[g].op = "complete" => disk'[handler'[g].n] \in Seq(PartType)
  BY DEF IInv, Shape
<1>3. \A z \in Sessions : Begun(session'[z])
  BY DEF IInv, Shape, Begun, Works
<1>4. /\ \A z \in Sessions : session[z].st = "gone" => session'[z].st = "gone"
      /\ \A z \in Sessions : session'[z].size = session[z].size
  OBVIOUS
<1>5. ASSUME Apart PROVE OneOpen' /\ OneRequest' /\ HeldOpen' /\ OwnParts' /\ Assembling'
  <2>1. Alone
    BY <1>5 DEF IInv
  <2>2. OneOpen'
    BY <2>1 DEF Alone, OneOpen, Open
  <2>3. OneRequest' /\ Assembling'
    BY <2>1 DEF Alone, OneRequest, Assembling
  <2>4. HeldOpen'
    <3>1. \A g \in Handlers : g # h /\ handler[g].op = "complete" => handler[g].s # s
      BY <2>1 DEF Alone, OneRequest, IInv, Shape, Works
    <3>2. \A g \in Handlers : handler[g].op = "complete" => handler[g].s \in Sessions
      BY DEF IInv, Shape, Knows
    <3> QED BY <2>1, <3>1, <3>2 DEF Alone, HeldOpen, Open
  <2>5. OwnParts'
    BY <2>1 DEF Alone, OwnParts, Open
  <2> QED BY <2>2, <2>3, <2>4, <2>5
<1> QED BY <1>1, <1>2, <1>3, <1>4, <1>5

LEMMA CompleteFailsStep ==
    ASSUME IInv, NEW h \in Handlers, CompleteFails(h)
    PROVE  IInv'
<1>1. /\ handler[h].op = "complete" /\ Release(h)
      /\ UNCHANGED <<disk, tmp, rows, cache, requests, told, rough>>
  BY DEF CompleteFails, store
<1>2. Types'
  BY <1>1, ReleaseFacts DEF IInv, Types
<1>3. Shape'
  BY <1>1, ReleaseLeaves DEF IInv, Types, Shape
<1>4. ASSUME Apart' PROVE Alone'
  <2>1. Apart /\ Alone
    BY <1>1, <1>4 DEF Apart, IInv
  <2>2. OneRow'
    BY <1>1, <2>1, ReleaseFacts, IdleFacts DEF Alone, OneRow
  <2>3. Whole'
    BY <1>1, <2>1, ReleaseLeaves DEF Alone, Whole, IInv, Types
  <2> QED BY <1>1, <2>1, <2>2, <2>3, ReleaseLeaves DEF Alone
<1> QED BY <1>2, <1>3, <1>4 DEF IInv

LEMMA CompleteSaveStep ==
    ASSUME IInv, NEW h \in Handlers, CompleteSave(h)
    PROVE  IInv'
<1> DEFINE o == handler[h]
<1>1. /\ o.op = "complete" /\ o.pc = "save" /\ Release(h) /\ SaveRow(h)
      /\ told' = [told EXCEPT ![o.n] = o.s]
      /\ UNCHANGED <<disk, tmp, cache, requests, rough>>
  BY DEF CompleteSave, At
<1>2. o.s \in Sessions /\ o.n \in Names /\ Works(o)
  BY <1>1 DEF IInv, Shape, Knows
<1>3. /\ told' \in [Names -> Sessions \cup {None}] /\ told'[o.n] = o.s
      /\ \A n \in Names : n # o.n => told'[n] = told[n]
  BY <1>1, <1>2 DEF IInv, Types
<1>4. Types'
  BY <1>1, <1>3, ReleaseFacts, SaveFacts DEF IInv, Types
<1>5. Shape'
  <2>1. \A n \in Names : told'[n] # None => session'[told'[n]].st = "gone"
    BY <1>1, <1>2, <1>3, ReleaseLeaves, ReleaseFacts DEF IInv, Types, Shape
  <2> QED BY <1>1, <2>1, ReleaseLeaves DEF Shape
<1>6. ASSUME Apart' PROVE Alone'
  <2>1. Apart /\ Alone
    BY <1>1, <1>6 DEF Apart, IInv
  <2>2. OneRow'
    <3>1. \A g \in Handlers : g # h /\ handler[g].pc = "save" =>
             handler[g].n \in Names /\ handler[g].n # o.n
      BY <1>1, <2>1, OnlyOne DEF IInv, Shape, Knows
    <3> QED BY <1>1, <2>1, <3>1, ReleaseFacts, IdleFacts, SaveFacts DEF Alone, OneRow
  <2>3. disk'[o.n] = Parts(o.s, session'[o.s].size) /\ rows'[o.n] = 1
    BY <1>1, <1>2, <2>1, ReleaseFacts, SaveFacts DEF Alone, Assembling, Piece, Works
  <2>4. Whole'
    BY <1>1, <1>2, <1>3, <2>1, <2>3, ReleaseLeaves, SaveFacts DEF Alone, Whole, IInv, Types
  <2> QED BY <1>1, <2>1, <2>2, <2>4, ReleaseLeaves DEF Alone
<1> QED BY <1>4, <1>5, <1>6 DEF IInv
-----------------------------------------------------------------------------
(* The steps that write the directory of parts.                            *)

LEMMA InitStep ==
    ASSUME IInv, NEW h \in Handlers, NEW s \in Sessions, ChunkedUploadInit(h, s)
    PROVE  IInv'
<1> DEFINE o == handler[h]
           z == [st |-> "open", n |-> o.n, size |-> o.size, got |-> {}]
<1>1. /\ o.op = "init" /\ o.n \in Names /\ o.size \in Sizes /\ session[s].st = "unused"
      /\ session' = [session EXCEPT ![s] = z] /\ Become(h, Idle)
      /\ UNCHANGED <<disk, rows, cache, requests, told>>
  BY DEF IInv, ChunkedUploadInit, At, Shape, Knows
<1>2. z \in SessionType /\ z.st = "open" /\ z.n = o.n /\ z.size = o.size /\ z.got = {}
  BY <1>1 DEF SessionType
<1> HIDE DEF z
<1>3. /\ handler' \in [Handlers -> HandlerType] /\ handler'[h] = Idle
      /\ \A g \in Handlers : g # h => handler'[g] = handler[g]
  BY <1>1, IdleFacts, BecomeFacts DEF IInv
<1>4. /\ session' \in [Sessions -> SessionType] /\ session'[s] = z
      /\ \A y \in Sessions : y # s => session'[y] = session[y]
  BY <1>1, <1>2 DEF IInv, Types
<1>5. /\ tmp' \in [Names -> [Index -> Sessions \cup {None}] \cup {None}]
      /\ \A n \in Names : n # o.n => tmp'[n] = tmp[n]
  BY <1>1 DEF ChunkedUploadInit, IInv, Types, NoParts
<1>6. rough \subseteq rough' /\ rough' \subseteq Roughness
  BY DEF ChunkedUploadInit, IInv, Types, Roughness
<1>7. Types'
  BY <1>1, <1>3, <1>4, <1>5, <1>6 DEF IInv, Types
<1>8. \A g \in Handlers : handler[g].op = "complete" => handler[g].s \in Sessions /\ handler[g].s # s
  BY <1>1 DEF IInv, Shape, Knows, Works
<1>9. Shape'
  <2>1. \A g \in Handlers : Knows(handler'[g]) /\ Works(handler[g])'
    BY <1>3, <1>4, <1>8, IdleFacts DEF IInv, Shape, Works
  <2>2. \A g \in Handlers : handler'[g].op = "complete" => disk'[handler'[g].n] \in Seq(PartType)
    BY <1>1, <1>3, IdleFacts DEF IInv, Shape
  <2>3. Begun(z)
    BY <1>1, <1>2 DEF Begun
  <2>4. \A y \in Sessions : Begun(session'[y])
    BY <1>4, <2>3 DEF IInv, Shape
  <2>5. \A n \in Names : told'[n] # None => session'[told'[n]].st = "gone"
    BY <1>1, <1>4 DEF IInv, Shape, Types
  <2> QED BY <2>1, <2>2, <2>4, <2>5 DEF Shape
<1>10. ASSUME Apart' PROVE Alone'
  <2>1. Apart /\ Alone
    BY <1>6, <1>10 DEF Apart, IInv
  <2>2. \A y \in Sessions : Open(y) => session[y].n # o.n
    BY <1>10 DEF ChunkedUploadInit, Apart, Open
  <2>3. OneOpen'
    BY <1>2, <1>4, <2>1, <2>2 DEF Alone, OneOpen, Open
  <2>4. OneRequest' /\ Assembling' /\ OneRow'
    BY <1>1, <1>3, <2>1, IdleFacts DEF Alone, OneRequest, Assembling, OneRow
  <2>5. HeldOpen'
    BY <1>3, <1>4, <1>8, <2>1, IdleFacts DEF Alone, HeldOpen, Open
  <2>6. OwnParts'
    <3>1. \A y \in Sessions : y # s /\ Open(y) => session[y].n \in Names /\ tmp'[session[y].n] = tmp[session[y].n]
      BY <1>5, <2>2 DEF IInv, Shape, Begun, Open
    <3> QED BY <1>2, <1>4, <2>1, <3>1 DEF Alone, OwnParts, Open
  <2>7. Whole'
    <3>1. \A n \in Names : told[n] # None => told[n] \in Sessions /\ told[n] # s
      BY <1>1 DEF IInv, Shape, Types
    <3> QED BY <1>1, <1>4, <2>1, <3>1 DEF Alone, Whole
  <2> QED BY <2>3, <2>4, <2>5, <2>6, <2>7 DEF Alone
<1> QED BY <1>7, <1>9, <1>10 DEF IInv

LEMMA PartStep ==
    ASSUME IInv, NEW s \in Sessions, NEW i \in Index, ChunkedUploadPart(s, i)
    PROVE  IInv'
<1> DEFINE z == session[s]
           t == [tmp[z.n] EXCEPT ![i] = s]
<1>1. /\ z.st = "open" /\ i < z.size /\ tmp[z.n] # None
      /\ z.n \in Names /\ z.size \in Sizes /\ z.got \subseteq 0..(z.size - 1)
      /\ UNCHANGED <<disk, rows, handler, cache, requests, told, rough>>
  BY DEF IInv, Shape, Begun, ChunkedUploadPart
<1>2. /\ session' \in [Sessions -> SessionType]
      /\ session'[s].st = "open" /\ session'[s].n = z.n /\ session'[s].size = z.size
      /\ session'[s].got = z.got \cup {i}
      /\ \A y \in Sessions : y # s => session'[y] = session[y]
  BY DEF ChunkedUploadPart, IInv, Types, SessionType
<1>3. t \in [Index -> Sessions \cup {None}] /\ t[i] = s /\ \A j \in Index : j # i => t[j] = tmp[z.n][j]
  BY <1>1 DEF IInv, Types
<1>4. tmp' = [tmp EXCEPT ![z.n] = t]
  BY DEF ChunkedUploadPart
<1> HIDE DEF t
<1>5. /\ tmp' \in [Names -> [Index -> Sessions \cup {None}] \cup {None}] /\ tmp'[z.n] = t
      /\ \A n \in Names : n # z.n => tmp'[n] = tmp[n]
  BY <1>1, <1>3, <1>4 DEF IInv, Types
<1>6. Types'
  BY <1>1, <1>2, <1>5 DEF IInv, Types
<1>7. \A y \in Sessions : /\ session'[y].n = session[y].n /\ session'[y].size = session[y].size
                          /\ session'[y].st = session[y].st
  BY <1>1, <1>2
<1>8. \A g \in Handlers : handler[g].op = "complete" => handler[g].s \in Sessions
  BY DEF IInv, Shape, Knows
<1>9. i \in 0..(z.size - 1)
  BY <1>1, MaxAssumption DEF Sizes, Index
<1>10. Shape'
  <2>1. \A y \in Sessions : Begun(session'[y])
    BY <1>1, <1>2, <1>9 DEF IInv, Shape, Begun
  <2>2. \A g \in Handlers : Knows(handler'[g]) /\ Works(handler[g])'
    BY <1>1, <1>7, <1>8 DEF IInv, Shape, Works
  <2>3. \A n \in Names : told'[n] # None => session'[told'[n]].st = "gone"
    BY <1>1, <1>7 DEF IInv, Shape, Types
  <2>4. \A g \in Handlers : handler'[g].op = "complete" => disk'[handler'[g].n] \in Seq(PartType)
    BY <1>1 DEF IInv, Shape
  <2> QED BY <2>1, <2>2, <2>3, <2>4 DEF Shape
<1>11. ASSUME Apart' PROVE Alone'
  <2>1. Apart /\ Alone
    BY <1>1, <1>11 DEF Apart, IInv
  <2>2. OneOpen'
    BY <1>7, <2>1 DEF Alone, OneOpen, Open
  <2>3. OneRequest' /\ Assembling' /\ OneRow'
    BY <1>1, <2>1 DEF Alone, OneRequest, Assembling, OneRow
  <2>4. HeldOpen'
    <3>1. \A g \in Handlers : handler[g].op = "complete" /\ handler[g].s = s =>
             handler[g].size = z.size
      BY DEF IInv, Shape, Works
    <3> QED BY <1>1, <1>2, <1>7, <1>8, <1>9, <2>1, <3>1 DEF Alone, HeldOpen, Open
  <2>5. OwnParts'
    <3>1. \A y \in Sessions : y # s /\ Open(y) => session[y].n \in Names /\ session[y].n # z.n
      BY <1>1, <2>1 DEF Alone, OneOpen, IInv, Shape, Begun, Open
    <3>2. \A y \in Sessions : session[y] \in SessionType /\ session[y].got \subseteq Index
      BY DEF IInv, Types, SessionType
    <3>3. \A j \in z.got \cup {i} : t[j] \in {s, None}
      BY <1>1, <1>3, <2>1, <3>2 DEF Alone, OwnParts, Open
    <3> QED BY <1>2, <1>5, <1>7, <2>1, <3>1, <3>3 DEF Alone, OwnParts, Open
  <2>6. Whole'
    BY <1>1, <1>7, <2>1 DEF Alone, Whole, IInv, Types
  <2> QED BY <2>2, <2>3, <2>4, <2>5, <2>6 DEF Alone
<1> QED BY <1>6, <1>10, <1>11 DEF IInv

LEMMA PipedStep ==
    ASSUME IInv, NEW h \in Handlers, Piped(h)
    PROVE  IInv'
<1> DEFINE o == handler[h]
           last == o.k + 1 = o.size
           m == IF last THEN [o EXCEPT !.pc = "index"]
                ELSE [o EXCEPT !.pc = "pipe", !.k = o.k + 1]
           t == IF last THEN None ELSE [tmp[o.n] EXCEPT ![o.k] = None]
<1>1. /\ o \in HandlerType /\ o.op = "complete" /\ o.pc = "piped" /\ o.n \in Names /\ o.size \in Sizes
      /\ o.s \in Sessions /\ o.k \in Index /\ o.k < o.size /\ Works(o) /\ tmp[o.n] # None
  BY DEF IInv, Types, Piped, At, HasPart, Shape, Knows, HandlerType
<1>2. ~last => o.k + 1 \in Index /\ o.k + 1 < o.size
  BY <1>1, MaxAssumption DEF Index, Sizes
<1>3. /\ m \in HandlerType /\ m.op = o.op /\ m.n = o.n /\ m.size = o.size /\ m.s = o.s
      /\ m.pc = (IF last THEN "index" ELSE "pipe") /\ m.k = (IF last THEN o.k ELSE o.k + 1)
  BY <1>1, <1>2 DEF HandlerType
<1>4. /\ Become(h, m) /\ tmp' = [tmp EXCEPT ![o.n] = t]
      /\ UNCHANGED <<disk, rows, session, cache, requests, told, rough>>
  BY DEF Piped
<1>5. /\ t \in [Index -> Sessions \cup {None}] \cup {None}
      /\ t # None => \A j \in Index : t[j] \in {tmp[o.n][j], None}
  BY <1>1 DEF IInv, Types
<1>6. Knows(m) /\ Works(m) /\ Piece(m) = Piece(o)
  BY <1>1, <1>2, <1>3 DEF Knows, Works, Piece
<1> HIDE DEF m, t
<1>7. /\ tmp' \in [Names -> [Index -> Sessions \cup {None}] \cup {None}] /\ tmp'[o.n] = t
      /\ \A n \in Names : n # o.n => tmp'[n] = tmp[n]
  BY <1>1, <1>4, <1>5 DEF IInv, Types
<1>8. /\ handler' \in [Handlers -> HandlerType] /\ handler'[h] = m
      /\ \A g \in Handlers : g # h => handler'[g] = handler[g]
  BY <1>3, <1>4, BecomeFacts DEF IInv
<1>9. Types'
  BY <1>4, <1>7, <1>8 DEF IInv, Types
<1>10. Shape'
  BY <1>1, <1>3, <1>4, <1>6, <1>8 DEF IInv, Shape, Works
<1>11. ASSUME Apart' PROVE Alone'
  <2>1. Apart /\ Alone
    BY <1>4, <1>11 DEF Apart, IInv
  <2>2. OneOpen' /\ Whole'
    BY <1>4, <2>1 DEF Alone, OneOpen, Whole, Open
  <2>3. OneRequest' /\ HeldOpen'
    BY <1>1, <1>3, <1>4, <1>8, <2>1 DEF Alone, OneRequest, HeldOpen, Open
  <2>4. Assembling'
    BY <1>1, <1>3, <1>4, <1>6, <1>8, <2>1 DEF Alone, Assembling
  <2>5. OneRow'
    BY <1>3, <1>4, <1>8, <2>1 DEF Alone, OneRow
  <2>6. OwnParts'
    <3>1. \A y \in Sessions : session[y] \in SessionType /\ session[y].got \subseteq Index
      BY DEF IInv, Types, SessionType
    <3>2. \A y \in Sessions : Open(y) => session[y].n \in Names
      BY DEF IInv, Shape, Begun, Open
    <3> QED BY <1>1, <1>4, <1>5, <1>7, <2>1, <3>1, <3>2 DEF Alone, OwnParts, Open
  <2> QED BY <2>2, <2>3, <2>4, <2>5, <2>6 DEF Alone
<1> QED BY <1>9, <1>10, <1>11 DEF IInv

-----------------------------------------------------------------------------
(* A restart, and the whole.                                               *)

LEMMA CrashStep == ASSUME IInv, Crash PROVE IInv'
<1>1. /\ handler' \in [Handlers -> HandlerType] /\ \A h \in Handlers : handler'[h] = Idle
      /\ UNCHANGED <<disk, tmp, rows, cache, requests, told>>
  BY IdleFacts DEF Crash, store
<1>2. /\ session' \in [Sessions -> SessionType]
      /\ \A s \in Sessions : /\ session'[s].n = session[s].n /\ session'[s].size = session[s].size
                             /\ session'[s].got = session[s].got /\ session'[s].st # "open"
                             /\ (session[s].st \in {"unused", "gone"} => session'[s].st = session[s].st)
                             /\ (session'[s].st = "unused" => session[s].st = "unused")
  BY DEF Crash, IInv, Types, SessionType
<1>3. rough \subseteq rough' /\ rough' \subseteq Roughness
  BY DEF Crash, Cause, IInv, Types, Roughness
<1>4. Types'
  BY <1>1, <1>2, <1>3 DEF IInv, Types
<1>5. Shape'
  BY <1>1, <1>2, IdleFacts DEF IInv, Shape, Works, Begun, Types
<1>6. ASSUME Apart' PROVE Alone'
  <2>1. Apart /\ Alone
    BY <1>3, <1>6 DEF Apart, IInv
  <2>2. OneOpen' /\ OneRequest' /\ HeldOpen' /\ OwnParts' /\ Assembling'
    BY <1>1, <1>2, IdleFacts DEF OneOpen, OneRequest, HeldOpen, OwnParts, Assembling, Open
  <2>3. OneRow'
    BY <1>1, <2>1, IdleFacts DEF Alone, OneRow
  <2>4. Whole'
    BY <1>1, <1>2, <2>1 DEF Alone, Whole, IInv, Types
  <2> QED BY <2>2, <2>3, <2>4 DEF Alone
<1> QED BY <1>4, <1>5, <1>6 DEF IInv
LEMMA IInvInit == Init => IInv
<1> SUFFICES ASSUME Init PROVE IInv
  OBVIOUS
<1>1. Types
  BY IdleFacts, MaxAssumption DEF Init, Types
<1>2. Shape
  BY IdleFacts DEF Init, Shape, Works, Begun
<1>3. OneOpen /\ OneRequest /\ HeldOpen /\ OwnParts /\ Assembling /\ OneRow /\ Whole
  BY IdleFacts DEF Init, OneOpen, OneRequest, HeldOpen, OwnParts, Assembling, OneRow, Whole, Open
<1> QED BY <1>1, <1>2, <1>3 DEF IInv, Alone

LEMMA IInvStep == IInv /\ [Next]_vars => IInv'
<1> SUFFICES ASSUME IInv, [Next]_vars PROVE IInv'
  OBVIOUS
<1>1. ASSUME NEW h \in Handlers, Request(h) PROVE IInv'
  BY <1>1, AskStep, CompleteStep DEF Request
<1>2. ASSUME NEW h \in Handlers, Continue(h) PROVE IInv'
  BY <1>2, GetStep, RefuseStep, UploadWriteStep, FindRowStep, UploadSaveStep, CountStep, InitStep,
     PipeStep, PipedStep, CompleteSaveStep DEF Continue
<1>3. ASSUME NEW h \in Handlers, Failing(h) PROVE IInv'
  BY <1>3, UploadFailsStep, CompleteFailsStep DEF Failing
<1>4. CASE UNCHANGED vars
  <2>1. Types' /\ Shape'
    BY <1>4 DEF vars, store, IInv, Types, Shape, Works
  <2>2. (Apart => Alone)'
    BY <1>4 DEF vars, store, IInv, Apart, Alone, OneOpen, OneRequest, HeldOpen, OwnParts,
                Assembling, OneRow, Whole, Open
  <2> QED BY <2>1, <2>2 DEF IInv
<1> QED BY <1>1, <1>2, <1>3, <1>4, PartStep, ExpireStep, CrashStep DEF Next

LEMMA IInvAlways == Spec => []IInv
BY IInvInit, IInvStep, PTL DEF Spec

(* Every variable of FilesService keeps its type: a completion never asks  *)
(* for a part beyond the last one, and a part is only stored while its     *)
(* directory is there.                                                     *)
THEOREM TypeCorrect == Spec => []TypeOK
<1>1. IInv => TypeOK
  BY DEF IInv, Types, TypeOK, HandlerType, SessionType, PartType
<1> QED BY <1>1, IInvAlways, PTL

(* A file whose completion was reported as done is the parts of that       *)
(* session, in order, with one row, for any number of sessions, sizes,     *)
(* orders of parts, failures and restarts, as long as one upload at a time *)
(* goes to a name.                                                         *)
THEOREM CompletedIsWhole == Spec => []AssembledWhole
<1>1. IInv => AssembledWhole
  <2> SUFFICES ASSUME IInv, Apart PROVE \A n \in Names : told[n] # None =>
                  disk[n] = Assembled(told[n]) /\ rows[n] = 1
    BY DEF AssembledWhole, Apart
  <2>1. Whole
    BY DEF IInv, Alone
  <2>2. \A s : Assembled(s) = Parts(s, session[s].size)
    BY DEF Assembled, Parts
  <2> QED BY <2>1, <2>2 DEF Whole
<1> QED BY <1>1, IInvAlways, PTL

-----------------------------------------------------------------------------
(* The quota.                                                              *)

Calm == rough \cap {"parallel", "chunked", "gap", "uncounted"} = {}

Uploading(h) == handler[h].op = "upload"
Stored(h) == Uploading(h) /\ handler[h].pc \in {"index", "save", "count"}

(* While nothing of that happens there are no sessions and no parts, and   *)
(* one upload at a time;                                                   *)
NoChunks ==
    /\ \A s \in Sessions : ~Open(s)
    /\ \A n \in Names : tmp[n] = None
    /\ \A h \in Handlers : handler[h].op # "complete"
OneUpload == \A h, g \in Handlers : Uploading(h) /\ Uploading(g) => h = g

(* the cached total, and the one an upload has read, cover what is stored; *)
(* once the new file is stored, they do together with its size.            *)
Counted ==
    /\ cache # None /\ (\A h \in Handlers : ~Stored(h)) => Total <= cache
    /\ \A h \in Handlers : Uploading(h) /\ handler[h].pc = "check" => Total <= handler[h].used
    /\ \A h \in Handlers : Stored(h) =>
          Total <= handler[h].used + handler[h].size /\ handler[h].used + handler[h].size <= MaxData

QInv == IInv /\ (Calm => NoChunks /\ OneUpload /\ Counted /\ Total <= MaxData)

LEMMA SameTotal == ASSUME UNCHANGED <<disk, tmp>> PROVE Total' = Total
BY DEF Total, SizeOf, Size, PartFiles

(* Storing a file adds at most its size: what was there is replaced. *)
LEMMA StoredTotal ==
    ASSUME Types, Types', NEW n \in Names, NEW d \in Seq(PartType),
           disk' = [disk EXCEPT ![n] = d], UNCHANGED tmp
    PROVE  Total' <= Total + Len(d)
<1> DEFINE new == {n} \X (0..(Len(d) - 1))
<1>1. IsFiniteSet(new) /\ Cardinality(new) = Len(d)
  <2>1. Len(d) \in Nat
    OBVIOUS
  <2>2. IsFiniteSet(0..(Len(d) - 1)) /\ Cardinality(0..(Len(d) - 1)) = Len(d)
    <3> DEFINE b == Len(d) - 1
    <3>1. b \in Int /\ 0 \in Int
      BY <2>1
    <3>2. (IF 0 > b THEN 0 ELSE b - 0 + 1) = Len(d)
      BY <2>1
    <3> HIDE DEF b
    <3>3. IsFiniteSet(0..b) /\ Cardinality(0..b) = IF 0 > b THEN 0 ELSE b - 0 + 1
      BY <3>1, FS_Interval
    <3> QED BY <3>2, <3>3 DEF b
  <2>3. IsFiniteSet({n}) /\ Cardinality({n}) = 1
    BY FS_Singleton
  <2>4. IsFiniteSet(new) /\ Cardinality(new) = Cardinality({n}) * Cardinality(0..(Len(d) - 1))
    BY <2>2, <2>3, FS_Product
  <2>5. Cardinality(new) = 1 * Len(d)
    BY <2>2, <2>3, <2>4
  <2> QED BY <2>1, <2>4, <2>5
<1>2. Files' \subseteq Files \cup new
  <2>1. \A x \in Visible : x # n => Size(x)' = Size(x)
    BY DEF Types, Size, Visible
  <2>2. disk'[n] = d
    BY DEF Types
  <2>3. Size(n)' = IF disk'[n] = None THEN 0 ELSE Len(disk'[n])
    BY DEF Size
  <2>4. 0..(Size(n)' - 1) \subseteq 0..(Len(d) - 1)
    BY <2>2, <2>3
  <2>5. \A x \in Visible : {x} \X (0..(Size(x)' - 1)) \subseteq Files \cup new
    <3> TAKE x \in Visible
    <3>1. CASE x = n
      BY <2>4, <3>1
    <3>2. CASE x # n
      BY <2>1, <3>2 DEF Files
    <3> QED BY <3>1, <3>2
  <2>6. Files' = UNION {{x} \X (0..(Size(x)' - 1)) : x \in Visible}
    BY DEF Files
  <2> QED BY <2>5, <2>6
<1>3. Chunks' = Chunks
  BY DEF Chunks, PartFiles
<1>4. /\ IsFiniteSet(Files) /\ IsFiniteSet(Chunks) /\ IsFiniteSet(Files')
      /\ Cardinality(Files) \in Nat /\ Cardinality(Chunks) \in Nat /\ Cardinality(Files') \in Nat
  <2>1. IsFiniteSet(Files) /\ IsFiniteSet(Chunks)
    BY TotalFinite
  <2>2. IsFiniteSet(Files \cup new)
    BY <1>1, <2>1, FS_Union
  <2>3. IsFiniteSet(Files')
    BY <1>2, <2>2, FS_Subset
  <2> QED BY <2>1, <2>3, FS_CardinalityType
<1>5. Cardinality(Files') <= Cardinality(Files) + Len(d)
  <2>1. IsFiniteSet(Files \cup new) /\ Cardinality(Files \cup new) =
          Cardinality(Files) + Cardinality(new) - Cardinality(Files \cap new)
    BY <1>1, <1>4, FS_Union
  <2>2. Cardinality(Files \cap new) \in Nat
    <3>1. IsFiniteSet(Files \cap new)
      BY <1>1, FS_Subset
    <3> QED BY <3>1, FS_CardinalityType
  <2>3. Cardinality(Files') <= Cardinality(Files \cup new)
    BY <1>2, <2>1, FS_Subset
  <2> QED BY <1>1, <1>4, <2>1, <2>2, <2>3
<1>6. Total = Cardinality(Files) + Cardinality(Chunks) /\ Total' = Cardinality(Files') + Cardinality(Chunks')
  BY DEF Total, SizeOf, Visible, Files, Chunks
<1> QED BY <1>3, <1>4, <1>5, <1>6
(* A request that moves on and stores nothing. *)
LEMMA QuietQuota ==
    ASSUME QInv, IInv', Calm', Calm, NEW h \in Handlers, NEW m \in HandlerType, Become(h, m),
           UNCHANGED <<disk, tmp, session>>,
           m.op # "complete",
           m.op = "upload" => Uploading(h) \/ \A g \in Handlers : ~Uploading(g),
           cache' = cache \/ (cache' \in Nat /\ Total <= cache'),
           m.op = "upload" /\ m.pc = "check" => Total <= m.used,
           m.op = "upload" /\ m.pc \in {"index", "save", "count"} =>
               Stored(h) /\ m.used = handler[h].used /\ m.size = handler[h].size,
           Stored(h) => (m.op = "upload" /\ m.pc \in {"index", "save", "count"})
                        \/ (cache' \in Nat /\ Total <= cache')
    PROVE  QInv'
<1>1. NoChunks /\ OneUpload /\ Counted /\ Total <= MaxData /\ Types
  BY DEF QInv, IInv
<1>2. /\ handler'[h] = m
      /\ \A g \in Handlers : g # h => handler'[g] = handler[g]
  BY <1>1, BecomeFacts
<1>3. Total' = Total
  BY SameTotal
<1>4. NoChunks' /\ OneUpload'
  BY <1>1, <1>2 DEF NoChunks, OneUpload, Uploading, Open
<1>5. Counted'
  <2>1. \A g \in Handlers : g # h => (Stored(g)' <=> Stored(g)) /\ (Uploading(g)' <=> Uploading(g))
    BY <1>2 DEF Stored, Uploading
  <2>2. /\ Stored(h)' <=> m.op = "upload" /\ m.pc \in {"index", "save", "count"}
        /\ Uploading(h)' <=> m.op = "upload"
    BY <1>2 DEF Stored, Uploading
  <2>3. cache' # None /\ (\A g \in Handlers : ~Stored(g)') => Total <= cache'
    BY <1>1, <2>1, <2>2 DEF Counted
  <2>4. \A g \in Handlers : Uploading(g)' /\ handler'[g].pc = "check" => Total <= handler'[g].used
    BY <1>1, <1>2, <2>1, <2>2 DEF Counted
  <2>5. \A g \in Handlers : Stored(g)' =>
          /\ Total <= handler'[g].used + handler'[g].size
          /\ handler'[g].used + handler'[g].size <= MaxData
    BY <1>1, <1>2, <2>1, <2>2 DEF Counted
  <2> QED BY <1>3, <2>3, <2>4, <2>5 DEF Counted
<1> QED BY <1>1, <1>3, <1>4, <1>5 DEF QInv

LEMMA AskQuota ==
    ASSUME QInv, IInv', Calm', Calm, NEW h \in Handlers, NEW op \in {"upload", "init"},
           NEW n \in Names, NEW size \in Sizes, Ask(h, op, n, size)
    PROVE  QInv'
<1>1. Total \in Nat
  BY TotalNat DEF QInv, IInv
<1>2. PICK m \in {Waits(op, n, size), Checks(op, n, size, Total)} :
         Become(h, m) /\ (cache' = cache \/ cache' = Total)
  BY DEF Ask, Waits, Checks
<1>3. m \in HandlerType /\ m.op = op /\ m.pc \in {"get", "check"}
  BY <1>1, AskFacts
<1>4. m.pc = "check" => m.used = Total
  BY <1>1, AskFacts
<1>5. \A g \in Handlers : ~Uploading(g)
  <2>1. \A g \in Handlers \ {h} : ~Uploading(g)
    BY DEF Ask, Calm, Others, Uploading
  <2>2. ~Uploading(h)
    BY IdleFacts DEF Ask, Uploading
  <2> QED BY <2>1, <2>2
<1>6. ~Stored(h) /\ UNCHANGED <<disk, tmp, session>>
  BY <1>5 DEF Stored, Ask, store
<1> QED BY <1>1, <1>2, <1>3, <1>4, <1>5, <1>6, QuietQuota

LEMMA GetQuota ==
    ASSUME QInv, IInv', Calm', Calm, NEW h \in Handlers, GetUsedData(h)
    PROVE  QInv'
<1> DEFINE o == handler[h]
           m == [o EXCEPT !.pc = "check", !.used = IF cache = None THEN 0 ELSE cache]
<1>1. o \in HandlerType /\ o.pc = "get" /\ cache \in Nat \cup {None} /\ o.op # "complete"
  BY DEF QInv, IInv, Types, GetUsedData, NoChunks
<1>2. cache # None
  BY DEF GetUsedData, Cause, Calm
<1>3. m \in HandlerType /\ m.pc = "check" /\ m.op = o.op /\ m.used = cache
  BY <1>1, <1>2 DEF HandlerType
<1>4. Uploading(h) => Total <= cache
  BY <1>1, <1>2 DEF QInv, OneUpload, Counted, Stored
<1>5. Become(h, m) /\ UNCHANGED <<disk, tmp, session, cache>>
  BY DEF GetUsedData, store
<1>6. ~Stored(h) /\ (m.op = "upload" <=> Uploading(h))
  BY <1>1, <1>3 DEF Stored, Uploading
<1> HIDE DEF m
<1> QED BY <1>1, <1>3, <1>4, <1>5, <1>6, QuietQuota

LEMMA RefuseQuota ==
    ASSUME QInv, IInv', Calm', Calm, NEW h \in Handlers, Refuse(h)
    PROVE  QInv'
<1>1. ~Stored(h) /\ Become(h, Idle) /\ UNCHANGED <<disk, tmp, session, cache>>
  BY DEF Refuse, Stored, store
<1> QED BY <1>1, IdleFacts, QuietQuota

LEMMA CountQuota ==
    ASSUME QInv, IInv', Calm', Calm, NEW h \in Handlers, UploadCount(h)
    PROVE  QInv'
<1>1. /\ Stored(h) /\ Become(h, Idle) /\ UNCHANGED <<disk, tmp, session>>
      /\ cache' = handler[h].used + handler[h].size
  BY DEF UploadCount, At, Stored, Uploading, store
<1>2. cache' \in Nat /\ Total <= cache'
  <2>1. handler[h] \in HandlerType
    BY DEF QInv, IInv, Types
  <2> QED BY <1>1, <2>1, MaxAssumption DEF QInv, Counted, HandlerType, Sizes
<1> QED BY <1>1, <1>2, IdleFacts, QuietQuota

(* The upload looks up its row and saves it. *)
LEMMA RowQuota ==
    ASSUME QInv, IInv', Calm', Calm, NEW h \in Handlers, FindRow(h) \/ UploadSave(h)
    PROVE  QInv'
<1> DEFINE o == handler[h]
           b == rows[o.n] > 0
           found == [o EXCEPT !.pc = "save", !.hit = b]
           saved == [o EXCEPT !.pc = "count"]
<1>1. o \in HandlerType /\ o.pc \in {"index", "save"} /\ o.op # "complete" /\ Knows(o)
  BY DEF QInv, IInv, Types, Shape, FindRow, UploadSave, At, NoChunks
<1>2. Stored(h) /\ o.op = "upload"
  BY <1>1 DEF Knows, Stored, Uploading, HandlerType
<1>3. found \in HandlerType /\ found.pc = "save" /\ found.op = o.op /\ found.size = o.size /\ found.used = o.used
  <2>1. b \in BOOLEAN
    OBVIOUS
  <2> HIDE DEF b
  <2> QED BY <1>1, <2>1 DEF HandlerType
<1>4. saved \in HandlerType /\ saved.pc = "count" /\ saved.op = o.op /\ saved.size = o.size /\ saved.used = o.used
  BY <1>1, MoveFacts
<1>5. PICK m \in {found, saved} : Become(h, m)
  BY DEF FindRow, UploadSave
<1>6. /\ m \in HandlerType /\ m.pc \in {"save", "count"} /\ m.op = o.op /\ m.size = o.size /\ m.used = o.used
      /\ UNCHANGED <<disk, tmp, session, cache>> /\ Uploading(h)
  BY <1>2, <1>3, <1>4 DEF FindRow, UploadSave, store, Uploading
<1> HIDE DEF found, saved
<1> QED BY <1>2, <1>5, <1>6, QuietQuota

(* The check lets an upload through that then stores its file. *)
LEMMA WriteQuota ==
    ASSUME QInv, IInv', Calm', Calm, NEW h \in Handlers, UploadWrite(h)
    PROVE  QInv'
<1> DEFINE o == handler[h]
           m == [o EXCEPT !.pc = "index"]
           d == Parts(Direct, o.size)
<1>1. /\ o \in HandlerType /\ o.op = "upload" /\ o.pc = "check" /\ o.n \in Names /\ o.size \in Sizes
      /\ o.used \in Nat /\ o.used + o.size <= MaxData
  BY DEF QInv, IInv, Types, UploadWrite, At, Shape, Knows, HandlerType, Fits
<1>2. m \in HandlerType /\ m.pc = "index" /\ m.op = o.op /\ m.size = o.size /\ m.used = o.used
  BY <1>1, MoveFacts
<1>3. d \in Seq(PartType) /\ Len(d) = o.size
  <2>1. o.size \in 0..MaxSize /\ Direct \in Sessions \cup {Direct, None}
    BY <1>1, MaxAssumption DEF Sizes
  <2> QED BY <2>1, PartsType
<1>4. Become(h, m) /\ disk' = [disk EXCEPT ![o.n] = d] /\ UNCHANGED <<tmp, session, cache>>
  BY DEF UploadWrite, Parts
<1> HIDE DEF m, d
<1>5. NoChunks /\ OneUpload /\ Counted /\ Types /\ Types'
  BY DEF QInv, IInv
<1>6. /\ handler'[h] = m
      /\ \A g \in Handlers : g # h => handler'[g] = handler[g]
  BY <1>2, <1>4, <1>5, BecomeFacts
<1>7. Total <= o.used /\ Total' <= Total + o.size /\ Total \in Nat /\ Total' \in Nat
  <2>1. Total <= o.used
    BY <1>1, <1>5 DEF Counted, Uploading
  <2>2. Total' <= Total + Len(d)
    BY <1>1, <1>3, <1>4, <1>5, StoredTotal
  <2>3. Total \in Nat /\ Total' \in Nat
    <3>1. IsFiniteSet(Files) /\ IsFiniteSet(Chunks)
      BY <1>5, TotalFinite
    <3>2. (IsFiniteSet(Files) /\ IsFiniteSet(Chunks))'
      BY <1>5, TotalFinite, PTL
    <3>3. /\ Cardinality(Files) \in Nat /\ Cardinality(Chunks) \in Nat
          /\ Cardinality(Files') \in Nat /\ Cardinality(Chunks') \in Nat
      BY <3>1, <3>2, FS_CardinalityType
    <3> QED BY <3>3 DEF Total, SizeOf, Visible, Files, Chunks
  <2> QED BY <1>3, <2>1, <2>2, <2>3
<1>8. Total' <= o.used + o.size /\ Total' <= MaxData
  BY <1>1, <1>7, MaxAssumption DEF Sizes
<1>9. NoChunks' /\ OneUpload'
  BY <1>1, <1>2, <1>4, <1>5, <1>6 DEF NoChunks, OneUpload, Uploading, Open
<1>10. Counted'
  <2>1. Stored(h)' /\ \A g \in Handlers : g # h => ~Uploading(g)'
    BY <1>1, <1>2, <1>5, <1>6 DEF Stored, Uploading, OneUpload
  <2>2. \A g \in Handlers : Stored(g)' => g = h
    BY <2>1 DEF Stored
  <2> QED BY <1>1, <1>2, <1>6, <1>8, <2>1, <2>2 DEF Counted
<1> QED BY <1>8, <1>9, <1>10 DEF QInv

LEMMA ForgetQuota ==
    ASSUME QInv, IInv', Calm', Calm, Expire \/ Crash
    PROVE  QInv'
<1>1. NoChunks /\ OneUpload /\ Counted /\ Total <= MaxData /\ Types
  BY DEF QInv, IInv
<1>2. Total' = Total /\ (cache' = None \/ cache' = cache)
  BY SameTotal DEF Expire, Crash, store
<1>3. CASE Expire
  <2>1. cache' = None /\ UNCHANGED <<tmp, session, handler>>
    BY <1>3 DEF Expire, store
  <2>2. NoChunks' /\ OneUpload'
    BY <1>1, <2>1 DEF NoChunks, OneUpload, Uploading, Open
  <2>3. Counted'
    BY <1>1, <1>2, <2>1 DEF Counted, Stored, Uploading
  <2> QED BY <1>1, <1>2, <2>2, <2>3 DEF QInv
<1>4. CASE Crash
  <2>1. \A h \in Handlers : ~Uploading(h) /\ handler'[h] = Idle
    BY <1>4 DEF Crash, Cause, Calm, Uploading
  <2>2. \A s \in Sessions : session'[s] = session[s]
    BY <1>1, <1>4 DEF Crash, NoChunks, Open
  <2>3. tmp' = tmp /\ \A h \in Handlers : ~Uploading(h)' /\ ~Stored(h)' /\ ~Stored(h)
    BY <1>4, <2>1, IdleFacts DEF Crash, store, Stored, Uploading
  <2>4. NoChunks'
    BY <1>1, <2>1, <2>2, <2>3, IdleFacts DEF NoChunks, Open
  <2>5. OneUpload' /\ Counted'
    BY <1>1, <1>2, <2>3 DEF OneUpload, Counted
  <2> QED BY <1>1, <1>2, <2>4, <2>5 DEF QInv
<1> QED BY <1>3, <1>4
LEMMA QInvStep == QInv /\ [Next]_vars => QInv'
<1> SUFFICES ASSUME QInv, [Next]_vars PROVE QInv'
  OBVIOUS
<1>1. IInv'
  BY IInvStep DEF QInv
<1>2. CASE ~Calm'
  BY <1>1, <1>2 DEF QInv
<1>3. CASE Calm' /\ UNCHANGED vars
  <2>1. Total' = Total
    BY <1>3, SameTotal DEF vars, store
  <2> QED BY <1>1, <1>3, <2>1 DEF vars, store, QInv, Calm, NoChunks, OneUpload, Counted, Uploading, Stored, Open
<1>4. CASE Calm' /\ Next
  <2>1. rough \subseteq rough'
    BY <1>4 DEF Next, Request, Continue, Failing, Ask, ChunkedUploadComplete, GetUsedData, Refuse,
                UploadWrite, FindRow, UploadSave, UploadCount, ChunkedUploadInit, Pipe, Piped,
                CompleteSave, UploadFails, CompleteFails, ChunkedUploadPart, Expire, Crash, Cause
  <2>2. Calm /\ NoChunks
    BY <1>4, <2>1 DEF QInv, Calm
  <2>3. ASSUME NEW h \in Handlers, Request(h) PROVE QInv'
    <3>1. ASSUME NEW s \in Sessions, ChunkedUploadComplete(h, s) PROVE FALSE
      BY <2>2, <3>1 DEF ChunkedUploadComplete, NoChunks, Open
    <3> QED BY <1>1, <1>4, <2>2, <2>3, <3>1, AskQuota DEF Request
  <2>4. ASSUME NEW h \in Handlers, Continue(h) PROVE QInv'
    <3>1. ~Pipe(h) /\ ~Piped(h) /\ ~CompleteSave(h)
      BY <2>2 DEF Pipe, Piped, CompleteSave, At, NoChunks
    <3>2. ASSUME NEW s \in Sessions, ChunkedUploadInit(h, s) PROVE FALSE
      BY <1>4, <3>2 DEF ChunkedUploadInit, Calm
    <3> QED BY <1>1, <1>4, <2>2, <2>4, <3>1, <3>2, GetQuota, RefuseQuota, WriteQuota, RowQuota,
               CountQuota DEF Continue
  <2>5. ASSUME NEW h \in Handlers, Failing(h) PROVE FALSE
    BY <1>4, <2>2, <2>5 DEF Failing, UploadFails, CompleteFails, Cause, Calm, NoChunks
  <2>6. ASSUME NEW s \in Sessions, NEW i \in Index, ChunkedUploadPart(s, i) PROVE FALSE
    BY <2>2, <2>6 DEF ChunkedUploadPart, NoChunks, Open
  <2> QED BY <1>1, <1>4, <2>2, <2>3, <2>4, <2>5, <2>6, ForgetQuota DEF Next
<1> QED BY <1>2, <1>3, <1>4

LEMMA QInvInit == Init => QInv
<1> SUFFICES ASSUME Init PROVE QInv
  OBVIOUS
<1>1. IInv
  BY IInvInit
<1>2. NoChunks /\ OneUpload
  BY IdleFacts DEF Init, NoChunks, OneUpload, Uploading, Open
<1>3. Total = 0
  <2>1. Files = {}
    <3>1. \A n \in Visible : Size(n) = 0
      BY DEF Init, Size, Visible
    <3>2. \A n \in Visible : 0..(Size(n) - 1) = {}
      BY <3>1
    <3> QED BY <3>2 DEF Files
  <2>2. Chunks = {}
    <3>1. \A n \in Visible : PartFiles(n) = {}
      BY DEF Init, PartFiles, Visible
    <3> QED BY <3>1 DEF Chunks
  <2>3. Total = Cardinality(Files) + Cardinality(Chunks)
    BY DEF Total, SizeOf, Visible, Files, Chunks
  <2> QED BY <2>1, <2>2, <2>3, FS_EmptySet
<1>4. Counted
  BY <1>3, IdleFacts DEF Init, Counted, Uploading, Stored
<1> QED BY <1>1, <1>2, <1>3, <1>4, MaxAssumption DEF QInv

(* As long as no upload has gone into a hidden directory, nothing is       *)
(* stored there.                                                           *)
Unhidden == Calm /\ "hidden" \notin rough => \A n \in Hidden : disk[n] = None

LEMMA UnhiddenStep == QInv /\ Unhidden /\ [Next]_vars => Unhidden'
<1> SUFFICES ASSUME QInv, Unhidden, [Next]_vars, Calm', "hidden" \notin rough',
                    NEW n \in Hidden
             PROVE  disk'[n] = None
  BY DEF Unhidden
<1>1. rough \subseteq rough'
  BY DEF Next, Request, Continue, Failing, Ask, ChunkedUploadComplete, GetUsedData, Refuse,
         UploadWrite, FindRow, UploadSave, UploadCount, ChunkedUploadInit, Pipe, Piped,
         CompleteSave, UploadFails, CompleteFails, ChunkedUploadPart, Expire, Crash, Cause, vars
<1>2. NoChunks /\ disk[n] = None /\ n \in Names /\ Types
  BY <1>1, NamesAssumption DEF QInv, IInv, Calm, Unhidden
<1>3. CASE \E h \in Handlers : UploadWrite(h)
  <2>1. PICK h \in Handlers : UploadWrite(h)
    BY <1>3
  <2>2. handler[h].n # n
    BY <2>1 DEF UploadWrite, Cause
  <2> QED BY <1>2, <2>1, <2>2 DEF UploadWrite, Types
<1>4. \A h \in Handlers : ~Pipe(h) /\ \A s \in Sessions : ~ChunkedUploadComplete(h, s)
  BY <1>2 DEF Pipe, At, ChunkedUploadComplete, NoChunks, Open
<1>5. CASE ~\E h \in Handlers : UploadWrite(h)
  <2>1. UNCHANGED disk
    BY <1>4, <1>5 DEF Next, Request, Continue, Failing, Ask, GetUsedData, Refuse, FindRow,
         UploadSave, UploadCount, ChunkedUploadInit, Piped, CompleteSave, UploadFails,
         CompleteFails, ChunkedUploadPart, Expire, Crash, vars, store
  <2> QED BY <1>2, <2>1
<1> QED BY <1>3, <1>5

(* Then the total is all that is stored. *)
LEMMA TotalIsAll ==
    ASSUME Types, NoChunks, \A n \in Hidden : disk[n] = None
    PROVE  SizeOf(Names) = Total
<1>1. \A n \in Hidden : 0..(Size(n) - 1) = {}
  BY DEF Size
<1>2. \A n \in Hidden : PartFiles(n) = {}
  BY NamesAssumption DEF PartFiles, NoChunks
<1>3. UNION {{n} \X (0..(Size(n) - 1)) : n \in Names}
        = UNION {{n} \X (0..(Size(n) - 1)) : n \in Names \ Hidden}
  BY <1>1
<1>4. UNION {{n} \X PartFiles(n) : n \in Names} = UNION {{n} \X PartFiles(n) : n \in Names \ Hidden}
  BY <1>2
<1> QED BY <1>3, <1>4 DEF Total, SizeOf

(* The files of a user that are counted stay within the quota, however     *)
(* many there are and whatever is refused, replaced or expires, as long as *)
(* whole uploads come one after the other, none fails half way and none is *)
(* chunked; and all that is stored does, when none was hidden.             *)
THEOREM QuotaIsKept == Spec => []QuotaKept
<1>1. QInv /\ Unhidden => QuotaKept
  BY TotalIsAll DEF QInv, IInv, Unhidden, Calm, QuotaKept
<1>2. Init => Unhidden
  BY NamesAssumption DEF Init, Unhidden
<1> QED BY <1>1, <1>2, QInvInit, QInvStep, UnhiddenStep, PTL DEF Spec

-----------------------------------------------------------------------------
(* Byte ranges.                                                            *)

(* The arithmetic of parseByteRange, for a file of any size. *)
LEMMA RangeExact ==
    ASSUME NEW r \in Ranges, NEW total \in Nat
    PROVE  LET reply == ParseByteRange(r, total)
           IN  (IF reply.status = 416 THEN {} ELSE reply.start..reply.end) = AskedFor(r, total)
<1>1. r.first \in Positions \cup {None} /\ r.last \in Positions \cup {None} /\ Positions \subseteq Nat
  BY MaxAssumption DEF Ranges, Positions
<1>2. CASE r.first = None /\ r.last = None
  BY <1>2 DEF ParseByteRange, AskedFor, Reply
<1>3. CASE ~(r.first = None /\ r.last = None) /\ (total = 0 \/ (r.first = None /\ r.last = 0))
  <2>1. ParseByteRange(r, total) = Reply(416, 0, 0)
    BY <1>3 DEF ParseByteRange
  <2>2. AskedFor(r, total) = {}
    <3>1. total = 0 => 0..(total - 1) = {}
      OBVIOUS
    <3>2. CASE total = 0
      BY <3>1, <3>2 DEF AskedFor
    <3>3. CASE r.first = None /\ r.last = 0
      <4>1. AskedFor(r, total) = {i \in 0..(total - 1) : i >= total}
        BY <3>3, NoneAssumption DEF AskedFor
      <4> QED BY <4>1
    <3> QED BY <1>3, <3>2, <3>3
  <2> QED BY <2>1, <2>2 DEF Reply
<1>4. CASE r.first = None /\ r.last # None /\ r.last # 0 /\ total # 0
  <2> DEFINE start == IF r.last > total THEN 0 ELSE total - r.last
  <2>1. ParseByteRange(r, total) = Reply(206, start, total - 1)
    BY <1>4 DEF ParseByteRange
  <2>2. AskedFor(r, total) = {i \in 0..(total - 1) : i + r.last >= total}
    BY <1>4 DEF AskedFor
  <2>3. r.last \in Nat
    BY <1>1, <1>4
  <2>4. start..(total - 1) = {i \in 0..(total - 1) : i + r.last >= total}
    BY <2>3
  <2> QED BY <2>1, <2>2, <2>4 DEF Reply
<1>5. CASE r.first # None /\ total # 0
  <2> DEFINE end == IF r.last = None \/ r.last >= total THEN total - 1 ELSE r.last
             asked == {i \in 0..(total - 1) : r.first <= i /\ (r.last # None => i <= r.last)}
  <2>1. ParseByteRange(r, total) = IF r.first >= total \/ end < r.first THEN Reply(416, 0, 0)
                                   ELSE Reply(206, r.first, end)
    BY <1>5 DEF ParseByteRange
  <2>2. AskedFor(r, total) = asked
    BY <1>5 DEF AskedFor
  <2>3. r.first \in Nat /\ (r.last # None => r.last \in Nat)
    BY <1>1, <1>5
  <2>4. end \in Int /\ end < total /\ \A i \in 0..(total - 1) : (r.last # None => i <= r.last) <=> i <= end
    BY <1>5, <2>3
  <2>5. asked = {i \in 0..(total - 1) : r.first <= i /\ i <= end}
    BY <2>4
  <2> HIDE DEF end, asked
  <2>6. CASE r.first >= total \/ end < r.first
    <3>1. asked = {}
      BY <2>3, <2>4, <2>5, <2>6
    <3> QED BY <2>1, <2>2, <2>6, <3>1 DEF Reply
  <2>7. CASE ~(r.first >= total \/ end < r.first)
    <3>1. asked = r.first..end
      BY <2>3, <2>4, <2>5, <2>7
    <3> QED BY <2>1, <2>2, <2>7, <3>1 DEF Reply
  <2> QED BY <2>6, <2>7
<1> QED BY <1>2, <1>3, <1>4, <1>5

(* A (first) range asked of a media file of any size is answered with      *)
(* exactly the bytes it names, and refused when it names none.             *)
THEOREM RangesAreHonoured == Spec => []RangeHonoured
<1>1. IInv => RangeHonoured
  <2> SUFFICES ASSUME IInv, NEW n \in Names, NEW r \in Ranges
               PROVE  LET reply == ParseByteRange(r, Size(n))
                      IN  (IF reply.status = 416 THEN {} ELSE reply.start..reply.end)
                            = AskedFor(r, Size(n))
    BY DEF RangeHonoured
  <2>1. Size(n) \in Nat
    BY DEF IInv, Types, Size
  <2> QED BY <2>1, RangeExact
<1> QED BY <1>1, IInvAlways, PTL

-----------------------------------------------------------------------------
(* Thumbnails: FilesService drops them whenever a file changes. Another    *)
(* process state, of requests for thumbnails and changes.                  *)

AskType == [pc : {"idle", "row", "look", "write", "store"}, n : Paths \cup {Absent},
            id : Ids \cup {Absent}, got : Versions \cup {Absent}]
ChangeType == [pc : {"idle", "find", "files", "scan", "del", "save"},
               op : {"none", "upload", "chunked", "save", "new", "delete", "rename"},
               n : Paths \cup {Absent}, to : Paths \cup {Absent}, id : Ids \cup {Absent},
               found : BOOLEAN, raced : BOOLEAN]
ThumbTypes ==
    /\ image \in [Paths -> Versions \cup {Absent}]
    /\ ids \in [Paths -> SUBSET Ids]
    /\ thumb \in [Ids -> Versions \cup {Absent}]
    /\ redis \in [Paths -> Versions \cup {Absent}]
    /\ reader \in [Readers -> AskType]
    /\ writer \in [Writers -> ChangeType]
    /\ version \in 0..MaxVersion /\ lastId \in 0..MaxVersion
    /\ excuse \in [Paths -> Excuses]

(* Rows belong to one name, and nobody has heard of the next one. *)
RowsApart ==
    /\ \A n \in Paths : \A i \in ids[n] : i <= lastId
    /\ \A n, m \in Paths : \A i \in ids[n] : i \in ids[m] => n = m
    /\ \A i \in Ids : i > lastId => thumb[i] = Absent
Asks(m) ==
    /\ m.pc # "idle" => m.n \in Paths
    /\ m.id # Absent => m.id <= lastId
    /\ m.pc \in {"write", "store"} => m.got # Absent
Asking == \A r \in Readers : Asks(reader[r])
AboutFiles(m) ==
    /\ m.pc = "idle" => m = NotWriting
    /\ m.pc # "idle" => m.n \in Paths /\ m.to \in Paths
    /\ m.op # "rename" => m.to = m.n
    /\ m.op = "rename" => m.to # m.n
ChangesNamed == \A w \in Writers : AboutFiles(writer[w])

(* A change that was not raced is alone with its files and their rows. *)
Undisturbed(w, n) ==
    /\ \A v \in Writers : Concerns(v, n) => v = w
    /\ \A r \in Readers : reader[r].n # n /\ reader[r].id \notin ids[n]
Unraced == \A w \in Writers : \A n \in Paths :
    Concerns(w, n) /\ ~writer[w].raced => Undisturbed(w, n)

(* A file without an excuse is changed only by what drops its thumbnails,  *)
(* and has one row.                                                        *)
Regular(m) ==
    /\ ~m.raced
    /\ m.op \in {"upload", "chunked", "delete"}
    /\ m.pc # "find" => Drops(m.op, m.id)
Unexcused == \A w \in Writers : \A n \in Paths :
    Concerns(w, n) /\ excuse[n] = "none" => Regular(writer[w])
SingleRow == \A n \in Paths : excuse[n] = "none" => \A i, j \in ids[n] : i = j

(* How much such a change has dropped. *)
Dropped(m) ==
    /\ m.id = Absent => ids[m.n] = {}
    /\ m.id # Absent => m.id \in ids[m.n]
    /\ m.pc # "files" /\ m.id # Absent => thumb[m.id] = Absent
    /\ m.pc = "save" \/ (m.pc = "del" /\ ~m.found) => redis[m.n] = Absent
Dropping == \A w \in Writers :
    writer[w].pc \notin {"idle", "find"} /\ ~writer[w].raced
       /\ Drops(writer[w].op, writer[w].id) => Dropped(writer[w])

(* With no change under way, the caches and every request on its way to    *)
(* them have what the file has.                                            *)
Quiet(n) == excuse[n] = "none" /\ \A w \in Writers : ~Concerns(w, n)
Shows(n) ==
    /\ redis[n] \in {Absent, image[n]}
    /\ \A i \in ids[n] : thumb[i] \in {Absent, image[n]}
    /\ \A r \in Readers :
          /\ reader[r].n = n => reader[r].got \in {Absent, image[n]} /\ reader[r].id \in ids[n] \cup {Absent}
          /\ reader[r].id \in ids[n] => reader[r].n = n
Settled == \A n \in Paths : Quiet(n) => Shows(n)

(* What a request is about to send and to store is the present contents. *)
AnswersFresh == \A r \in Readers :
    reader[r].pc = "store" /\ Quiet(reader[r].n) => reader[r].got = image[reader[r].n]

ThumbInv ==
    /\ ThumbTypes /\ RowsApart /\ Asking /\ ChangesNamed
    /\ Unraced /\ Unexcused /\ SingleRow /\ Dropping /\ Settled

(* A name with a thumbnail in Redis that no change would find keeps an     *)
(* excuse.                                                                 *)
Strays == unfound \subseteq Paths /\ \A n \in unfound : excuse[n] # "none"

LEMMA NoNames == Absent \notin Paths /\ Absent \notin Nat /\ Absent \notin Ids /\ Absent \notin Versions
BY AbsentAssumption DEF Ids, Versions

LEMMA NotBusy ==
    /\ NotReading \in AskType /\ NotReading.pc = "idle" /\ NotReading.n = Absent
    /\ NotReading.id = Absent /\ NotReading.got = Absent
    /\ NotWriting \in ChangeType /\ NotWriting.pc = "idle" /\ NotWriting.n = Absent
    /\ NotWriting.to = Absent /\ NotWriting.op = "none"
BY DEF NotReading, NotWriting, AskType, ChangeType

(* A request for a thumbnail goes on: it learns of rows and contents of    *)
(* its file, and may store in the caches what it has got.                  *)
LEMMA AskingStep ==
    ASSUME ThumbInv, NEW r \in Readers, NEW m \in AskType,
           reader' = [reader EXCEPT ![r] = m],
           UNCHANGED <<image, ids, writer, version, lastId>>,
           excuse' \in [Paths -> Excuses],
           \A n \in Paths : excuse'[n] = "none" => excuse[n] = "none",
           thumb' \in [Ids -> Versions \cup {Absent}],
           redis' \in [Paths -> Versions \cup {Absent}],
           m.pc # "idle" => m.n \in Paths,
           m.pc \in {"write", "store"} => m.got # Absent,
           m.n \in {reader[r].n, Absent},
           m.n = Absent => m.id = Absent,
           \/ m.id \in {reader[r].id, Absent}
           \/ reader[r].n \in Paths /\ m.id \in ids[reader[r].n],
           m.n # Absent => \/ m.got \in {reader[r].got, Absent, image[m.n]}
                           \/ reader[r].id # Absent /\ m.got = thumb[reader[r].id],
           \A i \in Ids : \/ thumb'[i] \in {thumb[i], Absent}
                          \/ i = reader[r].id /\ thumb'[i] = reader[r].got,
           \A n \in Paths : \/ redis'[n] \in {redis[n], Absent}
                            \/ n = reader[r].n /\ redis'[n] = reader[r].got
    PROVE  ThumbInv'
<1>0. /\ reader \in [Readers -> AskType] /\ writer \in [Writers -> ChangeType]
      /\ ids \in [Paths -> SUBSET Ids] /\ lastId \in Nat
      /\ reader[r] \in AskType
  BY VersionAssumption DEF ThumbInv, ThumbTypes
<1>1. reader'[r] = m /\ \A q \in Readers : q # r => reader'[q] = reader[q]
  BY <1>0
<1>2. ThumbTypes'
  BY <1>0 DEF ThumbInv, ThumbTypes
<1>3. RowsApart'
  <2>1. \A i \in Ids : i > lastId => thumb'[i] = Absent
    <3> SUFFICES ASSUME NEW i \in Ids, i > lastId PROVE thumb'[i] = Absent
      OBVIOUS
    <3>1. thumb[i] = Absent
      BY DEF ThumbInv, RowsApart
    <3>2. reader[r].id # i
      BY <1>0, NoNames, VersionAssumption DEF ThumbInv, Asking, Asks, Ids
    <3> QED BY <3>1, <3>2
  <2> QED BY <2>1 DEF ThumbInv, RowsApart
<1>4. Asking'
  <2>1. m.id # Absent => m.id <= lastId
    BY DEF ThumbInv, Asking, Asks, RowsApart
  <2> QED BY <1>1, <2>1 DEF ThumbInv, Asking, Asks
<1>5. ChangesNamed' /\ Unexcused' /\ SingleRow'
  BY DEF ThumbInv, ChangesNamed, AboutFiles, Unexcused, Regular, SingleRow, Concerns
<1>6. \A n \in Paths : m.n = n => reader[r].n = n
  BY NoNames
<1>7. \A n \in Paths : m.id \in ids[n] => reader[r].id \in ids[n] \/ reader[r].n = n
  BY <1>0, NoNames DEF ThumbInv, RowsApart
<1>8. Unraced'
  <2> SUFFICES ASSUME NEW w \in Writers, NEW n \in Paths, Concerns(w, n), ~writer[w].raced
               PROVE  Undisturbed(w, n)'
    BY DEF Unraced, Concerns
  <2>1. Undisturbed(w, n)
    BY DEF ThumbInv, Unraced
  <2>2. m.n # n /\ m.id \notin ids[n]
    BY <1>6, <1>7, <2>1 DEF Undisturbed
  <2> QED BY <1>1, <2>1, <2>2 DEF Undisturbed, Concerns
<1>9. Dropping'
  <2> SUFFICES ASSUME NEW w \in Writers, writer[w].pc \notin {"idle", "find"}, ~writer[w].raced,
                      Drops(writer[w].op, writer[w].id)
               PROVE  Dropped(writer[w])'
    BY DEF Dropping, Drops
  <2>1. Dropped(writer[w])
    BY DEF ThumbInv, Dropping
  <2>2. writer[w].n \in Paths /\ writer[w] \in ChangeType
    BY <1>0 DEF ThumbInv, ChangesNamed, AboutFiles
  <2>3. Undisturbed(w, writer[w].n)
    BY <2>2 DEF ThumbInv, Unraced, Concerns
  <2>4. redis[writer[w].n] = Absent => redis'[writer[w].n] = Absent
    BY <2>2, <2>3 DEF Undisturbed
  <2>5. writer[w].id # Absent /\ thumb[writer[w].id] = Absent => thumb'[writer[w].id] = Absent
    BY <2>1, <2>2, <2>3 DEF Undisturbed, Dropped, ChangeType
  <2> QED BY <2>1, <2>4, <2>5 DEF Dropped
<1>10. Settled'
  <2> SUFFICES ASSUME NEW n \in Paths, Quiet(n)' PROVE Shows(n)'
    BY DEF Settled
  <2>0. Quiet(n)
    BY DEF Quiet, Concerns
  <2>1. Shows(n)
    BY <2>0 DEF ThumbInv, Settled
  <2>2. redis'[n] \in {Absent, image[n]}
    BY <2>1 DEF Shows
  <2>3. \A i \in ids[n] : thumb'[i] \in {Absent, image[n]}
    <3> SUFFICES ASSUME NEW i \in ids[n] PROVE thumb'[i] \in {Absent, image[n]}
      OBVIOUS
    <3>1. i \in Ids
      BY <1>0
    <3> QED BY <2>1, <3>1 DEF Shows
  <2>4. m.n = n => m.got \in {Absent, image[n]} /\ m.id \in ids[n] \cup {Absent}
    BY <1>6, <2>1, NoNames DEF Shows
  <2>5. m.id \in ids[n] => m.n = n
    <3> SUFFICES ASSUME m.id \in ids[n] PROVE m.n = n
      OBVIOUS
    <3>1. m.n # Absent
      BY <1>0, NoNames
    <3> QED BY <1>7, <2>1, <3>1 DEF Shows
  <2> QED BY <1>1, <2>1, <2>2, <2>3, <2>4, <2>5 DEF Shows
<1> QED BY <1>2, <1>3, <1>4, <1>5, <1>8, <1>9, <1>10 DEF ThumbInv

(* A change goes on: it drops thumbnails, and finds more excuses. *)
LEMMA GoingOnStep ==
    ASSUME ThumbInv, NEW w \in Writers, NEW m \in ChangeType,
           writer' = [writer EXCEPT ![w] = m],
           writer[w].pc # "idle", m.pc \notin {"idle", "find"},
           m.n = writer[w].n, m.to = writer[w].to, m.op = writer[w].op,
           m.raced = writer[w].raced,
           UNCHANGED <<image, ids, reader, version, lastId>>,
           excuse' \in [Paths -> Excuses],
           \A n \in Paths : excuse'[n] = "none" => excuse[n] = "none",
           thumb' \in [Ids -> Versions \cup {Absent}],
           redis' \in [Paths -> Versions \cup {Absent}],
           \A i \in Ids : thumb'[i] \in {thumb[i], Absent},
           \A n \in Paths : redis'[n] \in {redis[n], Absent},
           \A n \in Paths : Concerns(w, n) /\ excuse'[n] = "none" => Drops(m.op, m.id),
           ~m.raced /\ Drops(m.op, m.id) => Dropped(m)'
    PROVE  ThumbInv'
<1>0. /\ reader \in [Readers -> AskType] /\ writer \in [Writers -> ChangeType]
      /\ ids \in [Paths -> SUBSET Ids] /\ lastId \in Nat /\ writer[w] \in ChangeType
  BY VersionAssumption DEF ThumbInv, ThumbTypes
<1>1. writer'[w] = m /\ \A v \in Writers : v # w => writer'[v] = writer[v]
  BY <1>0
<1>2. \A v \in Writers : \A n \in Paths : Concerns(v, n)' <=> Concerns(v, n)
  BY <1>1 DEF Concerns
<1>3. ThumbTypes'
  BY <1>0 DEF ThumbInv, ThumbTypes
<1>4. RowsApart' /\ Asking' /\ SingleRow'
  BY <1>0 DEF ThumbInv, RowsApart, Asking, Asks, SingleRow
<1>5. ChangesNamed'
  BY <1>1 DEF ThumbInv, ChangesNamed, AboutFiles
<1>6. Unraced'
  <2> SUFFICES ASSUME NEW v \in Writers, NEW n \in Paths, Concerns(v, n), ~writer'[v].raced
               PROVE  Undisturbed(v, n)'
    BY <1>2 DEF Unraced
  <2>1. Undisturbed(v, n)
    BY <1>1 DEF ThumbInv, Unraced
  <2> QED BY <1>2, <2>1 DEF Undisturbed
<1>7. Unexcused'
  <2> SUFFICES ASSUME NEW v \in Writers, NEW n \in Paths, Concerns(v, n), excuse'[n] = "none"
               PROVE  Regular(writer'[v])
    BY <1>2 DEF Unexcused
  <2>1. Regular(writer[v])
    BY DEF ThumbInv, Unexcused
  <2> QED BY <1>1, <2>1 DEF Regular
<1>8. Dropping'
  <2> SUFFICES ASSUME NEW v \in Writers, writer'[v].pc \notin {"idle", "find"}, ~writer'[v].raced,
                      Drops(writer'[v].op, writer'[v].id)
               PROVE  Dropped(writer[v])'
    BY DEF Dropping, Drops
  <2>1. CASE v = w
    BY <1>1, <2>1 DEF Dropped
  <2>2. CASE v # w
    <3>1. writer'[v] = writer[v]
      BY <1>1, <2>2
    <3>2. Dropped(writer[v])
      BY <3>1 DEF ThumbInv, Dropping
    <3>3. writer[v].n \in Paths /\ writer[v] \in ChangeType
      BY <1>0, <3>1 DEF ThumbInv, ChangesNamed, AboutFiles
    <3>4. writer[v].id # Absent => writer[v].id \in Ids
      BY <3>3 DEF ChangeType
    <3> QED BY <3>1, <3>2, <3>3, <3>4 DEF Dropped
  <2> QED BY <2>1, <2>2
<1>9. Settled'
  <2> SUFFICES ASSUME NEW n \in Paths, Quiet(n)' PROVE Shows(n)'
    BY DEF Settled
  <2>1. Shows(n)
    BY <1>2 DEF ThumbInv, Settled, Quiet
  <2>2. \A i \in ids[n] : i \in Ids
    BY <1>0
  <2> QED BY <2>1, <2>2 DEF Shows
<1> QED BY <1>3, <1>4, <1>5, <1>6, <1>7, <1>8, <1>9 DEF ThumbInv

(* A change ends. Its files and their rows are nobody else's business, or  *)
(* they keep an excuse.                                                    *)
LEMMA EndingStep ==
    ASSUME ThumbInv, NEW w \in Writers, writer[w].pc # "idle",
           writer' = [writer EXCEPT ![w] = NotWriting],
           UNCHANGED <<image, thumb, redis, reader, version>>,
           ids' \in [Paths -> SUBSET Ids], lastId' \in 0..MaxVersion, lastId <= lastId',
           excuse' \in [Paths -> Excuses],
           \A n \in Paths : ~Concerns(w, n) => ids'[n] = ids[n] /\ excuse'[n] = excuse[n],
           \A n \in Paths : \A i \in ids'[n] : i <= lastId',
           \A n, k \in Paths : \A i \in ids'[n] : i \in ids'[k] => n = k,
           \A n \in Paths : Concerns(w, n) /\ excuse'[n] = "none" =>
               /\ \A v \in Writers : Concerns(v, n) => v = w
               /\ \A i, j \in ids'[n] : i = j
               /\ Shows(n)'
    PROVE  ThumbInv'
<1>0. /\ reader \in [Readers -> AskType] /\ writer \in [Writers -> ChangeType]
      /\ ids \in [Paths -> SUBSET Ids] /\ lastId \in Nat /\ lastId' \in Nat
  BY VersionAssumption DEF ThumbInv, ThumbTypes
<1>1. writer'[w] = NotWriting /\ \A v \in Writers : v # w => writer'[v] = writer[v]
  BY <1>0
<1>2. /\ \A n \in Paths : ~Concerns(w, n)'
      /\ \A v \in Writers : \A n \in Paths : v # w => (Concerns(v, n)' <=> Concerns(v, n))
  BY <1>1, NotBusy, NoNames DEF Concerns
<1>3. ThumbTypes'
  BY <1>0, NotBusy DEF ThumbInv, ThumbTypes
<1>4. RowsApart'
  <2>1. \A i \in Ids : i > lastId' => thumb'[i] = Absent
    BY <1>0, VersionAssumption DEF ThumbInv, RowsApart, Ids
  <2> QED BY <2>1 DEF RowsApart
<1>5. Asking'
  <2> SUFFICES ASSUME NEW r \in Readers PROVE Asks(reader[r])'
    BY DEF Asking
  <2>1. Asks(reader[r]) /\ reader[r] \in AskType
    BY <1>0 DEF ThumbInv, Asking
  <2>2. reader[r].id # Absent => reader[r].id \in Nat
    BY <2>1, VersionAssumption DEF AskType, Ids
  <2> QED BY <1>0, <2>1, <2>2 DEF Asks
<1>6. ChangesNamed'
  BY <1>1, NotBusy DEF ThumbInv, ChangesNamed, AboutFiles
<1>7. SingleRow'
  BY DEF ThumbInv, SingleRow
<1>8. ASSUME NEW v \in Writers, NEW n \in Paths, Concerns(v, n)', ~writer'[v].raced
      PROVE  /\ Undisturbed(v, n)' /\ v # w /\ writer'[v] = writer[v]
             /\ Undisturbed(v, n) /\ ids'[n] = ids[n]
  <2>1. v # w /\ Concerns(v, n) /\ writer'[v] = writer[v]
    BY <1>1, <1>2, <1>8
  <2>2. Undisturbed(v, n)
    BY <1>8, <2>1 DEF ThumbInv, Unraced
  <2>3. ids'[n] = ids[n]
    BY <2>1, <2>2 DEF Undisturbed
  <2> QED BY <1>2, <2>1, <2>2, <2>3 DEF Undisturbed
<1>9. Unraced'
  BY <1>8 DEF Unraced
<1>10. Unexcused'
  <2> SUFFICES ASSUME NEW v \in Writers, NEW n \in Paths, Concerns(v, n)', excuse'[n] = "none"
               PROVE  Regular(writer'[v])
    BY DEF Unexcused
  <2>1. v # w /\ Concerns(v, n) /\ writer'[v] = writer[v]
    BY <1>1, <1>2
  <2>2. excuse[n] = "none"
    BY <2>1
  <2> QED BY <2>1, <2>2 DEF ThumbInv, Unexcused
<1>11. Dropping'
  <2> SUFFICES ASSUME NEW v \in Writers, writer'[v].pc \notin {"idle", "find"}, ~writer'[v].raced,
                      Drops(writer'[v].op, writer'[v].id)
               PROVE  Dropped(writer[v])'
    BY DEF Dropping, Drops
  <2>1. v # w
    BY <1>1, NotBusy
  <2>2. writer'[v] = writer[v]
    BY <1>1, <2>1
  <2>3. Dropped(writer[v]) /\ writer[v].n \in Paths
    BY <2>2 DEF ThumbInv, Dropping, ChangesNamed, AboutFiles
  <2>4. Concerns(v, writer[v].n)'
    BY <2>2 DEF Concerns
  <2>5. PICK n \in Paths : n = writer[v].n
    BY <2>3
  <2>6. ids'[n] = ids[n]
    BY <1>8, <2>2, <2>4, <2>5
  <2> QED BY <2>2, <2>3, <2>5, <2>6 DEF Dropped
<1>12. Settled'
  <2> SUFFICES ASSUME NEW n \in Paths, Quiet(n)' PROVE Shows(n)'
    BY DEF Settled
  <2>1. CASE Concerns(w, n)
    BY <2>1 DEF Quiet
  <2>2. CASE ~Concerns(w, n)
    <3>1. Quiet(n)
      BY <1>2, <2>2 DEF Quiet
    <3>2. Shows(n) /\ ids'[n] = ids[n]
      BY <2>2, <3>1 DEF ThumbInv, Settled
    <3> QED BY <3>2 DEF Shows
  <2> QED BY <2>1, <2>2
<1> QED BY <1>3, <1>4, <1>5, <1>6, <1>7, <1>9, <1>10, <1>11, <1>12 DEF ThumbInv

(* What Start makes of the changes and excuses: when nobody was at the     *)
(* files, they are as before but for the new change; else all who are at   *)
(* them are raced, and excused.                                            *)
Meets(w, ns) == \E x \in ns : Concerns(w, x)
Races(ns) == \/ \E r \in Readers : \E x \in ns : reader[r].n = x \/ reader[r].id \in ids[x]
             \/ \E v \in Writers : Meets(v, ns)

Started(w, n, t, op, why) ==
    /\ writer[w] = NotWriting
    /\ writer' \in [Writers -> ChangeType]
    /\ writer'[w].pc = "find" /\ writer'[w].op = op
    /\ writer'[w].n = n /\ writer'[w].to = t
    /\ ~writer'[w].raced => ~Races({n, t})
    /\ \A v \in Writers : v # w =>
          /\ writer'[v].n = writer[v].n /\ writer'[v].to = writer[v].to
          /\ writer'[v].pc = writer[v].pc /\ writer'[v].op = writer[v].op
          /\ ~Meets(v, {n, t}) => writer'[v] = writer[v]
          /\ ~writer'[v].raced => ~Meets(v, {n, t})
    /\ excuse' \in [Paths -> Excuses]
    /\ \A x \in Paths : x \notin {n, t} => excuse'[x] = excuse[x]
    /\ \A x \in {n, t} : excuse'[x] = "none" =>
          excuse[x] = "none" /\ why = "none" /\ ~Races({n, t})

LEMMA StartFacts ==
    ASSUME ThumbInv, NEW w \in Writers, NEW n \in Paths, NEW t \in Paths,
           NEW op \in {"upload", "chunked", "save", "new", "delete", "rename"},
           NEW why \in {"none", "save", "rename"}, Start(w, op, n, t, why)
    PROVE  Started(w, n, t, op, why)
<1>0. writer \in [Writers -> ChangeType] /\ excuse \in [Paths -> Excuses]
  BY DEF ThumbInv, ThumbTypes
<1> DEFINE races == Races({n, t})
           new == [NotWriting EXCEPT !.pc = "find", !.op = op, !.n = n, !.to = t, !.raced = races]
<1>1. /\ writer[w] = NotWriting
      /\ writer' = [v \in Writers |->
            IF v = w THEN new
            ELSE IF Meets(v, {n, t}) THEN [writer[v] EXCEPT !.raced = TRUE] ELSE writer[v]]
      /\ excuse' = [x \in Paths |->
            LET e == IF why = "none" THEN excuse[x] ELSE Also(excuse[x], why)
            IN  IF x \notin {n, t} THEN excuse[x] ELSE IF races THEN Also(e, "raced") ELSE e]
  BY DEF Start, Meets, Races
<1>2. races \in BOOLEAN
  BY DEF Races
<1>3. /\ new \in ChangeType /\ new.pc = "find" /\ new.op = op /\ new.n = n /\ new.to = t
      /\ ~new.raced => ~races
  <2> HIDE DEF races
  <2> QED BY <1>2, NotBusy DEF ChangeType, NotWriting
<1>4. writer'[w] = new
  BY <1>1
<1>5. ASSUME NEW v \in Writers, v # w
      PROVE  /\ writer'[v] \in ChangeType
             /\ writer'[v].n = writer[v].n /\ writer'[v].to = writer[v].to
             /\ writer'[v].pc = writer[v].pc /\ writer'[v].op = writer[v].op
             /\ ~Meets(v, {n, t}) => writer'[v] = writer[v]
             /\ ~writer'[v].raced => ~Meets(v, {n, t})
  <2>0. writer[v] \in ChangeType
    BY <1>0
  <2>1. CASE Meets(v, {n, t})
    <3>1. writer'[v] = [writer[v] EXCEPT !.raced = TRUE]
      BY <1>1, <1>5, <2>1
    <3>2. writer'[v].raced = TRUE
      BY <2>0, <3>1 DEF ChangeType
    <3>3. writer'[v] \in ChangeType
      BY <2>0, <3>1 DEF ChangeType
    <3> QED BY <2>0, <2>1, <3>1, <3>2, <3>3 DEF ChangeType
  <2>2. CASE ~Meets(v, {n, t})
    <3>1. writer'[v] = writer[v]
      BY <1>1, <1>5, <2>2
    <3> QED BY <2>0, <2>2, <3>1
  <2> QED BY <2>1, <2>2
<1>6. ASSUME NEW x \in Paths
      PROVE  /\ excuse'[x] \in Excuses
             /\ x \notin {n, t} => excuse'[x] = excuse[x]
             /\ x \in {n, t} /\ excuse'[x] = "none" =>
                   excuse[x] = "none" /\ why = "none" /\ ~races
  <2> HIDE DEF races
  <2>1. excuse[x] \in Excuses
    BY <1>0
  <2>2. excuse'[x] = LET e == IF why = "none" THEN excuse[x] ELSE Also(excuse[x], why)
                     IN  IF x \notin {n, t} THEN excuse[x] ELSE IF races THEN Also(e, "raced") ELSE e
    BY <1>1
  <2> QED BY <2>1, <2>2 DEF Also, Excuses
<1>7. writer' \in [Writers -> ChangeType]
  BY <1>1, <1>3, <1>4, <1>5
<1>8. excuse' \in [Paths -> Excuses]
  BY <1>1, <1>6
<1> HIDE DEF new
<1> QED BY <1>1, <1>3, <1>4, <1>5, <1>6, <1>7, <1>8 DEF Started

LEMMA StartingStep ==
    ASSUME ThumbInv, NEW w \in Writers, NEW n \in Paths, NEW t \in Paths,
           NEW op \in {"upload", "chunked", "save", "new", "delete", "rename"},
           NEW why \in {"none", "save", "rename"}, Start(w, op, n, t, why),
           op # "rename" => t = n, op = "rename" => t # n,
           why = "none" => op \in {"upload", "chunked", "delete"},
           image' \in [Paths -> Versions \cup {Absent}], version' \in 0..MaxVersion,
           \A x \in Paths : x \notin {n, t} => image'[x] = image[x]
    PROVE  ThumbInv'
<1> Started(w, n, t, op, why)
  BY StartFacts
<1>0. UNCHANGED <<ids, thumb, redis, reader, lastId>>
  BY DEF Start, caches
<1>1. /\ writer[w] = NotWriting
      /\ writer' \in [Writers -> ChangeType]
      /\ writer'[w].pc = "find" /\ writer'[w].op = op
      /\ writer'[w].n = n /\ writer'[w].to = t
      /\ ~writer'[w].raced => ~Races({n, t})
  BY DEF Started
<1>2. \A v \in Writers : v # w =>
         /\ writer'[v].n = writer[v].n /\ writer'[v].to = writer[v].to
         /\ writer'[v].pc = writer[v].pc /\ writer'[v].op = writer[v].op
         /\ ~Meets(v, {n, t}) => writer'[v] = writer[v]
         /\ ~writer'[v].raced => ~Meets(v, {n, t})
  BY DEF Started
<1>3. /\ excuse' \in [Paths -> Excuses]
      /\ \A x \in Paths : x \notin {n, t} => excuse'[x] = excuse[x]
      /\ \A x \in {n, t} : excuse'[x] = "none" =>
            excuse[x] = "none" /\ why = "none" /\ ~Races({n, t})
  BY DEF Started
<1>4. /\ \A x \in Paths : ~Concerns(w, x) /\ (Concerns(w, x)' <=> x \in {n, t})
      /\ \A v \in Writers : \A x \in Paths : v # w => (Concerns(v, x)' <=> Concerns(v, x))
  BY <1>1, <1>2, NotBusy, NoNames DEF Concerns
<1>5. ThumbTypes'
  BY <1>0, <1>1, <1>3 DEF ThumbInv, ThumbTypes
<1>6. RowsApart' /\ Asking'
  BY <1>0 DEF ThumbInv, RowsApart, Asking, Asks
<1>7. ChangesNamed'
  <2> SUFFICES ASSUME NEW v \in Writers PROVE AboutFiles(writer'[v])
    BY DEF ChangesNamed
  <2>1. CASE v = w
    BY <1>1, <2>1 DEF AboutFiles
  <2>2. CASE v # w
    <3>1. AboutFiles(writer[v])
      BY DEF ThumbInv, ChangesNamed
    <3>2. writer[v].pc = "idle" => ~Meets(v, {n, t})
      BY <3>1, NotBusy, NoNames DEF AboutFiles, Meets, Concerns
    <3> QED BY <1>2, <2>2, <3>1, <3>2 DEF AboutFiles
  <2> QED BY <2>1, <2>2
<1>8. SingleRow'
  BY <1>0, <1>3 DEF ThumbInv, SingleRow
<1>9. Unraced'
  <2> SUFFICES ASSUME NEW v \in Writers, NEW x \in Paths, Concerns(v, x)', ~writer'[v].raced
               PROVE  Undisturbed(v, x)'
    BY DEF Unraced
  <2>1. CASE v = w
    <3>1. x \in {n, t} /\ ~Races({n, t})
      BY <1>1, <1>4, <2>1
    <3>2. /\ \A u \in Writers : ~Concerns(u, x)
          /\ \A r \in Readers : reader[r].n # x /\ reader[r].id \notin ids[x]
      BY <3>1 DEF Races, Meets
    <3> QED BY <1>0, <1>4, <2>1, <3>2 DEF Undisturbed
  <2>2. CASE v # w
    <3>1. ~Meets(v, {n, t}) /\ Concerns(v, x) /\ writer'[v] = writer[v]
      BY <1>2, <1>4, <2>2
    <3>2. x \notin {n, t}
      BY <3>1 DEF Meets
    <3>3. Undisturbed(v, x)
      BY <3>1 DEF ThumbInv, Unraced
    <3> QED BY <1>0, <1>4, <3>2, <3>3 DEF Undisturbed
  <2> QED BY <2>1, <2>2
<1>10. Unexcused'
  <2> SUFFICES ASSUME NEW v \in Writers, NEW x \in Paths, Concerns(v, x)', excuse'[x] = "none"
               PROVE  Regular(writer'[v])
    BY DEF Unexcused
  <2>0. excuse[x] = "none"
    BY <1>3
  <2>1. CASE v = w
    <3>1. why = "none" /\ ~Races({n, t})
      BY <1>3, <1>4, <2>1
    <3>2. ~writer'[w].raced
      <4>1. Start(w, op, n, t, why)
        OBVIOUS
      <4>2. Races({n, t}) = FALSE
        BY <3>1 DEF Races
      <4> QED BY <3>1, <4>1, <4>2, <1>1 DEF Start, NotWriting, Races, Meets
    <3> QED BY <1>1, <2>1, <3>1, <3>2 DEF Regular
  <2>2. CASE v # w
    <3>1. Concerns(v, x)
      BY <1>4, <2>2
    <3>2. Regular(writer[v])
      BY <2>0, <3>1 DEF ThumbInv, Unexcused
    <3>3. writer[v].n = x /\ writer[v].to = x
      <4>1. writer[v].to = writer[v].n
        BY <3>2 DEF Regular, ThumbInv, ChangesNamed, AboutFiles
      <4> QED BY <3>1, <4>1 DEF Concerns
    <3>4. x \notin {n, t}
      <4>1. SUFFICES ASSUME x \in {n, t} PROVE FALSE
        OBVIOUS
      <4>2. Races({n, t})
        BY <3>1, <4>1 DEF Races, Meets
      <4> QED BY <1>3, <4>1, <4>2
    <3>5. ~Meets(v, {n, t})
      BY <3>3, <3>4 DEF Meets, Concerns
    <3> QED BY <1>2, <2>2, <3>2, <3>5
  <2> QED BY <2>1, <2>2
<1>11. Dropping'
  <2> SUFFICES ASSUME NEW v \in Writers, writer'[v].pc \notin {"idle", "find"}, ~writer'[v].raced,
                      Drops(writer'[v].op, writer'[v].id)
               PROVE  Dropped(writer[v])'
    BY DEF Dropping, Drops
  <2>1. v # w
    BY <1>1
  <2>2. writer'[v] = writer[v]
    BY <1>2, <2>1
  <2>3. Dropped(writer[v])
    BY <2>2 DEF ThumbInv, Dropping
  <2> QED BY <1>0, <2>2, <2>3 DEF Dropped
<1>12. Settled'
  <2> SUFFICES ASSUME NEW x \in Paths, Quiet(x)' PROVE Shows(x)'
    BY DEF Settled
  <2>1. x \notin {n, t}
    BY <1>4 DEF Quiet
  <2>2. Quiet(x)
    BY <1>3, <1>4, <2>1 DEF Quiet
  <2>3. Shows(x) /\ image'[x] = image[x]
    BY <2>1, <2>2 DEF ThumbInv, Settled
  <2> QED BY <1>0, <2>3 DEF Shows
<1> QED BY <1>5, <1>6, <1>7, <1>8, <1>9, <1>10, <1>11, <1>12 DEF ThumbInv

(* Somebody comes to a file, as a request for its thumbnail or with a row  *)
(* for it: changes of it are raced, and excused.                           *)
LEMMA JoinFacts ==
    ASSUME ThumbInv, NEW n \in Paths, NEW harmless \in BOOLEAN, Joins(n, harmless)
    PROVE  /\ writer' \in [Writers -> ChangeType]
           /\ \A v \in Writers :
                /\ writer'[v].n = writer[v].n /\ writer'[v].to = writer[v].to
                /\ writer'[v].pc = writer[v].pc /\ writer'[v].op = writer[v].op
                /\ ~Concerns(v, n) => writer'[v] = writer[v]
                /\ ~writer'[v].raced => ~Concerns(v, n)
           /\ excuse' \in [Paths -> Excuses]
           /\ \A x \in Paths : excuse'[x] = "none" => excuse[x] = "none"
           /\ excuse'[n] = "none" => harmless /\ \A v \in Writers : ~Concerns(v, n)
<1>0. writer \in [Writers -> ChangeType] /\ excuse \in [Paths -> Excuses]
  BY DEF ThumbInv, ThumbTypes
<1>1. writer' = [w \in Writers |-> IF Concerns(w, n) THEN [writer[w] EXCEPT !.raced = TRUE]
                                   ELSE writer[w]]
  BY DEF Joins
<1>2. ASSUME NEW v \in Writers
      PROVE  /\ writer'[v] \in ChangeType
             /\ writer'[v].n = writer[v].n /\ writer'[v].to = writer[v].to
             /\ writer'[v].pc = writer[v].pc /\ writer'[v].op = writer[v].op
             /\ ~Concerns(v, n) => writer'[v] = writer[v]
             /\ ~writer'[v].raced => ~Concerns(v, n)
  <2>0. writer[v] \in ChangeType
    BY <1>0
  <2>1. CASE Concerns(v, n)
    <3>1. writer'[v] = [writer[v] EXCEPT !.raced = TRUE]
      BY <1>1, <2>1
    <3>2. writer'[v].raced = TRUE /\ writer'[v] \in ChangeType
      BY <2>0, <3>1 DEF ChangeType
    <3> QED BY <2>0, <2>1, <3>1, <3>2 DEF ChangeType
  <2>2. CASE ~Concerns(v, n)
    BY <1>1, <2>0, <2>2
  <2> QED BY <2>1, <2>2
<1>3. /\ excuse' \in [Paths -> Excuses]
      /\ \A x \in Paths : excuse'[x] = "none" => excuse[x] = "none"
      /\ excuse'[n] = "none" => harmless /\ \A v \in Writers : ~Concerns(v, n)
  <2>1. CASE harmless /\ ~(\E w \in Writers : Concerns(w, n))
    <3>1. excuse' = excuse
      BY <2>1 DEF Joins
    <3> QED BY <1>0, <2>1, <3>1
  <2>2. CASE ~(harmless /\ ~(\E w \in Writers : Concerns(w, n)))
    <3>1. excuse' = [excuse EXCEPT ![n] = Also(@, "raced")]
      BY <2>2 DEF Joins, Excused
    <3> QED BY <1>0, <3>1 DEF Also, Excuses
  <2> QED BY <2>1, <2>2
<1>4. writer' \in [Writers -> ChangeType]
  BY <1>1, <1>2
<1> QED BY <1>2, <1>3, <1>4

LEMMA JoiningStep ==
    ASSUME ThumbInv, NEW n \in Paths, NEW harmless \in BOOLEAN, Joins(n, harmless),
           UNCHANGED <<image, thumb, redis, version>>,
           reader' \in [Readers -> AskType],
           \A q \in Readers : \/ reader'[q] = reader[q]
                              \/ /\ reader'[q].pc = "row" /\ reader'[q].n = n
                                 /\ reader'[q].id = Absent /\ reader'[q].got = Absent,
           ids' \in [Paths -> SUBSET Ids], lastId' \in 0..MaxVersion,
           \A x \in Paths : x # n => ids'[x] = ids[x],
           \/ ids' = ids /\ lastId' = lastId
           \/ /\ lastId' = lastId + 1 /\ ids'[n] = ids[n] \cup {lastId'}
              /\ reader' = reader /\ (harmless => ids[n] = {})
    PROVE  ThumbInv'
<1>0. /\ reader \in [Readers -> AskType] /\ writer \in [Writers -> ChangeType]
      /\ ids \in [Paths -> SUBSET Ids] /\ lastId \in Nat /\ lastId' \in Nat /\ lastId <= lastId'
  BY VersionAssumption DEF ThumbInv, ThumbTypes
<1>1. \A v \in Writers :
         /\ writer'[v].n = writer[v].n /\ writer'[v].to = writer[v].to
         /\ writer'[v].pc = writer[v].pc /\ writer'[v].op = writer[v].op
         /\ ~Concerns(v, n) => writer'[v] = writer[v]
         /\ ~writer'[v].raced => ~Concerns(v, n)
  BY JoinFacts
<1>2. /\ \A x \in Paths : excuse'[x] = "none" => excuse[x] = "none"
      /\ excuse'[n] = "none" => harmless /\ \A v \in Writers : ~Concerns(v, n)
  BY JoinFacts
<1>3. \A v \in Writers : \A x \in Paths : Concerns(v, x)' <=> Concerns(v, x)
  BY <1>1 DEF Concerns
<1>4. \A x \in Paths : Absent \notin ids[x] /\ Absent \notin ids'[x]
  BY <1>0, NoNames
<1>5. \A r \in Readers : reader[r].id # Absent => reader[r].id <= lastId /\ reader[r].id \in Nat
  BY <1>0 DEF ThumbInv, Asking, Asks, AskType, Ids
<1>6. ThumbTypes'
  BY JoinFacts DEF ThumbInv, ThumbTypes
<1>7. RowsApart'
  <2>1. CASE ids' = ids /\ lastId' = lastId
    BY <2>1 DEF ThumbInv, RowsApart
  <2>2. CASE lastId' = lastId + 1 /\ ids'[n] = ids[n] \cup {lastId'}
    <3>1. \A x \in Paths : \A i \in ids[x] : i \in Nat /\ i <= lastId
      BY <1>0 DEF ThumbInv, RowsApart, Ids
    <3>2. \A x \in Paths : \A i \in ids'[x] : i \in ids[x] \/ (i = lastId' /\ x = n)
      BY <2>2
    <3>3. \A x \in Paths : lastId' \notin ids[x]
      BY <1>0, <2>2, <3>1
    <3>4. \A x \in Paths : \A i \in ids'[x] : i <= lastId'
      BY <1>0, <2>2, <3>1, <3>2
    <3>5. \A x, y \in Paths : \A i \in ids'[x] : i \in ids'[y] => x = y
      BY <3>2, <3>3 DEF ThumbInv, RowsApart
    <3>6. \A i \in Ids : i > lastId' => thumb'[i] = Absent
      BY <1>0, <2>2 DEF ThumbInv, RowsApart, Ids
    <3> QED BY <3>4, <3>5, <3>6 DEF RowsApart
  <2> QED BY <2>1, <2>2
<1>8. SingleRow'
  <2> SUFFICES ASSUME NEW x \in Paths, excuse'[x] = "none" PROVE \A i, j \in ids'[x] : i = j
    BY DEF SingleRow
  <2>1. \A i, j \in ids[x] : i = j
    BY <1>2 DEF ThumbInv, SingleRow
  <2> QED BY <1>2, <2>1
<1>9. Asking'
  <2> SUFFICES ASSUME NEW r \in Readers PROVE Asks(reader[r])'
    BY DEF Asking
  <2>1. Asks(reader[r])
    BY DEF ThumbInv, Asking
  <2>2. CASE reader'[r] = reader[r]
    <3>1. reader[r].id # Absent => reader[r].id <= lastId'
      BY <1>0, <1>5
    <3> QED BY <2>1, <2>2, <3>1 DEF Asks
  <2>3. CASE reader'[r].pc = "row" /\ reader'[r].n = n /\ reader'[r].id = Absent
    BY <2>3 DEF Asks
  <2> QED BY <2>2, <2>3
<1>10. ChangesNamed'
  <2> SUFFICES ASSUME NEW v \in Writers PROVE AboutFiles(writer'[v])
    BY DEF ChangesNamed
  <2>1. AboutFiles(writer[v])
    BY DEF ThumbInv, ChangesNamed
  <2>2. writer[v].pc = "idle" => ~Concerns(v, n)
    BY <2>1, NotBusy, NoNames DEF AboutFiles, Concerns
  <2> QED BY <1>1, <2>1, <2>2 DEF AboutFiles
<1>11. Unraced'
  <2> SUFFICES ASSUME NEW v \in Writers, NEW x \in Paths, Concerns(v, x)', ~writer'[v].raced
               PROVE  Undisturbed(v, x)'
    BY DEF Unraced
  <2>1. Concerns(v, x) /\ x # n /\ writer'[v] = writer[v]
    BY <1>1, <1>3
  <2>2. Undisturbed(v, x)
    BY <2>1 DEF ThumbInv, Unraced
  <2> QED BY <1>3, <1>4, <2>1, <2>2 DEF Undisturbed
<1>12. Unexcused'
  <2> SUFFICES ASSUME NEW v \in Writers, NEW x \in Paths, Concerns(v, x)', excuse'[x] = "none"
               PROVE  Regular(writer'[v])
    BY DEF Unexcused
  <2>1. Concerns(v, x) /\ excuse[x] = "none" /\ x # n
    BY <1>2, <1>3
  <2>2. Regular(writer[v])
    BY <2>1 DEF ThumbInv, Unexcused
  <2>3. writer[v].to = writer[v].n
    BY <2>2 DEF Regular, ThumbInv, ChangesNamed, AboutFiles
  <2>4. ~Concerns(v, n)
    BY <2>1, <2>3 DEF Concerns
  <2> QED BY <1>1, <2>2, <2>4
<1>13. Dropping'
  <2> SUFFICES ASSUME NEW v \in Writers, writer'[v].pc \notin {"idle", "find"}, ~writer'[v].raced,
                      Drops(writer'[v].op, writer'[v].id)
               PROVE  Dropped(writer[v])'
    BY DEF Dropping, Drops
  <2>1. writer'[v] = writer[v] /\ ~Concerns(v, n)
    BY <1>1
  <2>2. Dropped(writer[v]) /\ writer[v].n \in Paths
    BY <2>1 DEF ThumbInv, Dropping, ChangesNamed, AboutFiles
  <2>3. writer[v].n # n
    BY <2>1 DEF Concerns
  <2> QED BY <2>1, <2>2, <2>3 DEF Dropped
<1>14. Settled'
  <2> SUFFICES ASSUME NEW x \in Paths, Quiet(x)' PROVE Shows(x)'
    BY DEF Settled
  <2>1. Quiet(x)
    BY <1>2, <1>3 DEF Quiet
  <2>2. Shows(x)
    BY <2>1 DEF ThumbInv, Settled
  <2>3. CASE ids'[x] = ids[x]
    BY <1>4, <2>2, <2>3 DEF Shows
  <2>4. CASE x = n /\ lastId' = lastId + 1 /\ ids'[n] = {lastId'} /\ ids[n] = {} /\ reader' = reader
    <3>1. thumb'[lastId'] = Absent
      BY <1>0, <2>4 DEF ThumbInv, RowsApart, Ids
    <3>2. \A r \in Readers : reader[r].id # lastId'
      BY <1>0, <1>5, <2>4, NoNames
    <3> QED BY <2>2, <2>4, <3>1, <3>2 DEF Shows
  <2>5. excuse'[x] = "none"
    BY DEF Quiet
  <2> QED BY <1>2, <2>3, <2>4, <2>5
<1> QED BY <1>6, <1>7, <1>8, <1>9, <1>10, <1>11, <1>12, <1>13, <1>14 DEF ThumbInv

LEMMA InterceptStep ==
    ASSUME ThumbInv, NEW r \in Readers, NEW n \in Paths, Intercept(r, n)
    PROVE  ThumbInv'
<1>0. /\ reader \in [Readers -> AskType] /\ ids \in [Paths -> SUBSET Ids] /\ lastId \in 0..MaxVersion
  BY DEF ThumbInv, ThumbTypes
<1>1. PICK new : new = [NotReading EXCEPT !.pc = "row", !.n = n]
  OBVIOUS
<1>2. new \in AskType /\ new.pc = "row" /\ new.n = n /\ new.id = Absent /\ new.got = Absent
  BY <1>1 DEF NotReading, AskType
<1>3. /\ reader' = [reader EXCEPT ![r] = new] /\ Joins(n, TRUE)
      /\ UNCHANGED <<image, ids, thumb, redis, version, lastId>>
  BY <1>1 DEF Intercept, Reads, caches
<1>4. /\ reader' \in [Readers -> AskType]
      /\ \A q \in Readers : reader'[q] = reader[q] \/ reader'[q] = new
  BY <1>0, <1>2, <1>3
<1> QED BY <1>0, <1>2, <1>3, <1>4, JoiningStep

LEMMA UpdateStatsStep ==
    ASSUME ThumbInv, NEW n \in Paths, UpdateStats(n) PROVE ThumbInv'
<1>0. /\ reader \in [Readers -> AskType] /\ ids \in [Paths -> SUBSET Ids] /\ lastId \in 0..MaxVersion
  BY DEF ThumbInv, ThumbTypes
<1>1. PICK harmless \in BOOLEAN : harmless = (ids[n] = {})
  OBVIOUS
<1>2. /\ lastId < MaxVersion /\ lastId' = lastId + 1
      /\ ids' = [ids EXCEPT ![n] = @ \cup {lastId'}] /\ Joins(n, harmless)
      /\ UNCHANGED <<image, thumb, redis, reader, version>>
  BY <1>1 DEF UpdateStats, caches
<1>3. lastId' \in 0..MaxVersion /\ lastId' \in Ids
  BY <1>0, <1>2, VersionAssumption DEF Ids
<1>4. ids' \in [Paths -> SUBSET Ids] /\ ids'[n] = ids[n] \cup {lastId'}
      /\ \A x \in Paths : x # n => ids'[x] = ids[x]
  BY <1>0, <1>2, <1>3
<1> QED BY <1>0, <1>1, <1>2, <1>3, <1>4, JoiningStep

(* The steps of a request after the interceptor's. *)
LEMMA RequestStep ==
    ASSUME ThumbInv, NEW r \in Readers,
           \/ FindUploaded(r) \/ FoundOnDisk(r) \/ Resize(r) \/ WriteThumbnail(r)
           \/ CacheThumbnail(r) \/ ReadEnds(r)
    PROVE  ThumbInv'
<1>0. /\ reader \in [Readers -> AskType] /\ reader[r] \in AskType /\ ids \in [Paths -> SUBSET Ids]
      /\ thumb \in [Ids -> Versions \cup {Absent}] /\ redis \in [Paths -> Versions \cup {Absent}]
      /\ image \in [Paths -> Versions \cup {Absent}]
      /\ reader[r].pc # "idle" => reader[r].n \in Paths
      /\ reader[r].pc \in {"write", "store"} => reader[r].got # Absent
  BY DEF ThumbInv, ThumbTypes, Asking, Asks
<1>e. excuse \in [Paths -> Excuses]
  BY DEF ThumbInv, ThumbTypes
<1>1. CASE FindUploaded(r)
  <2>0. /\ reader[r].pc = "row" /\ reader[r].n \in Paths
        /\ UNCHANGED <<image, ids, thumb, redis, writer, version, lastId, excuse>>
    BY <1>0, <1>1 DEF FindUploaded, caches
  <2>1. ASSUME NEW i \in Found(reader[r].n),
               Reads(r, [reader[r] EXCEPT !.pc = "look", !.id = i])
        PROVE  ThumbInv'
    <3>1. PICK m : m = [reader[r] EXCEPT !.pc = "look", !.id = i]
      OBVIOUS
    <3>2. i = Absent \/ i \in ids[reader[r].n]
      BY <2>1 DEF Found
    <3>3. i \in Ids \cup {Absent}
      BY <1>0, <2>0, <3>2
    <3>4. m \in AskType /\ m.n = reader[r].n /\ m.id = i /\ m.got = reader[r].got /\ m.pc = "look"
      BY <1>0, <3>1, <3>3 DEF AskType
    <3>5. reader' = [reader EXCEPT ![r] = m]
      BY <2>1, <3>1 DEF Reads
    <3> QED BY <1>0, <1>e, <2>0, <3>2, <3>4, <3>5, NoNames, AskingStep
  <2>2. ASSUME Reads(r, [reader[r] EXCEPT !.pc = "store", !.got = image[reader[r].n]]),
               image[reader[r].n] # Absent
        PROVE  ThumbInv'
    <3>1. PICK m : m = [reader[r] EXCEPT !.pc = "store", !.got = image[reader[r].n]]
      OBVIOUS
    <3>2. /\ m \in AskType /\ m.n = reader[r].n /\ m.id = reader[r].id /\ m.pc = "store"
          /\ m.got = image[m.n] /\ m.got # Absent
      BY <1>0, <2>0, <2>2, <3>1 DEF AskType
    <3>3. reader' = [reader EXCEPT ![r] = m]
      BY <2>2, <3>1 DEF Reads
    <3> QED BY <1>0, <1>e, <2>0, <3>2, <3>3, NoNames, AskingStep
  <2> QED BY <1>1, <2>1, <2>2 DEF FindUploaded
<1>2. CASE FoundOnDisk(r)
  <2>0. /\ reader[r].pc = "look" /\ reader[r].n \in Paths /\ reader[r].id # Absent
        /\ thumb[reader[r].id] # Absent
        /\ reader' = [reader EXCEPT ![r] = [reader[r] EXCEPT !.pc = "store", !.id = Absent,
                                                             !.got = thumb[reader[r].id]]]
        /\ UNCHANGED <<image, ids, thumb, redis, writer, version, lastId, excuse>>
    BY <1>0, <1>2 DEF FoundOnDisk, caches, Reads
  <2>1. PICK m : m = [reader[r] EXCEPT !.pc = "store", !.id = Absent, !.got = thumb[reader[r].id]]
    OBVIOUS
  <2>2. reader[r].id \in Ids
    BY <1>0, <2>0 DEF AskType
  <2>3. /\ m \in AskType /\ m.n = reader[r].n /\ m.id = Absent /\ m.pc = "store"
        /\ m.got = thumb[reader[r].id] /\ m.got # Absent
    BY <1>0, <2>0, <2>1, <2>2 DEF AskType
  <2>4. reader' = [reader EXCEPT ![r] = m]
    BY <2>0, <2>1
  <2> QED BY <1>0, <1>e, <2>0, <2>3, <2>4, NoNames, AskingStep
<1>3. CASE Resize(r)
  <2>0. /\ reader[r].pc = "look" /\ reader[r].n \in Paths /\ image[reader[r].n] # Absent
        /\ reader' = [reader EXCEPT ![r] =
              [reader[r] EXCEPT !.pc = IF reader[r].id = Absent THEN "store" ELSE "write",
                                !.got = image[reader[r].n]]]
        /\ UNCHANGED <<image, ids, thumb, redis, writer, version, lastId, excuse>>
    BY <1>0, <1>3 DEF Resize, caches, Reads
  <2>1. PICK m : m = [reader[r] EXCEPT !.pc = IF reader[r].id = Absent THEN "store" ELSE "write",
                                       !.got = image[reader[r].n]]
    OBVIOUS
  <2>2. /\ m \in AskType /\ m.n = reader[r].n /\ m.id = reader[r].id
        /\ m.got = image[m.n] /\ m.got # Absent
    BY <1>0, <2>0, <2>1 DEF AskType
  <2>3. reader' = [reader EXCEPT ![r] = m]
    BY <2>0, <2>1
  <2> QED BY <1>0, <1>e, <2>0, <2>2, <2>3, NoNames, AskingStep
<1>4. CASE WriteThumbnail(r)
  <2>0. /\ reader[r].pc = "write" /\ reader[r].n \in Paths
        /\ thumb' = [thumb EXCEPT ![reader[r].id] = reader[r].got] \/ thumb' = thumb
        /\ reader' = [reader EXCEPT ![r] = [reader[r] EXCEPT !.pc = "store", !.id = Absent]]
        /\ UNCHANGED <<image, ids, redis, writer, version, lastId, excuse>>
    BY <1>0, <1>4 DEF WriteThumbnail, Reads
  <2>1. PICK m : m = [reader[r] EXCEPT !.pc = "store", !.id = Absent]
    OBVIOUS
  <2>2. /\ m \in AskType /\ m.n = reader[r].n /\ m.id = Absent /\ m.got = reader[r].got
    BY <1>0, <2>1 DEF AskType
  <2>3. reader' = [reader EXCEPT ![r] = m]
    BY <2>0, <2>1
  <2>4. reader[r].got \in Versions \cup {Absent}
    BY <1>0 DEF AskType
  <2>5. /\ thumb' \in [Ids -> Versions \cup {Absent}]
        /\ \A i \in Ids : \/ thumb'[i] \in {thumb[i], Absent}
                          \/ i = reader[r].id /\ thumb'[i] = reader[r].got
    BY <1>0, <2>0, <2>4
  <2> QED BY <1>0, <1>e, <2>0, <2>2, <2>3, <2>5, NoNames, AskingStep
<1>5. CASE CacheThumbnail(r)
  <2>0. /\ reader[r].n \in Paths
        /\ redis' = [redis EXCEPT ![reader[r].n] = reader[r].got] \/ redis' = redis
        /\ reader' = [reader EXCEPT ![r] = NotReading]
        /\ excuse' = excuse \/ excuse' = [excuse EXCEPT ![reader[r].n] = Also(@, "spelled")]
        /\ UNCHANGED <<image, ids, thumb, writer, version, lastId>>
    BY <1>0, <1>5 DEF CacheThumbnail, Reads, Excused
  <2>1. reader[r].got \in Versions \cup {Absent}
    BY <1>0 DEF AskType
  <2>2. /\ redis' \in [Paths -> Versions \cup {Absent}]
        /\ \A n \in Paths : \/ redis'[n] \in {redis[n], Absent}
                            \/ n = reader[r].n /\ redis'[n] = reader[r].got
    BY <1>0, <2>0, <2>1
  <2>3. /\ excuse' \in [Paths -> Excuses]
        /\ \A n \in Paths : excuse'[n] = "none" => excuse[n] = "none"
    <3>1. excuse \in [Paths -> Excuses]
      BY DEF ThumbInv, ThumbTypes
    <3> QED BY <2>0, <3>1 DEF Also, Excuses
  <2> QED BY <1>0, <1>e, <2>0, <2>2, <2>3, NotBusy, AskingStep
<1>6. CASE ReadEnds(r)
  <2>0. /\ reader' = [reader EXCEPT ![r] = NotReading]
        /\ UNCHANGED <<image, ids, thumb, redis, writer, version, lastId, excuse>>
    BY <1>6 DEF ReadEnds, Reads, caches
  <2> QED BY <1>0, <1>e, <2>0, NotBusy, AskingStep
<1> QED BY <1>1, <1>2, <1>3, <1>4, <1>5, <1>6

(* A cached thumbnail expires; nothing happens. *)
LEMMA ExpiringStep ==
    ASSUME ThumbInv, UNCHANGED <<image, ids, thumb, reader, writer, version, lastId, excuse>>,
           redis' \in [Paths -> Versions \cup {Absent}],
           \A n \in Paths : redis'[n] \in {redis[n], Absent}
    PROVE  ThumbInv'
<1>1. ThumbTypes' /\ RowsApart' /\ Asking' /\ ChangesNamed' /\ SingleRow'
  BY DEF ThumbInv, ThumbTypes, RowsApart, Asking, Asks, ChangesNamed, AboutFiles, SingleRow
<1>2. Unraced' /\ Unexcused'
  BY DEF ThumbInv, Unraced, Undisturbed, Unexcused, Regular, Concerns
<1>3. Dropping'
  <2> SUFFICES ASSUME NEW v \in Writers, writer[v].pc \notin {"idle", "find"}, ~writer[v].raced,
                      Drops(writer[v].op, writer[v].id)
               PROVE  Dropped(writer[v])'
    BY DEF Dropping, Drops
  <2>1. Dropped(writer[v]) /\ writer[v].n \in Paths
    BY DEF ThumbInv, Dropping, ChangesNamed, AboutFiles
  <2> QED BY <2>1 DEF Dropped
<1>4. Settled'
  <2> SUFFICES ASSUME NEW n \in Paths, Quiet(n) PROVE Shows(n)'
    BY DEF Settled, Quiet, Concerns
  <2>1. Shows(n)
    BY DEF ThumbInv, Settled
  <2> QED BY <2>1 DEF Shows
<1> QED BY <1>1, <1>2, <1>3, <1>4 DEF ThumbInv

(* Uploads, save, new, delete and rename begin. *)
LEMMA StoreStep ==
    ASSUME ThumbInv, NEW w \in Writers,
           \/ \E n \in Paths, op \in {"upload", "chunked", "save", "new"} : Store(w, op, n)
           \/ \E n \in Paths : Delete(w, n)
           \/ \E n, m \in Paths : Rename(w, n, m)
    PROVE  ThumbInv'
<1>0. image \in [Paths -> Versions \cup {Absent}] /\ version \in 0..MaxVersion
  BY DEF ThumbInv, ThumbTypes
<1>1. ASSUME NEW n \in Paths, NEW op \in {"upload", "chunked", "save", "new"}, Store(w, op, n)
      PROVE  ThumbInv'
  <2>1. /\ version < MaxVersion /\ version' = version + 1
        /\ image' = [image EXCEPT ![n] = version + 1]
    BY <1>1 DEF Store, NewVersion
  <2>2. version' \in 0..MaxVersion /\ version + 1 \in Versions
    BY <1>0, <2>1, VersionAssumption DEF Versions
  <2>3. /\ image' \in [Paths -> Versions \cup {Absent}]
        /\ \A x \in Paths : x \notin {n, n} => image'[x] = image[x]
    BY <1>0, <2>1, <2>2
  <2>4. PICK why \in {"none", "save"} : why = IF op \in {"save", "new"} THEN "save" ELSE "none"
    OBVIOUS
  <2>5. Start(w, op, n, n, why)
    BY <1>1, <2>4 DEF Store
  <2> QED BY <2>2, <2>3, <2>4, <2>5, StartingStep
<1>2. ASSUME NEW n \in Paths, Delete(w, n) PROVE ThumbInv'
  <2>1. image' = [image EXCEPT ![n] = Absent] /\ version' = version /\ Start(w, "delete", n, n, "none")
    BY <1>2 DEF Delete
  <2>2. /\ image' \in [Paths -> Versions \cup {Absent}]
        /\ \A x \in Paths : x \notin {n, n} => image'[x] = image[x]
    BY <1>0, <2>1
  <2> QED BY <1>0, <2>1, <2>2, StartingStep
<1>3. ASSUME NEW n \in Paths, NEW t \in Paths, Rename(w, n, t) PROVE ThumbInv'
  <2>1. /\ n # t /\ version' = version /\ Start(w, "rename", n, t, "rename")
        /\ image' = [image EXCEPT ![t] = image[n], ![n] = Absent]
    BY <1>3 DEF Rename
  <2>2. /\ image' \in [Paths -> Versions \cup {Absent}]
        /\ \A x \in Paths : x \notin {n, t} => image'[x] = image[x]
    BY <1>0, <2>1
  <2> QED BY <1>0, <2>1, <2>2, StartingStep
<1> QED BY <1>1, <1>2, <1>3

(* findOne *)
LEMMA FindChangedStep ==
    ASSUME ThumbInv, NEW w \in Writers, FindChanged(w) PROVE ThumbInv'
<1>0. /\ writer \in [Writers -> ChangeType] /\ writer[w] \in ChangeType
      /\ ids \in [Paths -> SUBSET Ids] /\ excuse \in [Paths -> Excuses]
      /\ thumb \in [Ids -> Versions \cup {Absent}] /\ redis \in [Paths -> Versions \cup {Absent}]
      /\ writer[w].pc = "find" /\ writer[w].op # "rename"
      /\ writer[w].n \in Paths /\ writer[w].to = writer[w].n
  BY DEF ThumbInv, ThumbTypes, FindChanged, ChangesNamed, AboutFiles
<1>1. PICK i \in (IF writer[w].op = "new" THEN {Absent} ELSE Found(writer[w].n)) :
         /\ Writes(w, [writer[w] EXCEPT !.pc = IF Drops(writer[w].op, i) THEN "files" ELSE "save",
                                           !.id = i])
         /\ IF writer[w].op \in {"chunked", "delete"} /\ i = Absent
            THEN Excused(writer[w].n, "norow") ELSE UNCHANGED excuse
  BY DEF FindChanged
<1>2. PICK m : m = [writer[w] EXCEPT !.pc = IF Drops(writer[w].op, i) THEN "files" ELSE "save", !.id = i]
  OBVIOUS
<1>3. /\ writer[w].op # "new" => \/ ids[writer[w].n] = {} /\ i = Absent
                                 \/ i \in ids[writer[w].n]
      /\ i \in Ids \cup {Absent}
  BY <1>0, <1>1 DEF Found
<1>4. /\ m \in ChangeType /\ m.n = writer[w].n /\ m.to = writer[w].to /\ m.op = writer[w].op
      /\ m.raced = writer[w].raced /\ m.id = i /\ m.pc \in {"files", "save"}
      /\ Drops(m.op, i) => m.pc = "files"
  BY <1>0, <1>2, <1>3 DEF ChangeType
<1>5. writer' = [writer EXCEPT ![w] = m]
  BY <1>1, <1>2 DEF Writes
<1>6. UNCHANGED <<image, ids, reader, version, lastId, thumb, redis>>
  BY DEF FindChanged, caches
<1>7. /\ excuse' \in [Paths -> Excuses]
      /\ \A n \in Paths : excuse'[n] = "none" => excuse[n] = "none"
      /\ m.op \in {"chunked", "delete"} /\ i = Absent => excuse'[m.n] # "none"
  <2>1. CASE writer[w].op \in {"chunked", "delete"} /\ i = Absent
    <3>1. excuse' = [excuse EXCEPT ![m.n] = Also(excuse[m.n], "norow")]
      BY <1>1, <1>4, <2>1 DEF Excused
    <3> QED BY <1>0, <1>4, <3>1 DEF Also, Excuses
  <2>2. CASE ~(writer[w].op \in {"chunked", "delete"} /\ i = Absent)
    BY <1>0, <1>1, <1>4, <2>2
  <2> QED BY <2>1, <2>2
<1>8. \A n \in Paths : Concerns(w, n) /\ excuse'[n] = "none" => Drops(m.op, m.id)
  <2> SUFFICES ASSUME NEW n \in Paths, Concerns(w, n), excuse'[n] = "none"
               PROVE  Drops(m.op, m.id)
    OBVIOUS
  <2>1. n = m.n
    BY <1>0, <1>4 DEF Concerns
  <2>2. m.op \in {"upload", "chunked", "delete"}
    BY <1>4, <1>7 DEF ThumbInv, Unexcused, Regular
  <2> QED BY <1>4, <1>7, <2>1, <2>2 DEF Drops
<1>9. Drops(m.op, m.id) => Dropped(m)'
  <2> SUFFICES ASSUME Drops(m.op, m.id) PROVE Dropped(m)'
    OBVIOUS
  <2>1. m.op # "new" /\ m.pc = "files"
    BY <1>4 DEF Drops
  <2>2. Absent \notin ids[m.n]
    BY <1>0, <1>4, NoNames
  <2> QED BY <1>3, <1>4, <1>6, <2>1, <2>2 DEF Dropped
<1> QED BY <1>0, <1>4, <1>5, <1>6, <1>7, <1>8, <1>9, GoingOnStep

(* invalidateThumbnailsFor *)
LEMMA InvalidateStep ==
    ASSUME ThumbInv, NEW w \in Writers,
           InvalidateFiles(w) \/ ScanKeys(w) \/ DeleteKeys(w)
    PROVE  ThumbInv'
<1>0. /\ writer \in [Writers -> ChangeType] /\ writer[w] \in ChangeType
      /\ excuse \in [Paths -> Excuses]
      /\ thumb \in [Ids -> Versions \cup {Absent}] /\ redis \in [Paths -> Versions \cup {Absent}]
      /\ writer[w].pc \in {"files", "scan", "del"} /\ writer[w].n \in Paths
  BY DEF ThumbInv, ThumbTypes, InvalidateFiles, ScanKeys, DeleteKeys, ChangesNamed, AboutFiles
<1>1. \A n \in Paths : Concerns(w, n) /\ excuse[n] = "none" => Drops(writer[w].op, writer[w].id)
  BY <1>0 DEF ThumbInv, Unexcused, Regular
<1>2. ~writer[w].raced /\ Drops(writer[w].op, writer[w].id) => Dropped(writer[w])
  BY <1>0 DEF ThumbInv, Dropping
<1>3. writer[w].id # Absent => writer[w].id \in Ids
  BY <1>0 DEF ChangeType
<1>4. CASE InvalidateFiles(w)
  <2>1. PICK m : m = [writer[w] EXCEPT !.pc = "scan"]
    OBVIOUS
  <2>2. /\ m \in ChangeType /\ m.n = writer[w].n /\ m.to = writer[w].to /\ m.op = writer[w].op
        /\ m.raced = writer[w].raced /\ m.id = writer[w].id /\ m.pc = "scan"
    BY <1>0, <2>1 DEF ChangeType
  <2>3. /\ writer' = [writer EXCEPT ![w] = m]
        /\ thumb' = IF m.id = Absent THEN thumb ELSE [thumb EXCEPT ![m.id] = Absent]
        /\ UNCHANGED <<image, ids, redis, reader, version, lastId, excuse>>
    BY <1>4, <2>1, <2>2 DEF InvalidateFiles, Writes
  <2>4. /\ thumb' \in [Ids -> Versions \cup {Absent}]
        /\ \A i \in Ids : thumb'[i] \in {thumb[i], Absent}
        /\ m.id # Absent => thumb'[m.id] = Absent
    BY <1>0, <1>3, <2>2, <2>3
  <2>5. ~m.raced /\ Drops(m.op, m.id) => Dropped(m)'
    BY <1>2, <2>2, <2>3, <2>4 DEF Dropped
  <2> QED BY <1>0, <1>1, <2>2, <2>3, <2>4, <2>5, GoingOnStep
<1>5. CASE ScanKeys(w)
  <2>0. PICK found \in BOOLEAN : found = (redis[writer[w].n] # Absent)
    OBVIOUS
  <2>1. PICK m : m = [writer[w] EXCEPT !.pc = "del", !.found = found]
    OBVIOUS
  <2>2. /\ m \in ChangeType /\ m.n = writer[w].n /\ m.to = writer[w].to /\ m.op = writer[w].op
        /\ m.raced = writer[w].raced /\ m.id = writer[w].id /\ m.pc = "del" /\ m.found = found
    BY <1>0, <2>1 DEF ChangeType
  <2>3. ~m.found => redis[m.n] = Absent
    BY <2>0, <2>2
  <2>4. /\ writer' = [writer EXCEPT ![w] = m]
        /\ UNCHANGED <<image, ids, thumb, redis, reader, version, lastId, excuse>>
    BY <1>5, <2>0, <2>1 DEF ScanKeys, Writes, caches
  <2>5. ~m.raced /\ Drops(m.op, m.id) => Dropped(m)'
    <3> SUFFICES ASSUME ~m.raced, Drops(m.op, m.id) PROVE Dropped(m)'
      OBVIOUS
    <3>1. Dropped(writer[w]) /\ writer[w].pc = "scan"
      BY <1>2, <1>5, <2>2 DEF ScanKeys
    <3> QED BY <2>2, <2>3, <2>4, <3>1 DEF Dropped
  <2> QED BY <1>0, <1>1, <2>2, <2>4, <2>5, GoingOnStep
<1>6. CASE DeleteKeys(w)
  <2>1. PICK m : m = [writer[w] EXCEPT !.pc = "save", !.found = FALSE]
    OBVIOUS
  <2>2. /\ m \in ChangeType /\ m.n = writer[w].n /\ m.to = writer[w].to /\ m.op = writer[w].op
        /\ m.raced = writer[w].raced /\ m.id = writer[w].id /\ m.pc = "save"
    BY <1>0, <2>1 DEF ChangeType
  <2>3. /\ writer' = [writer EXCEPT ![w] = m] /\ writer[w].pc = "del"
        /\ UNCHANGED <<image, ids, thumb, reader, version, lastId, excuse>>
        /\ writer[w].found => redis' = [redis EXCEPT ![m.n] = Absent]
        /\ ~writer[w].found => redis' = redis
    BY <1>6, <2>1, <2>2 DEF DeleteKeys, Writes
  <2>4. /\ redis' \in [Paths -> Versions \cup {Absent}]
        /\ \A n \in Paths : redis'[n] \in {redis[n], Absent}
    BY <1>0, <2>2, <2>3
  <2>5. ~m.raced /\ Drops(m.op, m.id) => Dropped(m)'
    <3> SUFFICES ASSUME ~m.raced, Drops(m.op, m.id) PROVE Dropped(m)'
      OBVIOUS
    <3>1. Dropped(writer[w])
      BY <1>2, <2>2
    <3>2. redis'[m.n] = Absent
      BY <1>0, <2>2, <2>3, <3>1 DEF Dropped
    <3> QED BY <2>2, <2>3, <3>1, <3>2 DEF Dropped
  <2> QED BY <1>0, <1>1, <2>2, <2>3, <2>4, <2>5, GoingOnStep
<1> QED BY <1>4, <1>5, <1>6

(* The row is saved or removed: a file that ends up without an excuse has  *)
(* nothing in the caches, and nobody has heard of its row.                 *)
LEMMA SaveChangedStep ==
    ASSUME ThumbInv, Strays, NEW w \in Writers, SaveChanged(w) PROVE ThumbInv'
<1>0. /\ writer \in [Writers -> ChangeType] /\ writer[w] \in ChangeType
      /\ reader \in [Readers -> AskType] /\ ids \in [Paths -> SUBSET Ids]
      /\ excuse \in [Paths -> Excuses] /\ lastId \in 0..MaxVersion
      /\ writer[w].pc = "save" /\ writer[w].n \in Paths
  BY DEF ThumbInv, ThumbTypes, SaveChanged, ChangesNamed, AboutFiles
<1>1. PICK x \in Paths : x = writer[w].n
  BY <1>0
<1>2. PICK j \in Ids \cup {Absent} : j = writer[w].id
  BY <1>0 DEF ChangeType
<1> DEFINE cured == Drops(writer[w].op, j) /\ ~writer[w].raced /\ ids[x] \subseteq {j}
                    /\ x \notin unfound
<1>3. /\ writer' = [writer EXCEPT ![w] = NotWriting]
      /\ UNCHANGED <<image, thumb, redis, reader, version>>
      /\ cured => excuse' = [excuse EXCEPT ![x] = "none"]
      /\ ~cured => excuse' = excuse
  BY <1>1, <1>2 DEF SaveChanged, Writes, caches
<1>4. \/ /\ j = Absent /\ lastId < MaxVersion /\ lastId' = lastId + 1
         /\ ids' = [ids EXCEPT ![x] = @ \cup {lastId + 1}]
      \/ UNCHANGED <<ids, lastId>>
      \/ lastId' = lastId /\ ids' = [ids EXCEPT ![x] = @ \ {j}]
  BY <1>1, <1>2 DEF SaveChanged
<1>5. /\ ids' \in [Paths -> SUBSET Ids] /\ lastId' \in 0..MaxVersion /\ lastId <= lastId'
      /\ \A n \in Paths : n # x => ids'[n] = ids[n]
      /\ \A i \in ids'[x] : i \in ids[x] \/ (j = Absent /\ i = lastId + 1 /\ i \in Ids)
  <2>1. lastId < MaxVersion => lastId + 1 \in Ids /\ lastId + 1 \in 0..MaxVersion
    BY <1>0, VersionAssumption DEF Ids
  <2>2. lastId <= lastId + 1 /\ lastId <= lastId
    BY <1>0, VersionAssumption
  <2> QED BY <1>0, <1>4, <2>1, <2>2
<1>6. \A n \in Paths : \A i \in ids[n] : i \in Nat /\ i <= lastId /\ i # lastId + 1
  BY <1>0, VersionAssumption DEF ThumbInv, RowsApart, Ids
<1>7. \A n \in Paths : \A i \in ids'[n] : i <= lastId'
  BY <1>0, <1>4, <1>5, <1>6, VersionAssumption
<1>8. \A n, k \in Paths : \A i \in ids'[n] : i \in ids'[k] => n = k
  <2>1. \A n, k \in Paths : \A i \in ids[n] : i \in ids[k] => n = k
    BY DEF ThumbInv, RowsApart
  <2> QED BY <1>5, <1>6, <2>1
<1>9. \A n \in Paths : ~Concerns(w, n) => ids'[n] = ids[n] /\ excuse'[n] = excuse[n]
  <2>1. \A n \in Paths : ~Concerns(w, n) => n # x
    BY <1>1 DEF Concerns
  <2> QED BY <1>0, <1>3, <1>5, <2>1
<1>10. excuse' \in [Paths -> Excuses]
  BY <1>0, <1>3 DEF Excuses
<1>11. ASSUME NEW n \in Paths, Concerns(w, n), excuse'[n] = "none"
       PROVE  n = x /\ cured
  <2>1. CASE cured
    <3>1. writer[w].to = writer[w].n
      BY <2>1 DEF Drops, ThumbInv, ChangesNamed, AboutFiles
    <3> QED BY <1>1, <1>11, <2>1, <3>1 DEF Concerns
  <2>2. CASE ~cured
    <3>1. excuse[n] = "none" /\ Regular(writer[w])
      BY <1>3, <1>11, <2>2 DEF ThumbInv, Unexcused
    <3>2. n = x
      <4>1. writer[w].to = writer[w].n
        BY <3>1 DEF Regular, ThumbInv, ChangesNamed, AboutFiles
      <4> QED BY <1>1, <1>11, <4>1 DEF Concerns
    <3>3. Drops(writer[w].op, j) /\ ~writer[w].raced
      BY <1>0, <1>2, <3>1 DEF Regular
    <3>4. Dropped(writer[w])
      BY <1>0, <1>2, <3>3 DEF ThumbInv, Dropping
    <3>5. \A i, k \in ids[x] : i = k
      BY <3>1, <3>2 DEF ThumbInv, SingleRow
    <3>6. ids[x] \subseteq {j}
      BY <1>1, <1>2, <3>4, <3>5 DEF Dropped
    <3>7. x \notin unfound
      BY <3>1, <3>2 DEF Strays
    <3> QED BY <3>2, <3>3, <3>6, <3>7
  <2> QED BY <2>1, <2>2
<1>12. ASSUME cured
       PROVE  /\ \A v \in Writers : Concerns(v, x) => v = w
              /\ \A i, k \in ids'[x] : i = k
              /\ Shows(x)'
  <2>1. Dropped(writer[w])
    BY <1>0, <1>2, <1>12 DEF ThumbInv, Dropping
  <2>2. Undisturbed(w, x)
    BY <1>1, <1>12 DEF ThumbInv, Unraced, Concerns
  <2>3. redis[x] = Absent /\ (j # Absent => thumb[j] = Absent) /\ ids[x] \subseteq {j}
    BY <1>0, <1>1, <1>2, <1>12, <2>1 DEF Dropped
  <2>4. Absent \notin ids[x]
    BY <1>0, NoNames
  <2>5. \A i \in ids'[x] : (i \in ids[x] /\ i = j) \/ (ids[x] = {} /\ i = lastId + 1 /\ i \in Ids)
    BY <1>5, <2>3, <2>4
  <2>6. \A i \in ids'[x] : thumb'[i] = Absent
    <3> SUFFICES ASSUME NEW i \in ids'[x] PROVE thumb'[i] = Absent
      OBVIOUS
    <3>1. CASE i = lastId + 1 /\ i \in Ids
      <4>1. i > lastId
        BY <1>0, <3>1
      <4> QED BY <1>3, <3>1, <4>1 DEF ThumbInv, RowsApart
    <3>2. CASE i \in ids[x] /\ i = j
      BY <1>3, <2>3, <2>4, <3>2
    <3> QED BY <2>5, <3>1, <3>2
  <2>7. \A r \in Readers : reader[r].id # lastId + 1
    <3> SUFFICES ASSUME NEW r \in Readers PROVE reader[r].id # lastId + 1
      OBVIOUS
    <3>1. reader[r].id # Absent => reader[r].id \in Nat /\ reader[r].id <= lastId
      BY <1>0, VersionAssumption DEF ThumbInv, Asking, Asks, AskType, Ids
    <3>2. lastId + 1 \in Nat /\ lastId \in Nat
      BY <1>0
    <3> QED BY <3>1, <3>2, NoNames
  <2>8. \A r \in Readers : reader[r].n # x /\ reader[r].id \notin ids'[x]
    BY <2>2, <2>5, <2>7 DEF Undisturbed
  <2>9. \A i, k \in ids'[x] : i = k
    BY <2>5
  <2>10. Shows(x)'
    BY <1>3, <2>3, <2>6, <2>8 DEF Shows
  <2> QED BY <2>2, <2>9, <2>10 DEF Undisturbed
<1>13. ASSUME NEW n \in Paths, Concerns(w, n), excuse'[n] = "none"
       PROVE  /\ \A v \in Writers : Concerns(v, n) => v = w
              /\ \A i, k \in ids'[n] : i = k
              /\ Shows(n)'
  <2>1. n = x /\ cured
    BY <1>11, <1>13
  <2> HIDE DEF cured
  <2> QED BY <1>12, <2>1
<1> HIDE DEF cured
<1> QED BY <1>0, <1>3, <1>5, <1>7, <1>8, <1>9, <1>10, <1>13, EndingStep

LEMMA RenameRowStep ==
    ASSUME ThumbInv, NEW w \in Writers, RenameRow(w) PROVE ThumbInv'
<1>0. /\ writer \in [Writers -> ChangeType] /\ writer[w] \in ChangeType
      /\ ids \in [Paths -> SUBSET Ids]
      /\ excuse \in [Paths -> Excuses] /\ lastId \in 0..MaxVersion
      /\ writer[w].pc = "find" /\ writer[w].op = "rename"
      /\ writer[w].n \in Paths /\ writer[w].to \in Paths /\ writer[w].n # writer[w].to
  BY DEF ThumbInv, ThumbTypes, RenameRow, ChangesNamed, AboutFiles
<1>1. PICK x \in Paths, t \in Paths : x = writer[w].n /\ t = writer[w].to
  BY <1>0
<1>2. /\ writer' = [writer EXCEPT ![w] = NotWriting]
      /\ UNCHANGED <<image, thumb, redis, reader, version, excuse>>
  BY DEF RenameRow, Writes, caches
<1>3. /\ \A n \in Paths : Concerns(w, n) <=> n \in {x, t}
      /\ \A n \in Paths : Concerns(w, n) => excuse'[n] # "none"
  BY <1>0, <1>1, <1>2 DEF Concerns, ThumbInv, Unexcused, Regular
<1>4. /\ \A n \in Paths : \A i \in ids[n] : i \in Nat /\ i <= lastId /\ i # lastId + 1
      /\ \A n, k \in Paths : \A i \in ids[n] : i \in ids[k] => n = k
  BY <1>0, VersionAssumption DEF ThumbInv, RowsApart, Ids
<1>5. ASSUME NEW i \in ids[x], ids' = [ids EXCEPT ![x] = @ \ {i}, ![t] = @ \cup {i}], lastId' = lastId
      PROVE  ThumbInv'
  <2>1. i \in Ids
    BY <1>0
  <2>2. /\ ids' \in [Paths -> SUBSET Ids] /\ lastId' \in 0..MaxVersion /\ lastId <= lastId'
        /\ ids'[x] = ids[x] \ {i} /\ ids'[t] = ids[t] \cup {i}
        /\ \A n \in Paths : n \notin {x, t} => ids'[n] = ids[n]
    BY <1>0, <1>1, <1>5, <2>1
  <2>3. \A n \in Paths : \A k \in ids'[n] : k <= lastId'
    BY <1>4, <1>5, <2>2
  <2>4. \A n, k \in Paths : \A q \in ids'[n] : q \in ids'[k] => n = k
    BY <1>4, <2>2
  <2> QED BY <1>0, <1>2, <1>3, <2>2, <2>3, <2>4, EndingStep
<1>6. ASSUME lastId < MaxVersion, ids' = [ids EXCEPT ![t] = @ \cup {lastId + 1}], lastId' = lastId + 1
      PROVE  ThumbInv'
  <2>1. lastId + 1 \in Ids /\ lastId + 1 \in 0..MaxVersion /\ lastId <= lastId + 1
    BY <1>0, <1>6, VersionAssumption DEF Ids
  <2>2. /\ ids' \in [Paths -> SUBSET Ids] /\ lastId' \in 0..MaxVersion /\ lastId <= lastId'
        /\ ids'[t] = ids[t] \cup {lastId + 1}
        /\ \A n \in Paths : n # t => ids'[n] = ids[n]
    BY <1>0, <1>6, <2>1
  <2>3. \A n \in Paths : \A k \in ids'[n] : k <= lastId'
    BY <1>0, <1>4, <1>6, <2>2, VersionAssumption
  <2>4. \A n, k \in Paths : \A q \in ids'[n] : q \in ids'[k] => n = k
    BY <1>4, <2>2
  <2> QED BY <1>0, <1>2, <1>3, <2>2, <2>3, <2>4, EndingStep
<1> QED BY <1>1, <1>5, <1>6 DEF RenameRow

LEMMA ChangeFailsStep ==
    ASSUME ThumbInv, NEW w \in Writers, ChangeFails(w) PROVE ThumbInv'
<1>0. /\ writer[w] \in ChangeType /\ ids \in [Paths -> SUBSET Ids]
      /\ excuse \in [Paths -> Excuses] /\ lastId \in 0..MaxVersion
  BY DEF ThumbInv, ThumbTypes
<1>1. /\ writer' = [writer EXCEPT ![w] = NotWriting]
      /\ excuse' = [excuse EXCEPT ![writer[w].n] = Also(excuse[writer[w].n], "failed")]
      /\ UNCHANGED <<image, ids, thumb, redis, reader, version, lastId>>
  BY DEF ChangeFails, Writes, Excused, caches
<1>2. writer[w].pc # "idle" /\ writer[w].n \in Paths
  BY DEF ChangeFails, ThumbInv, ChangesNamed, AboutFiles
<1>3. /\ excuse' \in [Paths -> Excuses] /\ excuse'[writer[w].n] # "none"
      /\ \A n \in Paths : n # writer[w].n => excuse'[n] = excuse[n]
  BY <1>0, <1>1, <1>2 DEF Also, Excuses
<1>4. \A n \in Paths : Concerns(w, n) => excuse'[n] # "none"
  <2> SUFFICES ASSUME NEW n \in Paths, Concerns(w, n), excuse'[n] = "none" PROVE FALSE
    OBVIOUS
  <2>1. n # writer[w].n /\ n = writer[w].to /\ excuse[n] = "none"
    BY <1>3 DEF Concerns
  <2>2. Regular(writer[w])
    BY <2>1 DEF ThumbInv, Unexcused
  <2> QED BY <2>1, <2>2 DEF Regular, ThumbInv, ChangesNamed, AboutFiles
<1>5. \A n \in Paths : ~Concerns(w, n) => ids'[n] = ids[n] /\ excuse'[n] = excuse[n]
  BY <1>1, <1>3 DEF Concerns
<1>6. /\ \A n \in Paths : \A i \in ids'[n] : i <= lastId'
      /\ \A n, k \in Paths : \A i \in ids'[n] : i \in ids'[k] => n = k
  BY <1>1 DEF ThumbInv, RowsApart
<1>7. lastId <= lastId'
  BY <1>0, <1>1
<1> QED BY <1>0, <1>1, <1>2, <1>3, <1>4, <1>5, <1>6, <1>7, EndingStep

LEMMA ThumbInvInit == ThumbsInit => ThumbInv
<1> SUFFICES ASSUME ThumbsInit PROVE ThumbInv
  OBVIOUS
<1>1. ThumbTypes
  BY NotBusy, VersionAssumption DEF ThumbsInit, ThumbTypes, Versions, Excuses
<1>2. /\ \A w \in Writers : writer[w] = NotWriting
      /\ \A r \in Readers : reader[r] = NotReading
      /\ \A n \in Paths : ids[n] = {} /\ redis[n] = Absent
      /\ \A i \in Ids : thumb[i] = Absent
  BY DEF ThumbsInit
<1>3. \A w \in Writers : \A n \in Paths : ~Concerns(w, n)
  BY <1>2, NotBusy, NoNames DEF Concerns
<1>4. RowsApart /\ Asking /\ ChangesNamed /\ Unraced /\ Unexcused /\ SingleRow /\ Dropping
  BY <1>2, <1>3, NotBusy DEF RowsApart, Asking, Asks, ChangesNamed, AboutFiles, Unraced, Unexcused,
     SingleRow, Dropping
<1>5. Settled
  BY <1>2, NotBusy, NoNames DEF Settled, Shows
<1> QED BY <1>1, <1>4, <1>5 DEF ThumbInv

LEMMA ThumbInvStep == ASSUME ThumbInv, Strays, [ThumbsNext]_thumbsVars PROVE ThumbInv'
<1>1. ASSUME NEW r \in Readers, Reading(r) PROVE ThumbInv'
  BY <1>1, InterceptStep, RequestStep DEF Reading
<1>2. ASSUME NEW w \in Writers, Changing(w) PROVE ThumbInv'
  BY <1>2, StoreStep, RenameRowStep, FindChangedStep, InvalidateStep, SaveChangedStep,
     ChangeFailsStep DEF Changing
<1>3. redis \in [Paths -> Versions \cup {Absent}]
  BY DEF ThumbInv, ThumbTypes
<1>4. ASSUME NEW n \in Paths, ExpireThumbnail(n) PROVE ThumbInv'
  BY <1>3, <1>4, ExpiringStep DEF ExpireThumbnail
<1>6. ASSUME NEW n \in Paths, UpdateStats(n) PROVE ThumbInv'
  BY <1>6, UpdateStatsStep
<1>5. CASE UNCHANGED thumbsVars
  BY <1>3, <1>5, ExpiringStep DEF thumbsVars, caches
<1> QED BY <1>1, <1>2, <1>4, <1>5, <1>6 DEF ThumbsNext

LEMMA StraysStep == ASSUME ThumbInv, Strays, [ThumbsNext]_thumbsVars PROVE Strays'
<1>0. excuse \in [Paths -> Excuses]
  BY DEF ThumbInv, ThumbTypes
<1>1. ASSUME unfound' \subseteq unfound,
             \A n \in Paths : excuse'[n] = "none" => excuse[n] = "none" \/ n \notin unfound'
      PROVE  Strays'
  BY <1>1 DEF Strays
<1>2. ASSUME NEW n \in Paths, NEW why \in Excuses \ {"none"}, Excused(n, why)
      PROVE  \A x \in Paths : excuse'[x] = "none" => excuse[x] = "none" /\ x # n
  BY <1>0, <1>2 DEF Excused, Also, Excuses
<1>3. ASSUME NEW n \in Paths, NEW harmless \in BOOLEAN, Joins(n, harmless), unfound' = unfound
      PROVE  Strays'
  BY <1>1, <1>2, <1>3 DEF Joins, Excuses
<1>4. ASSUME NEW r \in Readers, CacheThumbnail(r) PROVE Strays'
  <2>1. reader[r].n \in Paths
    BY <1>4 DEF CacheThumbnail, ThumbInv, Asking, Asks
  <2>2. CASE unfound' = unfound /\ excuse' = excuse
    BY <2>2 DEF Strays
  <2>3. CASE unfound' = unfound \cup {reader[r].n} /\ Excused(reader[r].n, "spelled")
    BY <1>0, <2>1, <2>3 DEF Strays, Excused, Also, Excuses
  <2> QED BY <1>4, <2>2, <2>3 DEF CacheThumbnail
<1>5. ASSUME NEW r \in Readers, Reading(r) PROVE Strays'
  <2>1. CASE FindUploaded(r) \/ FoundOnDisk(r) \/ Resize(r) \/ WriteThumbnail(r) \/ ReadEnds(r)
    <3>1. unfound' = unfound /\ excuse' = excuse
      BY <2>1 DEF FindUploaded, FoundOnDisk, Resize, WriteThumbnail, ReadEnds, caches
    <3> QED BY <3>1 DEF Strays
  <2>2. ASSUME NEW n \in Paths, Intercept(r, n) PROVE Strays'
    BY <1>3, <2>2 DEF Intercept, caches
  <2> QED BY <1>4, <1>5, <2>1, <2>2 DEF Reading
<1>6. ASSUME NEW n \in Paths, ExpireThumbnail(n) \/ UpdateStats(n) PROVE Strays'
  <2>1. CASE ExpireThumbnail(n)
    BY <1>1, <2>1 DEF ExpireThumbnail
  <2>2. CASE UpdateStats(n)
    <3>1. PICK harmless \in BOOLEAN : harmless = (ids[n] = {})
      OBVIOUS
    <3> QED BY <1>3, <2>2, <3>1 DEF UpdateStats, caches
  <2> QED BY <1>6, <2>1, <2>2
<1>7. ASSUME NEW w \in Writers, NEW n \in Paths, NEW t \in Paths,
             NEW op \in {"upload", "chunked", "save", "new", "delete", "rename"},
             NEW why \in {"none", "save", "rename"}, Start(w, op, n, t, why)
      PROVE  Strays'
  <2>1. unfound' = unfound
    BY <1>7 DEF Start, caches
  <2>2. \A x \in Paths : excuse'[x] = "none" => excuse[x] = "none"
    BY <1>7, StartFacts DEF Started
  <2> QED BY <1>1, <2>1, <2>2
<1>8. ASSUME NEW w \in Writers, Changing(w) PROVE Strays'
  <2>0. writer[w].pc # "idle" => writer[w].n \in Paths
    BY DEF ThumbInv, ChangesNamed, AboutFiles
  <2>1. ASSUME NEW n \in Paths, NEW op \in {"upload", "chunked", "save", "new"}, Store(w, op, n)
        PROVE  Strays'
    <3>1. PICK why \in {"none", "save"} : why = IF op \in {"save", "new"} THEN "save" ELSE "none"
      OBVIOUS
    <3> QED BY <1>7, <2>1, <3>1 DEF Store
  <2>2. ASSUME NEW n \in Paths, Delete(w, n) PROVE Strays'
    BY <1>7, <2>2 DEF Delete
  <2>3. ASSUME NEW n \in Paths, NEW t \in Paths, Rename(w, n, t) PROVE Strays'
    BY <1>7, <2>3 DEF Rename
  <2>4. CASE RenameRow(w) \/ InvalidateFiles(w) \/ ScanKeys(w) \/ DeleteKeys(w)
    <3>1. unfound' = unfound /\ excuse' = excuse
      BY <2>4 DEF RenameRow, InvalidateFiles, ScanKeys, DeleteKeys, caches
    <3> QED BY <3>1 DEF Strays
  <2>5. CASE FindChanged(w)
    <3>1. writer[w].n \in Paths /\ unfound' = unfound
      BY <2>0, <2>5 DEF FindChanged, caches
    <3>2. excuse' = excuse \/ Excused(writer[w].n, "norow")
      BY <2>5 DEF FindChanged
    <3> QED BY <1>1, <1>2, <3>1, <3>2 DEF Excuses
  <2>6. CASE SaveChanged(w)
    <3>1. unfound' = unfound
      BY <2>6 DEF SaveChanged, caches
    <3>2. \/ excuse' = excuse
          \/ excuse' = [excuse EXCEPT ![writer[w].n] = "none"] /\ writer[w].n \notin unfound
      BY <2>6 DEF SaveChanged
    <3>3. \A n \in Paths : excuse'[n] = "none" => excuse[n] = "none" \/ n \notin unfound
      BY <1>0, <3>2
    <3> QED BY <1>1, <3>1, <3>3
  <2>7. CASE ChangeFails(w)
    <3>1. writer[w].n \in Paths /\ unfound' = unfound
      BY <2>0, <2>7 DEF ChangeFails, caches, ThumbInv, ChangesNamed, AboutFiles
    <3> QED BY <1>1, <1>2, <2>7, <3>1 DEF ChangeFails, Excuses
  <2> QED BY <1>8, <2>1, <2>2, <2>3, <2>4, <2>5, <2>6, <2>7 DEF Changing
<1>9. CASE UNCHANGED thumbsVars
  BY <1>1, <1>9 DEF thumbsVars, caches
<1> QED BY <1>5, <1>6, <1>8, <1>9 DEF ThumbsNext

(* Once FilesService has uploaded, replaced or deleted a file, thumbnails  *)
(* on disk and in Redis show its present contents or nothing, for any      *)
(* number of files, requests for thumbnails and changes, in every order in *)
(* which nobody asked for the thumbnail or changed the file meanwhile.     *)
THEOREM ThumbnailsAreFresh == ThumbsSpec => []Fresh
<1>1. ThumbsInit => ThumbInv
  BY ThumbInvInit
<1>2. ThumbInv /\ Strays /\ [ThumbsNext]_thumbsVars => ThumbInv'
  BY ThumbInvStep
<1>3. ThumbsInit => Strays
  BY DEF ThumbsInit, Strays
<1>4. ThumbInv /\ Strays /\ [ThumbsNext]_thumbsVars => Strays'
  BY StraysStep
<1>5. ThumbInv /\ Strays => Fresh
  <2> SUFFICES ASSUME ThumbInv, Strays, NEW n \in Paths, excuse[n] = "none",
                      ~(\E w \in Writers : Concerns(w, n))
               PROVE  Cached(n) \subseteq {image[n]}
    BY DEF Fresh, UpToDate
  <2>1. Shows(n)
    BY DEF ThumbInv, Settled, Quiet
  <2> QED BY <2>1 DEF Shows, Cached, Strays
<1> QED BY <1>1, <1>2, <1>3, <1>4, <1>5, PTL DEF ThumbsSpec

(* And what is sent to the one who asks is the present contents: with no   *)
(* change under way and no excuse, a thumbnail that toThumbnail found on   *)
(* disk or made is of the file as it is now.                               *)
THEOREM AnswersAreFresh == ThumbsSpec => []AnswersFresh
<1>1. ThumbsInit => ThumbInv
  BY ThumbInvInit
<1>2. ThumbInv /\ Strays /\ [ThumbsNext]_thumbsVars => ThumbInv'
  BY ThumbInvStep
<1>3. ThumbsInit => Strays
  BY DEF ThumbsInit, Strays
<1>4. ThumbInv /\ Strays /\ [ThumbsNext]_thumbsVars => Strays'
  BY StraysStep
<1>5. ThumbInv => AnswersFresh
  <2> SUFFICES ASSUME ThumbInv, NEW r \in Readers, reader[r].pc = "store", Quiet(reader[r].n)
               PROVE  reader[r].got = image[reader[r].n]
    BY DEF AnswersFresh
  <2>1. reader[r].n \in Paths /\ reader[r].got # Absent
    BY DEF ThumbInv, Asking, Asks
  <2>2. Shows(reader[r].n)
    BY <2>1 DEF ThumbInv, Settled
  <2> QED BY <2>1, <2>2 DEF Shows
<1> QED BY <1>1, <1>2, <1>3, <1>4, <1>5, PTL DEF ThumbsSpec

(* Thumbnail requests, changes and both caches stay within their types:    *)
(* cached thumbnails are of versions that existed, rows of rows inserted.  *)
THEOREM ThumbnailsTypeCorrect == ThumbsSpec => []ThumbsTypeOK
<1>1. ThumbsInit => ThumbInv
  BY ThumbInvInit
<1>2. ThumbInv /\ Strays /\ [ThumbsNext]_thumbsVars => ThumbInv'
  BY ThumbInvStep
<1>3. ThumbsInit => Strays
  BY DEF ThumbsInit, Strays
<1>4. ThumbInv /\ Strays /\ [ThumbsNext]_thumbsVars => Strays'
  BY StraysStep
<1>5. ThumbInv /\ Strays => ThumbsTypeOK
  BY DEF ThumbInv, ThumbTypes, ThumbsTypeOK, AskType, ChangeType, Strays
<1> QED BY <1>1, <1>2, <1>3, <1>4, <1>5, PTL DEF ThumbsSpec
=============================================================================
