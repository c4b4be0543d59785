----------------------------- MODULE AuditProofs -----------------------------
(***************************************************************************)
(* Machine-checked proofs about Audit, for any number of requests and any  *)
(* list of receivers the server may build.                                 *)
(***************************************************************************)
EXTENDS Audit, TLAPS

-----------------------------------------------------------------------------
(* The inductive invariant.                                                *)

\* Publish has been through with this receiver.
Past(r, receiver) == \E j \in 1 .. at[r] - 1 : receivers[j] = receiver

\* A request in a receiver is in the one its index names, and is applied and
\* not answered yet; one that is published has been through with all.
PlaceOK(r) ==
  /\ pc[r] = "new" => at[r] = 1
  /\ at[r] <= Len(receivers) + 1
  /\ pc[r] \in {"file", "lock"} \cup InFile =>
       at[r] <= Len(receivers) /\ receivers[at[r]] = "file"
  /\ pc[r] \in {"post", "answer"} =>
       at[r] <= Len(receivers) /\ receivers[at[r]] = "url"
  /\ pc[r] \notin {"new", "done"} => applied[r] /\ status[r] = 0
  /\ Published(r) => at[r] = Len(receivers) + 1

PlaceInv == \A r \in Request : PlaceOK(r)

\* Only the remains of a line whose write failed stand before piece i.
StartsLine(i) == i = 1 \/ file[i - 1].part # "start" \/ Torn(i - 1)

\* The lines of a request: none before its turn, the last piece of the file
\* while its write is short, and one whole line when nothing was reported.
LinesOK(r) ==
  /\ ~Past(r, "file") /\ pc[r] # "rest" => Begins(r) = {}
  /\ pc[r] = "rest" =>
       /\ Begins(r) = {Len(file)} /\ file[Len(file)].part = "start"
       /\ StartsLine(Len(file))
  /\ Past(r, "file") /\ "file" \notin errs[r] =>
       \E i \in DOMAIN file : Begins(r) = {i} /\ LineAt(i, r)

LinesInv == \A r \in Request : LinesOK(r)

\* A line that is begun is the remains of one, or is being written.
LastInv ==
  file # <<>> /\ file[Len(file)].part = "start" =>
    Torn(Len(file)) \/ pc[file[Len(file)].event] = "rest"

\* The event is on the wire after its turn, unless the client had left, and
\* at the receiver unless Publish reports an error.
WireOK(r) ==
  /\ ~Past(r, "url") /\ pc[r] # "answer" => wire[r] = "none"
  /\ pc[r] = "answer" => wire[r] # "none"
  /\ Past(r, "url") /\ "url" \notin errs[r] => wire[r] = "received"
  /\ Past(r, "url") /\ wire[r] = "none" => gone[r]

WireInv == \A r \in Request : WireOK(r)

IInv ==
  /\ TypeOK /\ PlaceInv /\ LinesInv /\ LastInv /\ WireInv /\ AuditedHappened

-----------------------------------------------------------------------------
(* The receivers, and what a step of a request leaves to the others.       *)

\* At most two receivers, one of each sort.
LEMMA Receivers ==
  ASSUME TypeOK
  PROVE  /\ Len(receivers) \in 0 .. 2
         /\ \A i \in 1 .. Len(receivers) : receivers[i] \in {"file", "url"}
         /\ \A i, j \in 1 .. Len(receivers) : receivers[i] = receivers[j] => i = j
         /\ \A k \in ToSet(receivers) : \E i \in 1 .. Len(receivers) : receivers[i] = k
<1>1. receivers \in {<<>>, <<"file">>, <<"url">>, <<"file", "url">>}
  BY AuditAssumption DEF TypeOK
<1>2. CASE receivers = <<>>
  BY <1>2 DEF ToSet
<1>3. CASE receivers = <<"file">>
  BY <1>3 DEF ToSet
<1>4. CASE receivers = <<"url">>
  BY <1>4 DEF ToSet
<1>5. CASE receivers = <<"file", "url">>
  BY <1>5 DEF ToSet
<1> QED
  BY <1>1, <1>2, <1>3, <1>4, <1>5

RequestStep(r) == Update(r) \/ Leave(r) \/ Lock(r) \/ Step(r) \/ Deliver(r)

\* Every component of the state that belongs to one request.
Own(q) == <<route[q], pc[q], at[q], gone[q], errs[q], status[q], wire[q], applied[q]>>

LEMMA Others ==
  ASSUME TypeOK, NEW r \in Request, RequestStep(r)
  PROVE  /\ UNCHANGED receivers
         /\ \A q \in Request : q # r =>
              /\ pc'[q] = pc[q] /\ at'[q] = at[q] /\ gone'[q] = gone[q]
              /\ errs'[q] = errs[q] /\ wire'[q] = wire[q]
              /\ status'[q] = status[q] /\ applied'[q] = applied[q]
              /\ route'[q] = route[q]
         /\ \A q \in Request : (gone[q] => gone'[q]) /\ errs[q] \subseteq errs'[q]
<1> DEFINE Same ==
      /\ UNCHANGED receivers
      /\ \A q \in Request : q # r =>
           /\ pc'[q] = pc[q] /\ at'[q] = at[q] /\ gone'[q] = gone[q]
           /\ errs'[q] = errs[q] /\ wire'[q] = wire[q]
           /\ status'[q] = status[q] /\ applied'[q] = applied[q]
           /\ route'[q] = route[q]
      /\ \A q \in Request : (gone[q] => gone'[q]) /\ errs[q] \subseteq errs'[q]
<1> SUFFICES Same
  OBVIOUS
<1>1. CASE Update(r)
  BY <1>1 DEF TypeOK, Update, Goto
<1>2. CASE Leave(r)
  BY <1>2 DEF TypeOK, Leave, requestVars
<1>3. CASE Publish(r) \/ Answer(r) \/ Encode(r) \/ Lock(r) \/ Open(r) \/ WriteStart(r)
  BY <1>3 DEF TypeOK, Publish, Answer, Encode, Lock, Open, WriteStart, Goto, requestVars
<1>4. CASE Post(r) \/ Deliver(r)
  BY <1>4 DEF TypeOK, Post, Deliver, Goto, requestVars
<1>5. ASSUME NEW failed, Return(r, failed), UNCHANGED wire
      PROVE  Same
  BY <1>5 DEF TypeOK, Return, requestVars
<1> HIDE DEF Same
<1>6. CASE EncodeCancelled(r) \/ FileError(r)
  BY <1>5, <1>6 DEF EncodeCancelled, FileError
<1>7. CASE Write(r) \/ WriteRest(r) \/ PostAccepted(r)
  BY <1>5, <1>7 DEF Write, WriteRest, PostAccepted
<1>8. CASE PostCancelled(r) \/ PostError(r)
  BY <1>5, <1>8 DEF PostCancelled, PostError
<1> QED
  BY <1>1, <1>2, <1>3, <1>4, <1>6, <1>7, <1>8 DEF RequestStep, Step, FileStep, PostStep

\* What Return does to its request.
LEMMA ReturnEffect ==
  ASSUME TypeOK, PlaceInv, NEW r \in Request, NEW failed, Return(r, failed),
         pc[r] \notin {"new", "next", "done"}
  PROVE  /\ pc'[r] = "next" /\ at'[r] = at[r] + 1 /\ errs'[r] = errs[r] \cup failed
         /\ at'[r] \in 1 .. 3 /\ at'[r] <= Len(receivers) + 1
         /\ \A k : Past(r, k)' <=> Past(r, k) \/ receivers[at[r]] = k
         /\ UNCHANGED <<receivers, route, status, applied, gone>>
<1>1. /\ pc'[r] = "next" /\ at'[r] = at[r] + 1 /\ errs'[r] = errs[r] \cup failed
      /\ UNCHANGED <<receivers, route, status, applied, gone>>
  BY DEF Return, TypeOK, requestVars
<1>2. at[r] <= Len(receivers) /\ at[r] \in 1 .. 3 /\ Len(receivers) \in 0 .. 2
  <2>1. pc[r] \in {"file", "lock"} \cup InFile \/ pc[r] \in {"post", "answer"}
    BY DEF TypeOK, PC
  <2>2. at[r] <= Len(receivers)
    BY <2>1 DEF PlaceInv, PlaceOK
  <2>3. at[r] \in 1 .. 3
    BY DEF TypeOK
  <2> QED
    BY <2>2, <2>3, Receivers
<1>3. at'[r] \in 1 .. 3 /\ at'[r] <= Len(receivers) + 1
  <2>1. at'[r] = at[r] + 1
    BY <1>1
  <2>2. \A n \in 1 .. 3, l \in 0 .. 2 : n <= l => n + 1 \in 1 .. 3 /\ n + 1 <= l + 1
    OBVIOUS
  <2> QED
    BY <1>2, <2>1, <2>2
<1>4. \A k : Past(r, k)' <=> Past(r, k) \/ receivers[at[r]] = k
  <2>1. 1 .. at'[r] - 1 = (1 .. at[r] - 1) \cup {at[r]}
    BY <1>1, <1>2
  <2> QED
    BY <1>1, <2>1 DEF Past
<1> QED
  BY <1>1, <1>3, <1>4

\* In a receiver, it is the first time the request comes to one of its sort.
LEMMA InTurn ==
  ASSUME TypeOK, PlaceInv, NEW r \in Request
  PROVE  /\ pc[r] \in {"file", "lock"} \cup InFile => ~Past(r, "file")
         /\ pc[r] \in {"post", "answer"} => ~Past(r, "url")
         /\ pc[r] = "new" => \A k : ~Past(r, k)
<1>1. at[r] \in 1 .. 3 /\ Len(receivers) \in 0 .. 2
  BY Receivers DEF TypeOK
<1>2. pc[r] \in {"file", "lock"} \cup InFile => ~Past(r, "file")
  BY <1>1, Receivers DEF PlaceInv, PlaceOK, Past
<1>3. pc[r] \in {"post", "answer"} => ~Past(r, "url")
  BY <1>1, Receivers DEF PlaceInv, PlaceOK, Past
<1>4. pc[r] = "new" => \A k : ~Past(r, k)
  BY <1>1 DEF PlaceInv, PlaceOK, Past
<1> QED
  BY <1>2, <1>3, <1>4

\* A request whose index stays has been through with the same receivers.
LEMMA SamePast ==
  ASSUME NEW r \in Request, at'[r] = at[r], UNCHANGED receivers
  PROVE  \A k : Past(r, k)' = Past(r, k)
  BY DEF Past

-----------------------------------------------------------------------------
(* The file.                                                               *)

\* A piece comes at the end; only a beginning counts.
LEMMA AppendEffect ==
  ASSUME TypeOK, NEW r \in Request, NEW part \in {"line", "start", "rest"},
         AppendPiece(r, part)
  PROVE  /\ Len(file') = Len(file) + 1 /\ file' \in Seq(Piece)
         /\ \A i \in 1 .. Len(file) : file'[i] = file[i]
         /\ file'[Len(file')] = [event |-> r, part |-> part]
         /\ \A q \in Request : q # r => Begins(q)' = Begins(q)
         /\ part = "rest" => Begins(r)' = Begins(r)
         /\ part # "rest" => Begins(r)' = Begins(r) \cup {Len(file')}
<1>1. file \in Seq(Piece) /\ [event |-> r, part |-> part] \in Piece
  BY DEF TypeOK, Piece
<1>2. file' = Append(file, [event |-> r, part |-> part])
  BY DEF AppendPiece
<1>3. /\ Len(file') = Len(file) + 1 /\ file' \in Seq(Piece) /\ Len(file) \in Nat
      /\ \A i \in 1 .. Len(file) : file'[i] = file[i]
      /\ file'[Len(file')] = [event |-> r, part |-> part]
      /\ DOMAIN file = 1 .. Len(file) /\ DOMAIN file' = 1 .. Len(file')
  BY <1>1, <1>2
<1>4. DOMAIN file' = DOMAIN file \cup {Len(file')} /\ Len(file') \notin DOMAIN file
  BY <1>3
<1>5. \A q \in Request : q # r => Begins(q)' = Begins(q)
  BY <1>3, <1>4 DEF Begins
<1>6. part = "rest" => Begins(r)' = Begins(r)
  BY <1>3, <1>4 DEF Begins
<1>7. part # "rest" => Begins(r)' = Begins(r) \cup {Len(file')}
  BY <1>3, <1>4 DEF Begins
<1> QED
  BY <1>3, <1>5, <1>6, <1>7

\* Who appends is the one in the file.
LEMMA WhoAppends ==
  ASSUME TypeOK, NEW r \in Request, RequestStep(r)
  PROVE  \/ UNCHANGED file
         \/ /\ pc[r] \in {"opened", "rest"}
            /\ \E part \in {"line", "start", "rest"} : AppendPiece(r, part)
  BY DEF RequestStep, Update, Leave, Lock, Step, FileStep, PostStep, Publish, Answer,
         Encode, EncodeCancelled, Open, Write, WriteStart, WriteRest, FileError, Post,
         PostCancelled, PostAccepted, PostError, Deliver, Goto

\* What is in the file stays there, and what an error excuses it excuses for
\* ever.
LEMMA LinesStay ==
  ASSUME TypeOK, NEW r \in Request, RequestStep(r)
  PROVE  /\ Len(file) \in Nat /\ DOMAIN file = 1 .. Len(file)
         /\ Len(file') \in Nat /\ DOMAIN file' = 1 .. Len(file')
         /\ Len(file) <= Len(file') /\ \A i \in DOMAIN file : file'[i] = file[i]
         /\ \A q \in Request : q # r => Begins(q)' = Begins(q)
         /\ \A i \in DOMAIN file : Torn(i) => Torn(i)'
         /\ \A i \in DOMAIN file : StartsLine(i) => StartsLine(i)'
         /\ \A i \in DOMAIN file, q \in Request : LineAt(i, q) => LineAt(i, q)'
<1>1. file \in Seq(Piece) /\ Len(file) \in Nat /\ DOMAIN file = 1 .. Len(file)
  BY DEF TypeOK
<1>2. /\ file' \in Seq(Piece) /\ Len(file) <= Len(file')
      /\ \A i \in DOMAIN file : file'[i] = file[i]
      /\ \A q \in Request : q # r => Begins(q)' = Begins(q)
  <2>1. CASE UNCHANGED file
    BY <1>1, <2>1 DEF Begins
  <2>2. ASSUME NEW part \in {"line", "start", "rest"}, AppendPiece(r, part)
        PROVE  /\ file' \in Seq(Piece) /\ Len(file) <= Len(file')
               /\ \A i \in DOMAIN file : file'[i] = file[i]
               /\ \A q \in Request : q # r => Begins(q)' = Begins(q)
    <3>1. /\ Len(file') = Len(file) + 1 /\ file' \in Seq(Piece)
          /\ \A i \in 1 .. Len(file) : file'[i] = file[i]
          /\ \A q \in Request : q # r => Begins(q)' = Begins(q)
      BY <2>2, AppendEffect
    <3> QED
      BY <1>1, <3>1
  <2> QED
    BY <2>1, <2>2, WhoAppends
<1>3. Len(file') \in Nat /\ DOMAIN file' = 1 .. Len(file')
  BY <1>2
<1>4. \A i \in DOMAIN file : file[i].event \in Request
  <2>1. \A i \in DOMAIN file : file[i] \in Piece
    BY <1>1
  <2> QED
    BY <2>1 DEF Piece
<1>5. \A i \in DOMAIN file : Torn(i) => Torn(i)'
  BY <1>2, <1>4, Others DEF Torn
<1>6. \A i \in DOMAIN file : i # 1 => i - 1 \in DOMAIN file
  BY <1>1
<1>7. \A i \in DOMAIN file : StartsLine(i) => StartsLine(i)'
  BY <1>2, <1>5, <1>6 DEF StartsLine
<1>8. \A i \in DOMAIN file, q \in Request : LineAt(i, q) => LineAt(i, q)'
  <2> SUFFICES ASSUME NEW i \in DOMAIN file, NEW q \in Request, LineAt(i, q)
               PROVE  LineAt(i, q)'
    OBVIOUS
  <2>1. StartsLine(i)
    BY DEF LineAt, StartsLine
  <2>2. StartsLine(i)'
    BY <1>7, <2>1
  <2>3. i < Len(file) => i + 1 \in DOMAIN file /\ i < Len(file')
    BY <1>1, <1>2, <1>3
  <2> QED
    BY <1>2, <2>2, <2>3 DEF LineAt, StartsLine
<1> QED
  BY <1>1, <1>2, <1>3, <1>5, <1>7, <1>8

-----------------------------------------------------------------------------
(* The initial states, and the steps keep the types.                       *)

LEMMA InitIInv == Init => IInv
<1> SUFFICES ASSUME Init PROVE IInv
  OBVIOUS
<1>1. TypeOK
  BY AuditAssumption DEF Init, TypeOK, PC, InFile
<1>2. \A r \in Request : Begins(r) = {} /\ wire[r] = "none"
  BY DEF Init, Begins
<1>3. \A r \in Request, k \in {"file", "url"} : ~Past(r, k)
  BY DEF Init, Past
<1>4. PlaceInv
  BY <1>1, Receivers DEF Init, PlaceInv, PlaceOK, Published, InFile
<1>5. LinesInv /\ WireInv
  BY <1>2, <1>3 DEF Init, LinesInv, LinesOK, WireInv, WireOK
<1>6. LastInv
  BY DEF Init, LastInv
<1>7. AuditedHappened
  BY <1>2 DEF AuditedHappened
<1> QED
  BY <1>1, <1>4, <1>5, <1>6, <1>7 DEF IInv

\* The place of a request, and who has the mutex.
LockOK == \A r \in Request : mu = r <=> pc[r] \in InFile

LEMMA PlacesAndLock ==
  ASSUME TypeOK, NEW r \in Request, RequestStep(r)
  PROVE  pc' \in [Request -> PC] /\ mu' \in Request \cup {None} /\ LockOK'
<1> USE DEF TypeOK, InFile
<1>1. CASE Update(r)
  BY <1>1 DEF Update, Goto, LockOK, PC
<1>2. CASE Leave(r) \/ Deliver(r)
  BY <1>2 DEF Leave, Deliver, LockOK
<1>3. CASE Publish(r) \/ Answer(r) \/ Encode(r) \/ Post(r)
  BY <1>3 DEF Publish, Answer, Encode, Post, Goto, LockOK, PC
<1>4. CASE Lock(r)
  BY <1>4, AuditAssumption DEF Lock, LockFree, Goto, LockOK, PC
<1>5. CASE Open(r) \/ WriteStart(r)
  BY <1>5 DEF Open, WriteStart, Goto, LockOK, PC
<1>6. CASE EncodeCancelled(r) \/ PostCancelled(r) \/ PostAccepted(r) \/ PostError(r)
  BY <1>6 DEF EncodeCancelled, PostCancelled, PostAccepted, PostError, Return, LockOK, PC
<1>7. CASE Write(r) \/ WriteRest(r) \/ FileError(r)
  BY <1>7, AuditAssumption DEF Write, WriteRest, FileError, Return, LockOK, PC
<1> QED
  BY <1>1, <1>2, <1>3, <1>4, <1>5, <1>6, <1>7 DEF RequestStep, Step, FileStep, PostStep

LEMMA TypeNext ==
  ASSUME TypeOK, PlaceInv, NEW r \in Request, RequestStep(r)
  PROVE  TypeOK'
<1>1. UNCHANGED receivers
  BY Others
<1>2. file' \in Seq(Piece)
  <2>1. file \in Seq(Piece)
    BY DEF TypeOK
  <2> QED
    BY <2>1, WhoAppends, AppendEffect
<1>3. /\ route' \in [Request -> Routes \cup {"none"}]
      /\ gone' \in [Request -> BOOLEAN]
      /\ status' \in [Request -> {0, 200, 400}]
      /\ wire' \in [Request -> {"none", "sent", "received"}]
      /\ applied' \in [Request -> BOOLEAN]
  <2>1. CASE Update(r)
    BY <2>1 DEF TypeOK, Update
  <2>2. CASE Leave(r)
    BY <2>2 DEF TypeOK, Leave, requestVars
  <2>5. CASE Answer(r)
    BY <2>5 DEF TypeOK, Answer
  <2>3. CASE Post(r) \/ Deliver(r)
    BY <2>3 DEF TypeOK, Post, Deliver, requestVars
  <2>4. CASE UNCHANGED <<requestVars, gone, wire>>
    BY <2>4 DEF TypeOK, requestVars
  <2> QED
    BY <2>1, <2>2, <2>3, <2>4, <2>5
       DEF RequestStep, Lock, Step, FileStep, PostStep, Publish, Encode, EncodeCancelled,
           Open, Write, WriteStart, WriteRest, FileError, PostCancelled, PostAccepted,
           PostError, Return, requestVars
<1>4. at' \in [Request -> 1 .. 3] /\ errs' \in [Request -> SUBSET {"file", "url"}]
  <2>1. CASE UNCHANGED <<at, errs>>
    BY <2>1 DEF TypeOK
  <2>2. ASSUME NEW failed \in SUBSET {"file", "url"}, Return(r, failed),
               pc[r] \notin {"new", "next", "done"}
        PROVE  at' \in [Request -> 1 .. 3] /\ errs' \in [Request -> SUBSET {"file", "url"}]
    <3>1. at'[r] \in 1 .. 3
      BY <2>2, ReturnEffect
    <3>2. at' = [at EXCEPT ![r] = @ + 1] /\ errs' = [errs EXCEPT ![r] = @ \cup failed]
      BY <2>2 DEF Return
    <3>3. at \in [Request -> 1 .. 3] /\ errs \in [Request -> SUBSET {"file", "url"}]
      BY DEF TypeOK
    <3> QED
      BY <3>1, <3>2, <3>3
  <2>3. CASE EncodeCancelled(r) \/ FileError(r)
    BY <2>2, <2>3 DEF EncodeCancelled, FileError, InFile
  <2>4. CASE Write(r) \/ WriteRest(r) \/ PostAccepted(r)
    BY <2>2, <2>4 DEF Write, WriteRest, PostAccepted
  <2>5. CASE PostCancelled(r) \/ PostError(r)
    BY <2>2, <2>5 DEF PostCancelled, PostError
  <2> QED
    BY <2>1, <2>3, <2>4, <2>5
       DEF RequestStep, Update, Leave, Lock, Step, FileStep, PostStep, Publish, Answer,
           Encode, Open, WriteStart, Post, Deliver
<1> QED
  BY <1>1, <1>2, <1>3, <1>4, PlacesAndLock DEF TypeOK, LockOK

-----------------------------------------------------------------------------
(* The place of a request.                                                 *)

LEMMA PlaceNext ==
  ASSUME TypeOK, PlaceInv, NEW r \in Request, RequestStep(r)
  PROVE  PlaceInv'
<1>1. UNCHANGED receivers
  BY Others
<1>2. ASSUME NEW q \in Request, q # r
      PROVE  PlaceOK(q)'
  <2>1. /\ pc'[q] = pc[q] /\ at'[q] = at[q]
        /\ status'[q] = status[q] /\ applied'[q] = applied[q] /\ route'[q] = route[q]
    BY <1>2, Others
  <2>2. PlaceOK(q)
    BY DEF PlaceInv
  <2> QED
    BY <1>1, <2>1, <2>2 DEF PlaceOK, Published, InFile
<1>3. PlaceOK(r)'
  <2>1. PlaceOK(r)
    BY DEF PlaceInv
  <2>2. at[r] \in 1 .. 3 /\ Len(receivers) \in 0 .. 2
    BY Receivers DEF TypeOK
  <2>3. CASE Update(r)
    <3>1. PICK rt \in Routes, known \in BOOLEAN, err \in BOOLEAN :
            /\ rt # "/updates" => known
            /\ err => known
            /\ Goto(r, "new", IF Audits(rt, known, err) THEN "next" ELSE "done")
            /\ route' = [route EXCEPT ![r] = rt]
            /\ applied' = [applied EXCEPT ![r] = known]
            /\ status' = [status EXCEPT ![r] =
                 IF rt = "/updates" /\ err THEN 400
                 ELSE IF Audits(rt, known, err) THEN 0 ELSE 200]
            /\ UNCHANGED <<receivers, at, gone, errs, mu, file, wire>>
      BY <2>3, Zenon DEF Update
    <3>2. /\ pc[r] = "new"
          /\ pc'[r] = IF Audits(rt, known, err) THEN "next" ELSE "done"
          /\ route'[r] = rt /\ applied'[r] = known /\ at'[r] = at[r]
          /\ status'[r] = IF rt = "/updates" /\ err THEN 400
                          ELSE IF Audits(rt, known, err) THEN 0 ELSE 200
      BY <3>1 DEF Goto, TypeOK
    <3>3. at'[r] <= Len(receivers') + 1
      BY <1>1, <2>1, <3>2 DEF PlaceOK
    <3>4. pc'[r] \in {"next", "done"}
      BY <3>2
    <3>5. pc'[r] = "next" => applied'[r] /\ status'[r] = 0
      BY <3>1, <3>2 DEF Audits
    <3>6. ~Published(r)'
      BY <3>1, <3>2 DEF Audits, Published, Routes
    <3> QED
      BY <3>3, <3>4, <3>5, <3>6 DEF PlaceOK, InFile
  <2>4. CASE Leave(r) \/ Deliver(r)
    BY <1>1, <2>1, <2>4 DEF Leave, Deliver, PlaceOK, Published, requestVars
  <2>5. CASE Publish(r)
    <3>1. /\ pc[r] = "next" /\ at[r] <= Len(receivers)
          /\ pc'[r] = IF receivers[at[r]] = "file" THEN "file" ELSE "post"
          /\ UNCHANGED <<route, status, applied, at>>
      BY <2>5 DEF Publish, MoreReceivers, Goto, TypeOK, requestVars
    <3>2. receivers[at[r]] \in {"file", "url"}
      BY <2>2, <3>1, Receivers
    <3> QED
      BY <1>1, <2>1, <3>1, <3>2 DEF PlaceOK, Published, InFile
  <2>6. CASE Answer(r)
    <3>1. /\ pc[r] = "next" /\ ~(at[r] <= Len(receivers)) /\ pc'[r] = "done"
          /\ UNCHANGED at
      BY <2>6 DEF Answer, MoreReceivers, Goto, TypeOK
    <3>2. at[r] = Len(receivers) + 1
      BY <2>1, <2>2, <3>1 DEF PlaceOK
    <3> QED
      BY <1>1, <2>2, <3>1, <3>2 DEF PlaceOK, InFile
  <2>7. CASE Encode(r) \/ Lock(r) \/ Open(r) \/ WriteStart(r) \/ Post(r)
    BY <1>1, <2>1, <2>7 DEF Encode, Lock, Open, WriteStart, Post, Goto, PlaceOK, Published,
                            InFile, TypeOK, requestVars
  <2>8. ASSUME NEW failed, Return(r, failed), pc[r] \notin {"new", "next", "done"}
        PROVE  PlaceOK(r)'
    <3>1. /\ pc'[r] = "next" /\ at'[r] <= Len(receivers) + 1
          /\ UNCHANGED <<receivers, status, applied>>
      BY <2>8, ReturnEffect
    <3> QED
      BY <2>1, <2>8, <3>1 DEF PlaceOK, Published, InFile
  <2>9. CASE EncodeCancelled(r) \/ FileError(r)
    BY <2>8, <2>9 DEF EncodeCancelled, FileError, InFile
  <2>10. CASE Write(r) \/ WriteRest(r) \/ PostAccepted(r)
    BY <2>8, <2>10 DEF Write, WriteRest, PostAccepted
  <2>11. CASE PostCancelled(r) \/ PostError(r)
    BY <2>8, <2>11 DEF PostCancelled, PostError
  <2> QED
    BY <2>3, <2>4, <2>5, <2>6, <2>7, <2>9, <2>10, <2>11
       DEF RequestStep, Step, FileStep, PostStep
<1> QED
  BY <1>2, <1>3 DEF PlaceInv

-----------------------------------------------------------------------------
(* The lines of the file.                                                  *)

\* Where a request is in the file, and what it has been through.
LEMMA FileSteps ==
  ASSUME TypeOK, PlaceInv, NEW r \in Request, RequestStep(r)
  PROVE  \/ /\ UNCHANGED file /\ "rest" \notin {pc[r], pc'[r]}
            /\ Past(r, "file")' <=> Past(r, "file")
            /\ "file" \in errs'[r] <=> "file" \in errs[r]
         \/ /\ UNCHANGED <<file, pc, at, errs>>
         \/ /\ UNCHANGED file /\ "file" \in errs'[r] /\ pc'[r] = "next"
            /\ pc[r] \in {"file"} \cup InFile /\ Past(r, "file")'
         \/ /\ pc[r] = "opened" /\ AppendPiece(r, "line")
            /\ pc'[r] = "next" /\ Past(r, "file")'
         \/ /\ pc[r] = "opened" /\ AppendPiece(r, "start")
            /\ pc'[r] = "rest" /\ ~Past(r, "file")'
         \/ /\ pc[r] = "rest" /\ AppendPiece(r, "rest")
            /\ pc'[r] = "next" /\ Past(r, "file")'
<1>1. UNCHANGED receivers
  BY Others
<1>2. UNCHANGED at => (Past(r, "file")' <=> Past(r, "file"))
  BY <1>1 DEF Past
<1>3. CASE Update(r)
  BY <1>2, <1>3 DEF Update, Goto, TypeOK
<1>4. CASE Publish(r) \/ Answer(r) \/ Encode(r) \/ Lock(r) \/ Open(r) \/ Post(r)
  BY <1>2, <1>4 DEF Publish, Answer, Encode, Lock, Open, Post, Goto, TypeOK
<1>5. CASE Leave(r) \/ Deliver(r)
  BY <1>5 DEF Leave, Deliver
<1>6. CASE EncodeCancelled(r) \/ FileError(r)
  <2>1. /\ pc[r] \in {"file"} \cup InFile /\ Return(r, {"file"}) /\ UNCHANGED file
        /\ receivers[at[r]] = "file"
    BY <1>6 DEF EncodeCancelled, FileError, PlaceInv, PlaceOK
  <2>2. pc[r] \notin {"new", "next", "done"}
    BY <2>1 DEF InFile
  <2> QED
    BY <2>1, <2>2, ReturnEffect
<1>7. CASE Write(r) \/ WriteRest(r)
  <2>1. /\ pc[r] \in {"opened", "rest"} /\ Return(r, {}) /\ receivers[at[r]] = "file"
    BY <1>7 DEF Write, WriteRest, PlaceInv, PlaceOK, InFile
  <2>2. pc'[r] = "next" /\ Past(r, "file")'
    BY <2>1, ReturnEffect
  <2> QED
    BY <1>7, <2>2 DEF Write, WriteRest
<1>8. CASE WriteStart(r)
  <2>1. pc[r] = "opened" /\ pc'[r] = "rest" /\ UNCHANGED at /\ AppendPiece(r, "start")
    BY <1>8 DEF WriteStart, Goto, TypeOK
  <2>2. ~Past(r, "file")
    BY <2>1, InTurn DEF InFile
  <2> QED
    BY <1>2, <2>1, <2>2
<1>9. CASE PostCancelled(r) \/ PostAccepted(r) \/ PostError(r)
  <2>1. PICK failed \in {{}, {"url"}} : Return(r, failed)
    BY <1>9 DEF PostCancelled, PostAccepted, PostError
  <2>2. pc[r] \in {"post", "answer"} /\ receivers[at[r]] = "url" /\ UNCHANGED file
    BY <1>9 DEF PostCancelled, PostAccepted, PostError, PlaceInv, PlaceOK
  <2>3. pc[r] \notin {"new", "next", "done"}
    BY <2>2
  <2>4. /\ pc'[r] = "next" /\ errs'[r] = errs[r] \cup failed
        /\ Past(r, "file")' <=> Past(r, "file") \/ receivers[at[r]] = "file"
    BY <2>1, <2>3, ReturnEffect
  <2>5. "file" \in errs'[r] <=> "file" \in errs[r]
    BY <2>1, <2>4
  <2> QED
    BY <2>2, <2>4, <2>5
<1> QED
  BY <1>3, <1>4, <1>5, <1>6, <1>7, <1>8, <1>9 DEF RequestStep, Step, FileStep, PostStep

LEMMA LinesNext ==
  ASSUME TypeOK, PlaceInv, LinesInv, LastInv, NEW r \in Request, RequestStep(r)
  PROVE  LinesInv' /\ LastInv'
<1>1. /\ Len(file) \in Nat /\ DOMAIN file = 1 .. Len(file)
      /\ Len(file') \in Nat /\ DOMAIN file' = 1 .. Len(file')
      /\ Len(file) <= Len(file') /\ \A i \in DOMAIN file : file'[i] = file[i]
      /\ \A q \in Request : q # r => Begins(q)' = Begins(q)
      /\ \A i \in DOMAIN file : Torn(i) => Torn(i)'
      /\ \A i \in DOMAIN file : StartsLine(i) => StartsLine(i)'
      /\ \A i \in DOMAIN file, q \in Request : LineAt(i, q) => LineAt(i, q)'
  BY LinesStay
<1>2. \A q \in Request : Begins(q) \subseteq DOMAIN file
  BY DEF Begins
<1>3. UNCHANGED file => Begins(r)' = Begins(r)
  BY DEF Begins
<1>4. \A q \in Request : q # r /\ pc[q] = "rest" => UNCHANGED file
  BY WhoAppends DEF TypeOK, InFile
<1>7. /\ file # <<>> <=> Len(file) \in DOMAIN file
      /\ \A i \in DOMAIN file : file[i].event \in Request
  <2>1. file \in Seq(Piece)
    BY DEF TypeOK
  <2>2. \A i \in DOMAIN file : file[i] \in Piece
    BY <2>1
  <2>3. file # <<>> <=> Len(file) \in DOMAIN file
    BY <2>1
  <2> QED
    BY <2>2, <2>3 DEF Piece
<1>5. ASSUME NEW q \in Request, q # r
      PROVE  LinesOK(q)'
  <2>1. /\ pc'[q] = pc[q] /\ at'[q] = at[q] /\ errs'[q] = errs[q]
        /\ UNCHANGED receivers
    BY <1>5, Others
  <2>2. Past(q, "file")' = Past(q, "file")
    BY <2>1, SamePast
  <2>3. LinesOK(q)
    BY DEF LinesInv
  <2>4. pc[q] = "rest" => Len(file) \in DOMAIN file /\ UNCHANGED file
    BY <1>2, <1>4, <1>5, <2>3 DEF LinesOK
  <2> QED
    BY <1>1, <1>5, <2>1, <2>2, <2>3, <2>4 DEF LinesOK
<1>6. LinesOK(r) /\ LinesOK(r)' /\ LastInv'
  <2>1. LinesOK(r)
    BY DEF LinesInv
  \* The file stays as it is, and so does a write under way.
  <2>2. CASE /\ UNCHANGED file /\ "rest" \notin {pc[r], pc'[r]}
             /\ Past(r, "file")' <=> Past(r, "file")
             /\ "file" \in errs'[r] <=> "file" \in errs[r]
    <3>1. LinesOK(r)'
      BY <1>1, <1>3, <2>1, <2>2 DEF LinesOK
    <3>2. LastInv'
      <4> SUFFICES ASSUME file # <<>>, file[Len(file)].part = "start"
                   PROVE  Torn(Len(file))' \/ pc'[file[Len(file)].event] = "rest"
        BY <2>2 DEF LastInv
      <4>1. Len(file) \in DOMAIN file /\ file[Len(file)].event \in Request
        BY <1>7
      <4> QED
        BY <1>1, <2>2, <4>1, Others DEF LastInv
    <3> QED
      BY <2>1, <3>1, <3>2
  <2>3. CASE UNCHANGED <<file, pc, at, errs>>
    <3>1. Past(r, "file")' = Past(r, "file")
      BY <2>3, Others, SamePast
    <3>2. pc[r] = "rest" => Len(file) \in DOMAIN file
      BY <1>2, <2>1 DEF LinesOK
    <3>3. LinesOK(r)'
      BY <1>1, <1>3, <2>1, <2>3, <3>1, <3>2 DEF LinesOK
    <3>4. LastInv'
      BY <2>3 DEF LastInv, Torn
    <3> QED
      BY <2>1, <3>3, <3>4
  \* An error in the file: what is there of the line is a torn one.
  <2>4. CASE /\ UNCHANGED file /\ "file" \in errs'[r] /\ pc'[r] = "next"
             /\ pc[r] \in {"file"} \cup InFile /\ Past(r, "file")'
    <3>1. LinesOK(r)'
      BY <2>4 DEF LinesOK
    <3>2. LastInv'
      <4> SUFFICES ASSUME file # <<>>, file[Len(file)].part = "start"
                   PROVE  Torn(Len(file))' \/ pc'[file[Len(file)].event] = "rest"
        BY <2>4 DEF LastInv
      <4>1. Len(file) \in DOMAIN file /\ file[Len(file)].event \in Request
        BY <1>7
      <4>2. CASE file[Len(file)].event = r
        BY <2>4, <4>2 DEF Torn
      <4>3. CASE file[Len(file)].event # r
        BY <1>1, <2>4, <4>1, <4>3, Others DEF LastInv
      <4> QED
        BY <4>2, <4>3
    <3> QED
      BY <2>1, <3>1, <3>2
  \* Nobody else is in the middle of a line when this one writes.
  <2>5. pc[r] = "opened" =>
          /\ Begins(r) = {}
          /\ Len(file) \in DOMAIN file /\ file[Len(file)].part = "start" =>
               Torn(Len(file))
    <3> SUFFICES ASSUME pc[r] = "opened"
                 PROVE  /\ Begins(r) = {}
                        /\ Len(file) \in DOMAIN file /\ file[Len(file)].part = "start" =>
                             Torn(Len(file))
      OBVIOUS
    <3>1. Begins(r) = {}
      BY <2>1, InTurn DEF LinesOK, InFile
    <3>2. \A q \in Request : pc[q] # "rest"
      BY DEF TypeOK, InFile
    <3>3. Len(file) \in DOMAIN file => file[Len(file)].event \in Request /\ file # <<>>
      BY <1>7
    <3> QED
      BY <3>1, <3>2, <3>3 DEF LastInv
  <2>6. ASSUME NEW part \in {"line", "start"}, AppendPiece(r, part), pc[r] = "opened"
        PROVE  /\ Begins(r)' = {Len(file')} /\ Len(file') \in DOMAIN file'
               /\ file'[Len(file')] = [event |-> r, part |-> part]
               /\ StartsLine(Len(file))'
    <3>1. /\ Len(file') = Len(file) + 1
          /\ file'[Len(file')] = [event |-> r, part |-> part]
          /\ Begins(r)' = Begins(r) \cup {Len(file')}
      BY <2>6, AppendEffect
    <3>2. Begins(r)' = {Len(file')} /\ Len(file') \in DOMAIN file'
      BY <1>1, <2>5, <2>6, <3>1
    <3>3. StartsLine(Len(file))'
      <4>1. CASE Len(file) = 0
        BY <3>1, <4>1 DEF StartsLine
      <4>2. CASE Len(file) # 0
        <5>1. PICK n \in DOMAIN file : n = Len(file)
          BY <1>1, <4>2
        <5>2. Len(file') - 1 = n /\ file'[n] = file[n]
          BY <1>1, <3>1, <5>1
        <5>3. file[n].part = "start" => Torn(n)'
          BY <1>1, <2>5, <2>6, <5>1
        <5> QED
          BY <5>2, <5>3 DEF StartsLine, Torn
      <4> QED
        BY <4>1, <4>2
    <3> QED
      BY <3>1, <3>2, <3>3
  <2>7. CASE /\ pc[r] = "opened" /\ AppendPiece(r, "line")
             /\ pc'[r] = "next" /\ Past(r, "file")'
    <3>1. /\ Begins(r)' = {Len(file')} /\ Len(file') \in DOMAIN file'
          /\ file'[Len(file')] = [event |-> r, part |-> "line"]
          /\ StartsLine(Len(file))'
      BY <2>6, <2>7
    <3>2. LineAt(Len(file), r)'
      BY <3>1 DEF LineAt, StartsLine
    <3> QED
      BY <2>1, <2>7, <3>1, <3>2 DEF LinesOK, LastInv
  <2>8. CASE /\ pc[r] = "opened" /\ AppendPiece(r, "start")
             /\ pc'[r] = "rest" /\ ~Past(r, "file")'
    <3>1. /\ Begins(r)' = {Len(file')} /\ Len(file') \in DOMAIN file'
          /\ file'[Len(file')] = [event |-> r, part |-> "start"]
          /\ StartsLine(Len(file))'
      BY <2>6, <2>8
    <3> QED
      BY <2>1, <2>8, <3>1 DEF LinesOK, LastInv
  <2>9. CASE /\ pc[r] = "rest" /\ AppendPiece(r, "rest")
             /\ pc'[r] = "next" /\ Past(r, "file")'
    <3>1. /\ Len(file') = Len(file) + 1
          /\ file'[Len(file')] = [event |-> r, part |-> "rest"]
          /\ Begins(r)' = Begins(r)
      BY <2>9, AppendEffect
    <3>2. PICK n \in DOMAIN file : n = Len(file) /\ Begins(r) = {n} /\ StartsLine(n)
      BY <1>2, <2>1, <2>9 DEF LinesOK
    <3>3. StartsLine(n)' /\ n \in DOMAIN file' /\ n < Len(file')
      BY <1>1, <3>1, <3>2
    <3>4. file'[n + 1] = [event |-> r, part |-> "rest"]
      BY <3>1, <3>2
    <3>5. LineAt(n, r)'
      BY <3>3, <3>4 DEF LineAt, StartsLine
    <3>6. LinesOK(r)'
      BY <2>9, <3>1, <3>2, <3>3, <3>5 DEF LinesOK
    <3>7. LastInv'
      BY <3>1 DEF LastInv
    <3> QED
      BY <2>1, <3>6, <3>7
  <2> QED
    BY <2>2, <2>3, <2>4, <2>7, <2>8, <2>9, FileSteps
<1> QED
  BY <1>5, <1>6 DEF LinesInv

-----------------------------------------------------------------------------
(* The wire, and what the log tells.                                       *)

LEMMA WireNext ==
  ASSUME TypeOK, PlaceInv, WireInv, NEW r \in Request, RequestStep(r)
  PROVE  WireInv'
<1>1. UNCHANGED receivers
  BY Others
<1>2. ASSUME NEW q \in Request, q # r
      PROVE  WireOK(q)'
  <2>1. /\ pc'[q] = pc[q] /\ at'[q] = at[q] /\ errs'[q] = errs[q]
        /\ wire'[q] = wire[q] /\ gone'[q] = gone[q]
    BY <1>2, Others
  <2>2. Past(q, "url")' = Past(q, "url")
    BY <1>1, <2>1, SamePast
  <2> QED
    BY <2>1, <2>2 DEF WireInv, WireOK
<1>3. WireOK(r)'
  <2>1. WireOK(r)
    BY DEF WireInv
  <2>2. UNCHANGED at => (Past(r, "url")' <=> Past(r, "url"))
    BY <1>1 DEF Past
  <2>3. CASE Update(r)
    BY <2>1, <2>2, <2>3 DEF Update, Goto, WireOK, TypeOK
  <2>4. CASE Leave(r)
    BY <2>1, <2>2, <2>4 DEF Leave, WireOK, TypeOK
  <2>5. CASE Deliver(r)
    BY <2>1, <2>2, <2>5 DEF Deliver, WireOK, TypeOK
  <2>6. CASE Publish(r) \/ Answer(r) \/ Encode(r) \/ Lock(r) \/ Open(r) \/ WriteStart(r)
    BY <2>1, <2>2, <2>6 DEF Publish, Answer, Encode, Lock, Open, WriteStart, Goto, WireOK,
                            TypeOK
  <2>7. CASE Post(r)
    <3>1. pc[r] = "post" /\ pc'[r] = "answer" /\ wire'[r] = "sent" /\ UNCHANGED at
      BY <2>7 DEF Post, Goto, TypeOK
    <3>2. ~Past(r, "url")
      BY <3>1, InTurn
    <3> QED
      BY <2>2, <3>1, <3>2 DEF WireOK
  <2>8. CASE EncodeCancelled(r) \/ FileError(r) \/ Write(r) \/ WriteRest(r)
    <3>1. PICK failed \in {{}, {"file"}} : Return(r, failed)
      BY <2>8 DEF EncodeCancelled, FileError, Write, WriteRest
    <3>2. pc[r] \in {"file", "lock"} \cup InFile /\ UNCHANGED wire
      BY <2>8 DEF EncodeCancelled, FileError, Write, WriteRest, InFile
    <3>3. receivers[at[r]] = "file" /\ pc[r] \notin {"new", "next", "done", "answer"}
      BY <3>2 DEF PlaceInv, PlaceOK, InFile
    <3>4. /\ pc'[r] = "next" /\ errs'[r] = errs[r] \cup failed /\ UNCHANGED gone
          /\ Past(r, "url")' <=> Past(r, "url")
      BY <3>1, <3>3, ReturnEffect
    <3>5. "url" \in errs'[r] <=> "url" \in errs[r]
      BY <3>1, <3>4
    <3> QED
      BY <2>1, <3>2, <3>3, <3>4, <3>5 DEF WireOK
  <2>9. CASE PostCancelled(r) \/ PostAccepted(r) \/ PostError(r)
    <3>1. PICK failed \in {{}, {"url"}} :
            /\ Return(r, failed)
            /\ failed = {} => wire[r] = "received"
      BY <2>9 DEF PostCancelled, PostAccepted, PostError
    <3>2. /\ pc[r] \in {"post", "answer"} /\ UNCHANGED wire
          /\ wire[r] = "none" => gone[r]
      BY <2>1, <2>9 DEF PostCancelled, PostAccepted, PostError, WireOK
    <3>3. receivers[at[r]] = "url" /\ pc[r] \notin {"new", "next", "done"}
      BY <3>2 DEF PlaceInv, PlaceOK
    <3>4. /\ pc'[r] = "next" /\ errs'[r] = errs[r] \cup failed /\ UNCHANGED gone
          /\ Past(r, "url")'
      BY <3>1, <3>3, ReturnEffect
    <3> QED
      BY <3>1, <3>2, <3>4 DEF WireOK
  <2> QED
    BY <2>3, <2>4, <2>5, <2>6, <2>7, <2>8, <2>9 DEF RequestStep, Step, FileStep, PostStep
<1> QED
  BY <1>2, <1>3 DEF WireInv

\* Only a request that is applied and not refused comes to a receiver.
LEMMA HappenedNext ==
  ASSUME TypeOK, PlaceInv, LinesInv, WireInv, AuditedHappened,
         NEW r \in Request, RequestStep(r)
  PROVE  AuditedHappened'
<1>1. ASSUME NEW q \in Request, q # r
      PROVE  (Begins(q) # {} \/ wire[q] # "none" => applied[q] /\ status[q] # 400)'
  <2>1. Begins(q)' = Begins(q)
    BY <1>1, LinesStay
  <2>2. wire'[q] = wire[q] /\ applied'[q] = applied[q] /\ status'[q] = status[q]
    BY <1>1, Others
  <2> QED
    BY <2>1, <2>2 DEF AuditedHappened
<1>2. (Begins(r) # {} \/ wire[r] # "none" => applied[r] /\ status[r] # 400)'
  <2>1. UNCHANGED file => Begins(r)' = Begins(r)
    BY DEF Begins
  <2>2. CASE Update(r)
    <3>1. pc[r] = "new" /\ UNCHANGED <<file, wire>>
      BY <2>2 DEF Update, Goto
    <3>2. Begins(r) = {} /\ wire[r] = "none"
      BY <3>1, InTurn DEF LinesInv, LinesOK, WireInv, WireOK
    <3> QED
      BY <2>1, <3>1, <3>2
  <2>3. CASE Answer(r)
    <3>1. /\ pc[r] = "next" /\ UNCHANGED applied /\ status'[r] = 200
      BY <2>3 DEF Answer, Goto, TypeOK
    <3> QED
      BY <3>1 DEF PlaceInv, PlaceOK
  <2>4. CASE Leave(r) \/ Deliver(r)
    <3>1. UNCHANGED <<applied, status, file>> /\ (wire'[r] # "none" => wire[r] # "none")
      BY <2>4 DEF Leave, Deliver, requestVars
    <3> QED
      BY <2>1, <3>1 DEF AuditedHappened
  <2>5. CASE Lock(r) \/ Publish(r) \/ FileStep(r) \/ PostStep(r)
    <3>1. pc[r] \notin {"new", "done"} /\ UNCHANGED <<applied, status>>
      BY <2>5 DEF Lock, Publish, FileStep, PostStep, Encode, EncodeCancelled, Open, Write,
                  WriteStart, WriteRest, FileError, Post, PostCancelled, PostAccepted,
                  PostError, Goto, Return, InFile, requestVars
    <3> QED
      BY <3>1 DEF PlaceInv, PlaceOK
  <2> QED
    BY <2>2, <2>3, <2>4, <2>5 DEF RequestStep, Step
<1> QED
  BY <1>1, <1>2 DEF AuditedHappened

-----------------------------------------------------------------------------
(* The theorems.                                                           *)

\* The invariant holds in every reachable state of the audit log.
THEOREM Invariance == Spec => []IInv
<1>1. IInv /\ [Next]_vars => IInv'
  <2>1. ASSUME IInv, NEW r \in Request, RequestStep(r)
        PROVE  IInv'
    BY <2>1, TypeNext, PlaceNext, LinesNext, WireNext, HappenedNext DEF IInv
  <2>2. Next => \E r \in Request : RequestStep(r)
    BY DEF Next, RequestStep
  <2>3. ASSUME IInv, UNCHANGED vars
        PROVE  IInv'
    <3>1. TypeOK' /\ PlaceInv'
      BY <2>3 DEF IInv, TypeOK, PlaceInv, PlaceOK, Published, InFile, vars
    <3>2. LinesInv' /\ LastInv'
      <4>1. UNCHANGED <<receivers, pc, at, errs, file>>
        BY <2>3 DEF vars
      <4>2. \A r \in Request : Begins(r)' = Begins(r) /\ Past(r, "file")' = Past(r, "file")
        BY <4>1 DEF Begins, Past
      <4>3. \A i \in DOMAIN file : /\ StartsLine(i)' = StartsLine(i)
                                   /\ \A r \in Request : LineAt(i, r)' = LineAt(i, r)
        BY <4>1 DEF StartsLine, LineAt, Torn
      <4>4. ASSUME NEW r \in Request
            PROVE  LinesOK(r)'
        <5>1. LinesOK(r)
          BY <2>3 DEF IInv, LinesInv
        <5>2. pc[r] = "rest" => Len(file) \in DOMAIN file
          BY <5>1 DEF LinesOK, Begins
        <5> QED
          BY <4>1, <4>2, <4>3, <5>1, <5>2 DEF LinesOK
      <4>5. LastInv'
        BY <2>3, <4>1 DEF IInv, LastInv, Torn
      <4> QED
        BY <4>4, <4>5 DEF LinesInv
    <3>3. WireInv' /\ AuditedHappened'
      BY <2>3 DEF IInv, WireInv, WireOK, Past, AuditedHappened, Begins, vars
    <3> QED
      BY <3>1, <3>2, <3>3 DEF IInv
  <2> QED
    BY <2>1, <2>2, <2>3
<1> QED
  BY <1>1, InitIInv, PTL DEF Spec

\* Every variable has its type, and the mutex of the FileReceiver is held by
\* the request that works on the file, whatever error or cancellation it met.
THEOREM TypeCorrect == Spec => []TypeOK
<1>1. IInv => TypeOK
  BY DEF IInv
<1> QED
  BY <1>1, Invariance, PTL

\* The log of the FileReceiver and of the HTTPReceiver only tells of requests
\* whose metrics are in the store and that were not refused.
THEOREM LogTellsWhatHappened == Spec => []AuditedHappened
<1>1. IInv => AuditedHappened
  BY DEF IInv
<1> QED
  BY <1>1, Invariance, PTL

\* A receiver whose error Publish did not report has the event: one whole line
\* of the file, whoever else appends to it, and the POST accepted.
THEOREM EventsAreRecorded == Spec => []RecordedUnlessReported
<1>1. ASSUME IInv
      PROVE  RecordedUnlessReported
  <2> SUFFICES ASSUME NEW r \in Request, Published(r)
               PROVE  /\ "file" \in ToSet(receivers) \ errs[r] =>
                           \E i \in DOMAIN file : Begins(r) = {i} /\ LineAt(i, r)
                      /\ "url" \in ToSet(receivers) \ errs[r] => wire[r] = "received"
                      /\ "url" \in ToSet(receivers) /\ wire[r] = "none" => gone[r]
    BY DEF RecordedUnlessReported
  <2>1. TypeOK /\ PlaceOK(r) /\ LinesOK(r) /\ WireOK(r)
    BY <1>1 DEF IInv, PlaceInv, LinesInv, WireInv
  <2>2. at[r] - 1 = Len(receivers)
    BY <2>1, Receivers DEF PlaceOK
  <2>3. \A k \in ToSet(receivers) : Past(r, k)
    BY <2>1, <2>2, Receivers DEF Past
  <2> QED
    BY <2>1, <2>3 DEF LinesOK, WireOK
<1> QED
  BY <1>1, Invariance, PTL
=============================================================================
