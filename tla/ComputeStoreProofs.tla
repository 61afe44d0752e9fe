-------------------------- MODULE ComputeStoreProofs --------------------------
(***************************************************************************)
(* The safety of ComputeStore for any number of calls, names, tenants and  *)
(* page sizes, and its refinement of InstanceRegistry.                     *)
(***************************************************************************)
EXTENDS ComputeStore, FiniteSetTheorems, TLAPS

\* The lock excludes: a writer is alone. A call in a method of the store holds
\* the lock its method takes, and what it has checked stays so until it acts.
LockHeld ==
  /\ \A c \in writers : writers = {c} /\ readers = {}
  /\ \A c \in Calls :
       /\ At(c, "locked") => c \in (IF Writes(c) THEN writers ELSE readers)
       /\ At(c, "inserting") =>
            c \in writers /\ Request(c).op = "create" /\ ~Exists(Name(c))
       /\ At(c, "marking") =>
            /\ c \in writers /\ Request(c).op = "delete" /\ Exists(Name(c))
            /\ items[Name(c)] \notin Deleting

\* A call has a request from when it is sent, and a code from when it is answered.
CallSound ==
  \A c \in Calls :
    /\ ~At(c, "unsent") => Request(c) \in Requests
    /\ ~At(c, "answered") => call[c].code = 0
    /\ At(c, "answered") => call[c].code # 0

IInv == TypeOK /\ LockHeld /\ CallSound

-----------------------------------------------------------------------------
\* What a request is about.
LEMMA RequestShape ==
  ASSUME NEW r \in Requests
  PROVE  /\ r.op \in {"create", "get", "delete", "list"}
         /\ r.op # "list" => r.name \in Names
         /\ r.op = "create" => r.tenant \in Tenants
         /\ r.flaw \in Flaws
BY DEF Requests, Flaws

\* An instance is never taken for none.
LEMMA InstanceIsOne ==
  ASSUME NEW i \in Instance
  PROVE  i # NoInstance /\ i.text \in Word /\ i.length \in Word /\ i.tenant \in Tenants
BY NamesAssumption DEF Instance, NoInstance, Word

\* What a step may do to the record of one call, as far as its type goes.
LEMMA PhaseTyped ==
  ASSUME NEW k \in Call, NEW phase \in Phases
  PROVE  [k EXCEPT !.phase = phase] \in Call
BY DEF Call

\* It is answered,
LEMMA AnswerTyped ==
  ASSUME NEW k \in Call, NEW code \in Codes
  PROVE  [k EXCEPT !.phase = "answered", !.code = code] \in Call
<1>1. "answered" \in Phases
  BY DEF Phases
<1>2. QED
  BY <1>1 DEF Call

\* gets the pointers it will encode,
LEMMA PointTyped ==
  ASSUME NEW k \in Call, NEW names \in SUBSET Names
  PROVE  [k EXCEPT !.phase = "encoding", !.left = names] \in Call
<1>1. "encoding" \in Phases
  BY DEF Phases
<1>2. QED
  BY <1>1 DEF Call

\* is sent,
LEMMA SendTyped ==
  ASSUME NEW k \in Call, NEW r \in Requests
  PROVE  [k EXCEPT !.phase = "sent", !.request = r] \in Call
BY DEF Call, Phases

\* has read a word of a status,
LEMMA HalfTyped ==
  ASSUME NEW k \in Call, NEW h \in Read
  PROVE  [k EXCEPT !.half = h] \in Call
BY DEF Call

\* or both of them.
LEMMA WholeTyped ==
  ASSUME NEW k \in Call, NEW h \in Read
  PROVE  [k EXCEPT !.half = Unread, !.left = @ \ {h.name}, !.body = @ \cup {h}] \in Call
<1>1. Unread \in Read
  BY DEF Unread, Read
<1>2. k.left \ {h.name} \in SUBSET Names /\ k.body \cup {h} \in SUBSET Read
  BY DEF Call
<1>3. QED
  BY <1>1, <1>2 DEF Call

-----------------------------------------------------------------------------
\* The initial states satisfy the inductive invariant.
LEMMA InitIInv == Init => IInv
<1> SUFFICES ASSUME Init PROVE IInv
  OBVIOUS
<1>1. NoCall \in Call
  BY DEF NoCall, Call, Phases, Codes, Read, Unread
<1>2. TypeOK
  BY <1>1 DEF Init, TypeOK
<1>3. LockHeld /\ CallSound
  BY DEF Init, LockHeld, CallSound, At, NoCall
<1>4. QED
  BY <1>2, <1>3 DEF IInv

-----------------------------------------------------------------------------
\* A step of one call that only this call's record, and its own place in the
\* lock, are touched by, and items only when it is the writer.
Step(c, k) ==
  /\ call' = [call EXCEPT ![c] = k]
  /\ writers' \ {c} = writers \ {c} /\ readers' \ {c} = readers \ {c}
  /\ items' = items \/ c \in writers
  /\ frontEnd' = frontEnd

\* What such a step leaves to be shown of the call itself.
StepSound(c, k) ==
  /\ \A d \in writers' : writers' = {d} /\ readers' = {}
  /\ k.phase = "locked" => c \in (IF k.request.op \in {"create", "delete"} THEN writers' ELSE readers')
  /\ k.phase = "inserting" =>
       c \in writers' /\ k.request.op = "create" /\ items'[k.request.name] = NoInstance
  /\ k.phase = "marking" =>
       /\ c \in writers' /\ k.request.op = "delete"
       /\ items'[k.request.name] # NoInstance /\ items'[k.request.name] \notin Deleting
  /\ k.phase # "unsent" => k.request \in Requests
  /\ k.phase # "answered" => k.code = 0
  /\ k.phase = "answered" => k.code # 0

\* The other calls keep their records.
LEMMA OneCall ==
  ASSUME TypeOK, NEW c \in Calls, NEW k \in Call, call' = [call EXCEPT ![c] = k]
  PROVE  /\ call' \in [Calls -> Call]
         /\ call'[c] = k
         /\ \A d \in Calls : d # c => call'[d] = call[d]
BY DEF TypeOK

\* While a call is the writer, no other is past the lock.
LEMMA WriterAlone ==
  ASSUME IInv, NEW c \in Calls, c \in writers, NEW d \in Calls, d # c
  PROVE  ~At(d, "locked") /\ ~At(d, "inserting") /\ ~At(d, "marking")
BY DEF IInv, LockHeld

\* The inductive step, once for all actions.
LEMMA StepKeeps ==
  ASSUME IInv, NEW c \in Calls, NEW k \in Call, Step(c, k), StepSound(c, k)
  PROVE  LockHeld' /\ CallSound'
<1>1. /\ call'[c] = k
      /\ \A d \in Calls : d # c => call'[d] = call[d]
  BY OneCall DEF Step, IInv
<1>2. LockHeld'
  <2>1. \A d \in writers' : writers' = {d} /\ readers' = {}
    BY DEF StepSound
  <2>2. ASSUME NEW d \in Calls
        PROVE  /\ At(d, "locked")' => d \in (IF Writes(d)' THEN writers' ELSE readers')
               /\ At(d, "inserting")' =>
                    d \in writers' /\ Request(d).op' = "create" /\ ~Exists(Name(d))'
               /\ At(d, "marking")' =>
                    /\ d \in writers' /\ Request(d).op' = "delete" /\ Exists(Name(d))'
                    /\ items'[Name(d)'] \notin Deleting
    <3>1. CASE d = c
      BY <3>1, <1>1 DEF StepSound, At, Writes, Request, Name, Exists
    <3>2. CASE d # c /\ items' = items
      <4>1. call'[d] = call[d]
        BY <3>2, <1>1
      <4>2. (d \in writers' <=> d \in writers) /\ (d \in readers' <=> d \in readers)
        BY <3>2 DEF Step
      <4>3. QED
        BY <4>1, <4>2, <3>2 DEF IInv, LockHeld, At, Writes, Request, Name, Exists
    <3>3. CASE d # c /\ c \in writers
      BY <3>3, <1>1, WriterAlone DEF At
    <3>4. QED
      BY <3>1, <3>2, <3>3 DEF Step
  <2>3. QED
    BY <2>1, <2>2 DEF LockHeld
<1>3. CallSound'
  <2> SUFFICES ASSUME NEW d \in Calls
               PROVE  /\ ~At(d, "unsent")' => Request(d)' \in Requests
                      /\ ~At(d, "answered")' => call'[d].code = 0
                      /\ At(d, "answered")' => call'[d].code # 0
    BY DEF CallSound, At, Request
  <2>1. CASE d = c
    BY <2>1, <1>1 DEF StepSound, At, Request
  <2>2. CASE d # c
    BY <2>2, <1>1 DEF IInv, CallSound, At, Request
  <2>3. QED
    BY <2>1, <2>2
<1>4. QED
  BY <1>2, <1>3

\* Types are kept by such a step.
LEMMA StepTyped ==
  ASSUME IInv, NEW c \in Calls, NEW k \in Call, Step(c, k),
         items' \in [Names -> Instance \cup {NoInstance}],
         earlier' \in [Calls -> SUBSET Calls]
  PROVE  TypeOK'
<1>1. call' \in [Calls -> Call]
  BY OneCall DEF Step, IInv
<1>2. writers' \subseteq Calls /\ readers' \subseteq Calls
  BY DEF Step, IInv, TypeOK
<1>3. frontEnd' \in FrontEnds
  BY DEF Step, IInv, TypeOK
<1>4. QED
  BY <1>1, <1>2, <1>3 DEF TypeOK

\* The invariant after a step that leaves the instances alone.
LEMMA QuietStep ==
  ASSUME IInv, NEW c \in Calls, NEW k \in Call, Step(c, k), StepSound(c, k),
         items' = items, earlier' = earlier
  PROVE  IInv'
<1>1. TypeOK'
  BY StepTyped DEF IInv, TypeOK
<1>2. QED
  BY <1>1, StepKeeps DEF IInv

\* The record a call has, and the record a step of its own gives it.
Answering(c, code) == [call[c] EXCEPT !.phase = "answered", !.code = code]
Going(c, phase) == [call[c] EXCEPT !.phase = phase]

\* A call's request, once it is sent.
LEMMA Sent ==
  ASSUME IInv, NEW c \in Calls, ~At(c, "unsent")
  PROVE  /\ Request(c) \in Requests
         /\ Request(c).op \in {"create", "get", "delete", "list"}
         /\ Request(c).op # "list" => Name(c) \in Names
         /\ Request(c).op = "create" => Request(c).tenant \in Tenants
         /\ call[c] \in Call
<1>1. Request(c) \in Requests /\ call[c] \in Call
  BY DEF IInv, CallSound, TypeOK
<1>2. QED
  BY <1>1, RequestShape DEF Name

\* A call that answers and gives its place in the lock up keeps the invariant.
LEMMA AnswerKeeps ==
  ASSUME IInv, NEW c \in Calls, NEW code \in Codes, code # 0, ~At(c, "unsent"),
         Answer(c, code), Unlock(c) \/ KeepLock,
         items' = items, earlier' = earlier, frontEnd' = frontEnd
  PROVE  IInv'
<1>1. Answering(c, code) \in Call
  BY Sent, AnswerTyped DEF Answering
<1>2. Step(c, Answering(c, code))
  BY DEF Step, Answering, Answer, Unlock, KeepLock
<1>3. /\ Answering(c, code).phase = "answered"
      /\ Answering(c, code).code = code
      /\ Answering(c, code).request = Request(c)
  BY Sent DEF Answering, Request, Call
<1>4. \A d \in writers' : writers' = {d} /\ readers' = {}
  BY DEF IInv, LockHeld, Unlock, KeepLock
<1>5. StepSound(c, Answering(c, code))
  BY <1>3, <1>4, Sent DEF StepSound
<1>6. QED
  BY <1>1, <1>2, <1>5, QuietStep

\* A call that points to instances has read-locked and releases the lock.
LEMMA PointKeeps ==
  ASSUME IInv, NEW c \in Calls, NEW names \in SUBSET Names, At(c, "locked"), Point(c, names)
  PROVE  IInv'
<1> DEFINE k == [call[c] EXCEPT !.phase = "encoding", !.left = names]
<1>1. ~At(c, "unsent") /\ ~At(c, "answered")
  BY DEF At
<1>2. k \in Call
  BY <1>1, Sent, PointTyped
<1>3. k.phase = "encoding" /\ k.code = call[c].code /\ k.request = Request(c)
  BY <1>1, Sent DEF Request, Call
<1>4. Step(c, k)
  BY DEF Step, Point, Unlock
<1>5. \A d \in writers' : writers' = {d} /\ readers' = {}
  BY DEF IInv, LockHeld, Point, Unlock
<1>6. StepSound(c, k)
  BY <1>1, <1>3, <1>5, Sent DEF StepSound, IInv, CallSound
<1> HIDE DEF k
<1>7. QED
  BY <1>2, <1>4, <1>6, QuietStep DEF Point

\* A call that has found what it looks for, and keeps the lock to change it.
LEMMA GoKeeps ==
  ASSUME IInv, NEW c \in Calls, CreateFree(c) \/ DeleteFound(c)
  PROVE  IInv'
<1> DEFINE phase == IF CreateFree(c) THEN "inserting" ELSE "marking"
<1> DEFINE k == Going(c, phase)
<1>1. In(c, "create") \/ In(c, "delete")
  BY DEF CreateFree, DeleteFound
<1>2. ~At(c, "unsent") /\ ~At(c, "answered") /\ c \in writers
  BY <1>1 DEF IInv, LockHeld, In, At, Writes
<1>3. phase \in Phases /\ k \in Call
  BY <1>2, Sent, PhaseTyped DEF Phases, Going
<1>4. k.phase = phase /\ k.code = 0 /\ k.request = Request(c)
  BY <1>2, Sent DEF Request, Call, Going, IInv, CallSound
<1>5. CreateFree(c) <=> Request(c).op = "create"
  BY <1>1 DEF CreateFree, DeleteFound, In
<1>6. Goto(c, phase)
  BY DEF CreateFree, DeleteFound, In
<1>7. Step(c, k)
  BY <1>6 DEF Step, Going, Goto, CreateFree, DeleteFound, KeepLock
<1>8. \A d \in writers' : writers' = {d} /\ readers' = {}
  BY DEF IInv, LockHeld, CreateFree, DeleteFound, KeepLock
<1>9. StepSound(c, k)
  <2>1. c \in writers' /\ items' = items
    BY <1>2 DEF CreateFree, DeleteFound, KeepLock
  <2>2. CASE CreateFree(c)
    BY <2>1, <2>2, <1>2, <1>4, <1>8, Sent DEF StepSound, CreateFree, In, Exists, Name, Request
  <2>3. CASE ~CreateFree(c)
    <3>1. Name(c) \in Names /\ items[Name(c)].text = "provisioning" /\ Request(c).op = "delete"
      BY <2>3, <1>2, Sent DEF DeleteFound, In
    <3>2. items[Name(c)] # NoInstance /\ items[Name(c)] \notin Deleting
      BY <3>1 DEF NoInstance, Deleting
    <3>3. QED
      BY <2>1, <2>3, <3>1, <3>2, <1>2, <1>4, <1>8, Sent DEF StepSound, Name, Request
  <2>4. QED
    BY <2>2, <2>3
<1> HIDE DEF k
<1>10. QED
  BY <1>3, <1>7, <1>9, QuietStep DEF CreateFree, DeleteFound

\* Encoding touches the call's record only.
LEMMA EncodeKeeps ==
  ASSUME IInv, NEW c \in Calls, Encode(c)
  PROVE  /\ IInv'
         /\ At(c, "encoding")' /\ call'[c].code = 0 /\ Request(c)' = Request(c)
         /\ \A d \in Calls : d # c => call'[d] = call[d]
<1>1. ~At(c, "unsent") /\ ~At(c, "answered") /\ call[c] \in Call
  BY Sent DEF Encode, At
<1>2. PICK n \in call[c].left, w \in {"text", "length"} :
        call' = Encoded(c, [call[c].half EXCEPT !.name = n, ![w] = items[n][w]])
  BY DEF Encode
<1> DEFINE h == [call[c].half EXCEPT !.name = n, ![w] = items[n][w]]
<1>3. h \in Read
  <2>1. call[c].half \in Read /\ n \in Names
    BY <1>1 DEF Call
  <2>2. items[n] \in Instance \/ items[n] = NoInstance
    BY <2>1 DEF IInv, TypeOK
  <2>3. items[n].text \in Word \cup {"none"} /\ items[n].length \in Word \cup {"none"}
    BY <2>2 DEF Instance, NoInstance
  <2>4. QED
    BY <2>1, <2>3 DEF Read
<1> HIDE DEF h
<1> DEFINE k == IF "none" \in {h.text, h.length} THEN [call[c] EXCEPT !.half = h]
                ELSE [call[c] EXCEPT !.half = Unread, !.left = @ \ {h.name}, !.body = @ \cup {h}]
<1>4. k \in Call
  BY <1>1, <1>3, HalfTyped, WholeTyped
<1>5. k.phase = "encoding" /\ k.code = 0 /\ k.request = Request(c)
  BY <1>1 DEF Call, Request, Encode, At, IInv, CallSound
<1>6. call' = [call EXCEPT ![c] = k]
  BY <1>2 DEF Encoded, h
<1>7. Step(c, k)
  BY <1>6 DEF Step, Encode, KeepLock
<1>8. \A d \in writers' : writers' = {d} /\ readers' = {}
  BY DEF IInv, LockHeld, Encode, KeepLock
<1>9. StepSound(c, k)
  BY <1>1, <1>5, <1>8, Sent DEF StepSound
<1> HIDE DEF k
<1>10. call'[c] = k /\ \A d \in Calls : d # c => call'[d] = call[d]
  BY <1>4, <1>6, OneCall DEF IInv
<1>11. QED
  BY <1>4, <1>5, <1>7, <1>9, <1>10, QuietStep DEF Encode, At, Request

\* A goroutine that gets the lock.
LEMMA LockKeeps ==
  ASSUME IInv, NEW c \in Calls, Lock(c)
  PROVE  IInv'
<1> DEFINE k == Going(c, "locked")
<1>1. ~At(c, "unsent") /\ ~At(c, "answered")
  BY DEF Lock, At
<1>2. k \in Call
  BY <1>1, Sent, PhaseTyped DEF Phases, Going
<1>3. k.phase = "locked" /\ k.code = 0 /\ k.request = Request(c)
  BY <1>1, Sent DEF Request, Call, Going, IInv, CallSound
<1>4. Step(c, k)
  BY DEF Step, Going, Goto, Lock
<1>5. \A d \in writers' : writers' = {d} /\ readers' = {}
  BY DEF Lock
<1>6. StepSound(c, k)
  BY <1>1, <1>3, <1>5, Sent DEF StepSound, Lock, Writes
<1> HIDE DEF k
<1>7. QED
  BY <1>2, <1>4, <1>6, QuietStep DEF Lock

\* A client's request.
LEMMA SendKeeps ==
  ASSUME IInv, NEW c \in Calls, Send(c)
  PROVE  IInv'
<1>1. PICK r \in Wanted[c] : call' = [call EXCEPT ![c].phase = "sent", ![c].request = r]
  BY DEF Send
<1>2. r \in Requests /\ call[c] \in Call
  BY WantedAssumption DEF IInv, TypeOK
<1> DEFINE k == [call[c] EXCEPT !.phase = "sent", !.request = r]
<1>3. k \in Call
  BY <1>2, SendTyped
<1>4. k.phase = "sent" /\ k.code = 0 /\ k.request = r
  BY <1>2 DEF Call, Send, IInv, CallSound, At
<1>5. Step(c, k)
  BY <1>1 DEF Step, Send
<1>6. \A d \in writers' : writers' = {d} /\ readers' = {}
  BY DEF IInv, LockHeld, Send
<1>7. StepSound(c, k)
  BY <1>2, <1>4, <1>6 DEF StepSound
<1>8. items' \in [Names -> Instance \cup {NoInstance}] /\ earlier' \in [Calls -> SUBSET Calls]
  <2>1. {d \in Calls : At(d, "answered")} \in SUBSET Calls
    OBVIOUS
  <2>2. QED
    BY <2>1 DEF Send, IInv, TypeOK
<1> HIDE DEF k
<1>9. QED
  BY <1>3, <1>5, <1>7, <1>8, StepTyped, StepKeeps DEF IInv

\* The instance that is put into the map.
LEMMA InsertKeeps ==
  ASSUME IInv, NEW c \in Calls, Insert(c)
  PROVE  /\ IInv'
         /\ Name(c) \in Names /\ items[Name(c)] = NoInstance
         /\ NewInstance(c) \in Instance
         /\ items'[Name(c)] = NewInstance(c)
         /\ \A n \in Names : n # Name(c) => items'[n] = items[n]
<1>1. /\ ~At(c, "unsent") /\ c \in writers /\ Request(c).op = "create"
      /\ items[Name(c)] = NoInstance
  BY DEF IInv, LockHeld, Insert, At, Exists
<1>2. Name(c) \in Names /\ NewInstance(c) \in Instance
  BY <1>1, Sent DEF NewInstance, Instance, Word
<1>3. /\ items' \in [Names -> Instance \cup {NoInstance}]
      /\ items'[Name(c)] = NewInstance(c)
      /\ \A n \in Names : n # Name(c) => items'[n] = items[n]
  BY <1>2 DEF Insert, IInv, TypeOK
<1> DEFINE k == Answering(c, 202)
<1>4. k \in Call /\ k.phase = "answered" /\ k.code = 202 /\ k.request = Request(c)
  <2>1. 202 \in Codes
    BY DEF Codes
  <2>2. k \in Call
    BY <1>1, <2>1, Sent, AnswerTyped DEF Answering
  <2>3. QED
    BY <1>1, <2>2, Sent DEF Answering, Request, Call
<1>5. Step(c, k)
  BY <1>1 DEF Step, Answering, Answer, Unlock, Insert
<1>6. \A d \in writers' : writers' = {d} /\ readers' = {}
  BY DEF IInv, LockHeld, Unlock, Insert
<1>7. StepSound(c, k)
  BY <1>1, <1>4, <1>6, Sent DEF StepSound
<1>8. earlier' \in [Calls -> SUBSET Calls]
  BY DEF Insert, IInv, TypeOK
<1> HIDE DEF k
<1>9. QED
  BY <1>1, <1>2, <1>3, <1>4, <1>5, <1>7, <1>8, StepTyped, StepKeeps DEF IInv

\* One word of a status is written: the instance stays one of the same tenant.
LEMMA MarkKeeps ==
  ASSUME IInv, NEW c \in Calls, Mark(c)
  PROVE  /\ IInv'
         /\ Name(c) \in Names /\ items[Name(c)] \in Instance \ Deleting
         /\ items'[Name(c)] \in Instance
         /\ items'[Name(c)].tenant = items[Name(c)].tenant
         /\ \A n \in Names : n # Name(c) => items'[n] = items[n]
<1>1. /\ ~At(c, "unsent") /\ ~At(c, "answered") /\ c \in writers
      /\ Request(c).op = "delete" /\ items[Name(c)] # NoInstance
      /\ items[Name(c)] \notin Deleting
  BY DEF IInv, LockHeld, Mark, At, Exists
<1>2. Name(c) \in Names /\ items[Name(c)] \in Instance
  BY <1>1, Sent DEF IInv, TypeOK
<1>3. PICK w \in {"text", "length"} : items' = [items EXCEPT ![Name(c)][w] = "deleting"]
  BY DEF Mark
<1>4. /\ items'[Name(c)] = [items[Name(c)] EXCEPT ![w] = "deleting"]
      /\ \A n \in Names : n # Name(c) => items'[n] = items[n]
  BY <1>2, <1>3 DEF IInv, TypeOK
<1>5. items'[Name(c)] \in Instance /\ items'[Name(c)].tenant = items[Name(c)].tenant
  BY <1>2, <1>4 DEF Instance, Word
<1>6. items' \in [Names -> Instance \cup {NoInstance}]
  BY <1>2, <1>3, <1>4, <1>5 DEF IInv, TypeOK
<1>7. \A d \in writers' : writers' = {d} /\ readers' = {}
  BY DEF IInv, LockHeld, Unlock, KeepLock, Mark
<1>8. earlier' \in [Calls -> SUBSET Calls]
  BY DEF Mark, IInv, TypeOK
<1> DEFINE k == IF items'[Name(c)] \in Deleting THEN Answering(c, 204) ELSE call[c]
<1>9. /\ k \in Call /\ k.request = Request(c)
      /\ IF items'[Name(c)] \in Deleting THEN k.phase = "answered" /\ k.code = 204
                                         ELSE k.phase = "marking" /\ k.code = 0
  <2>1. 204 \in Codes
    BY DEF Codes
  <2>2. k \in Call
    BY <1>1, <2>1, Sent, AnswerTyped DEF Answering
  <2>3. call[c].phase = "marking" /\ call[c].code = 0
    BY <1>1 DEF Mark, At, IInv, CallSound
  <2>4. QED
    BY <1>1, <2>2, <2>3, Sent DEF Answering, Request, Call
<1>10. Step(c, k)
  <2>1. call' = [call EXCEPT ![c] = k]
    BY DEF Mark, Answer, Answering, IInv, TypeOK
  <2>2. QED
    BY <1>1, <2>1 DEF Step, Unlock, KeepLock, Mark
<1>11. StepSound(c, k)
  <2>1. items'[Name(c)] # NoInstance
    BY <1>5, InstanceIsOne
  <2>2. items'[Name(c)] \notin Deleting => c \in writers'
    BY <1>1 DEF Mark, KeepLock
  <2>3. QED
    BY <1>1, <1>7, <1>9, <2>1, <2>2, Sent DEF StepSound, Name, Request
<1> HIDE DEF k
<1>12. QED
  BY <1>2, <1>1, <1>4, <1>5, <1>6, <1>8, <1>9, <1>10, <1>11, StepTyped, StepKeeps DEF IInv

\* Every action keeps the invariant.
LEMMA NextIInv == IInv /\ [Next]_vars => IInv'
<1> SUFFICES ASSUME IInv, [Next]_vars PROVE IInv'
  OBVIOUS
<1>1. CASE UNCHANGED vars
  BY <1>1 DEF vars, IInv, TypeOK, LockHeld, CallSound, At, Request, Name, Exists, Writes
<1>2. ASSUME NEW c \in Calls, Send(c) PROVE IInv'
  BY <1>2, SendKeeps
<1>3. ASSUME NEW c \in Calls, Serve(c) PROVE IInv'
  <2>1. 200 \in Codes /\ 400 \in Codes /\ 404 \in Codes /\ 409 \in Codes
    BY DEF Codes
  <2>2. CASE Refuse(c)
    BY <2>1, <2>2, AnswerKeeps DEF Refuse, At, KeepLock
  <2>3. CASE Lock(c)
    BY <2>3, LockKeeps
  <2>4. CASE CreateTaken(c)
    BY <2>1, <2>4, AnswerKeeps DEF CreateTaken, In, At
  <2>5. CASE CreateFree(c) \/ DeleteFound(c)
    BY <2>5, GoKeeps
  <2>6. CASE Insert(c)
    BY <2>6, InsertKeeps
  <2>7. CASE Missing(c)
    BY <2>1, <2>7, AnswerKeeps DEF Missing, In, At
  <2>8. CASE DeleteTwice(c)
    BY <2>1, <2>8, AnswerKeeps DEF DeleteTwice, In, At
  <2>9. CASE Mark(c)
    BY <2>9, MarkKeeps
  <2>10. CASE GetFound(c)
    <3>1. ~At(c, "unsent") /\ Request(c).op = "get" /\ At(c, "locked")
      BY <2>10 DEF GetFound, In, At
    <3>2. {Name(c)} \in SUBSET Names
      BY <3>1, Sent
    <3>3. QED
      BY <2>10, <3>1, <3>2, PointKeeps DEF GetFound
  <2>11. CASE List(c)
    <3>1. PICK names \in SUBSET Owned(Request(c).tenant) : Point(c, names)
      BY <2>11 DEF List
    <3>2. names \in SUBSET Names
      BY DEF Owned
    <3>3. QED
      BY <2>11, <3>1, <3>2, PointKeeps DEF List, In
  <2>12. CASE Encode(c)
    BY <2>12, EncodeKeeps
  <2>13. CASE Respond(c)
    BY <2>1, <2>13, AnswerKeeps DEF Respond, At, KeepLock
  <2>14. QED
    BY <1>3, <2>2, <2>3, <2>4, <2>5, <2>6, <2>7, <2>8, <2>9, <2>10, <2>11, <2>12,
       <2>13 DEF Serve
<1>4. QED
  BY <1>1, <1>2, <1>3 DEF Next

\* The lock excludes at all times.
LEMMA Invariance == Spec => []IInv
BY InitIInv, NextIInv, PTL DEF Spec

-----------------------------------------------------------------------------
\* Every variable keeps its type, whatever the calls do together.
THEOREM TypeCorrect == Spec => []TypeOK
<1>1. IInv => TypeOK
  BY DEF IInv
<1>2. QED
  BY <1>1, Invariance, PTL

-----------------------------------------------------------------------------
\* The state of InstanceRegistry that a state stands for.
Stages == [n \in Names |-> Stage(n)]
Owners == [n \in Names |-> items[n].tenant]
Verdicts == [c \in Calls |-> Verdict(c)]

\* A call that is answered has the code it is given.
LEMMA Answering1 ==
  ASSUME IInv, NEW c \in Calls, NEW code \in Codes, ~At(c, "unsent"), Answer(c, code)
  PROVE  /\ At(c, "answered")' /\ call'[c].code = code /\ Request(c)' = Request(c)
         /\ call'[c].half = call[c].half /\ call'[c].body = call[c].body
         /\ \A d \in Calls : d # c => call'[d] = call[d]
<1>1. call[c] \in Call
  BY Sent
<1>2. QED
  BY <1>1 DEF Answer, At, Request, Call, IInv, TypeOK

\* A call that leaves the store with pointers is decided.
LEMMA Pointing1 ==
  ASSUME IInv, NEW c \in Calls, NEW names, At(c, "locked"), Point(c, names)
  PROVE  /\ At(c, "encoding")' /\ call'[c].code = 0 /\ Request(c)' = Request(c)
         /\ call'[c].half = call[c].half /\ call'[c].body = call[c].body
         /\ call'[c].left = names
         /\ \A d \in Calls : d # c => call'[d] = call[d]
<1>1. call[c] \in Call /\ call[c].code = 0
  BY DEF IInv, CallSound, TypeOK, At
<1>2. QED
  BY <1>1 DEF Point, At, Request, Call, IInv, TypeOK

\* The registry's verdicts change where the call's does.
LEMMA VerdictOne ==
  ASSUME IInv, NEW c \in Calls, \A d \in Calls : d # c => call'[d] = call[d]
  PROVE  Verdicts' = [Verdicts EXCEPT ![c] = Verdict(c)']
<1>1. \A d \in Calls : d # c => Verdict(d)' = Verdict(d)
  BY DEF Verdict, At, Request, Name
<1>2. QED
  BY <1>1 DEF Verdicts

\* A call decided by the store, as the registry has it.
LEMMA Decides ==
  ASSUME IInv, NEW c \in Calls, ~At(c, "encoding"), ~At(c, "answered"),
         NEW code, NEW n, Verdict(c)' = [code |-> code, name |-> n],
         \A d \in Calls : d # c => call'[d] = call[d]
  PROVE  Registry!Decide(c, code, n)
<1>1. Verdicts[c] = Registry!Undecided
  BY DEF Verdicts, Verdict, Registry!Undecided
<1>2. Verdicts' = [Verdicts EXCEPT ![c] = [code |-> code, name |-> n]]
  BY VerdictOne
<1>3. QED
  BY <1>1, <1>2 DEF Registry!Decide, Verdicts

\* The instances as the registry sees them, while none changes.
LEMMA SameItems ==
  ASSUME items' = items
  PROVE  Stages' = Stages /\ Owners' = Owners
BY DEF Stages, Owners, Stage, Exists

\* A refusal is about no name.
LEMMA RefuseMaps ==
  ASSUME IInv, NEW c \in Calls, Refuse(c)
  PROVE  Registry!Other(c)
<1>1. 400 \in Codes /\ ~At(c, "unsent") /\ ~At(c, "encoding") /\ ~At(c, "answered")
  BY DEF Codes, Refuse, At
<1>2. /\ At(c, "answered")' /\ call'[c].code = 400
      /\ \A d \in Calls : d # c => call'[d] = call[d]
  BY <1>1, Answering1 DEF Refuse
<1>3. Verdict(c)' = [code |-> 400, name |-> "none"]
  BY <1>2 DEF Verdict, At
<1>4. Registry!Decide(c, 400, "none")
  BY <1>1, <1>2, <1>3, Decides
<1>5. Stages' = Stages /\ Owners' = Owners
  BY SameItems DEF Refuse
<1>6. QED
  BY <1>4, <1>5 DEF Registry!Other, Stages, Owners

\* The calls that find a name absent, or in their way, and change nothing.
LEMMA TellMaps ==
  ASSUME IInv, NEW c \in Calls, CreateTaken(c) \/ Missing(c) \/ DeleteTwice(c)
  PROVE  Registry!Present(c, Name(c)) \/ Registry!Absent(c, Name(c))
<1> DEFINE code == IF Missing(c) THEN 404 ELSE 409
<1>1. /\ code \in Codes /\ code # 400 /\ ~At(c, "unsent") /\ ~At(c, "encoding")
      /\ ~At(c, "answered") /\ Request(c).op # "list"
  BY DEF Codes, CreateTaken, Missing, DeleteTwice, In, At
<1>2. Name(c) \in Names
  BY <1>1, Sent
<1>3. Missing(c) <=> ~Exists(Name(c))
  BY DEF CreateTaken, Missing, DeleteTwice, Exists, NoInstance
<1>4. Answer(c, code)
  BY <1>3 DEF CreateTaken, Missing, DeleteTwice, Exists, NoInstance
<1>5. /\ At(c, "answered")' /\ call'[c].code = code /\ Request(c)' = Request(c)
      /\ \A d \in Calls : d # c => call'[d] = call[d]
  BY <1>1, <1>4, Answering1
<1>6. Verdict(c)' = [code |-> code, name |-> Name(c)]
  BY <1>1, <1>5 DEF Verdict, At, Name
<1>7. Registry!Decide(c, code, Name(c))
  BY <1>1, <1>5, <1>6, Decides
<1>8. Stages' = Stages /\ Owners' = Owners
  BY SameItems DEF CreateTaken, Missing, DeleteTwice
<1>9. Stages[Name(c)] = "absent" <=> Missing(c)
  BY <1>2, <1>3 DEF Stages, Stage
<1>10. QED
  BY <1>7, <1>8, <1>9 DEF Registry!Present, Registry!Absent, Stages, Owners

\* A Get that finds its instance.
LEMMA GetMaps ==
  ASSUME IInv, NEW c \in Calls, GetFound(c)
  PROVE  Registry!Present(c, Name(c))
<1>1. /\ ~At(c, "unsent") /\ ~At(c, "encoding") /\ ~At(c, "answered") /\ At(c, "locked")
      /\ Request(c).op = "get" /\ Exists(Name(c))
  BY DEF GetFound, In, At
<1>2. Name(c) \in Names
  BY <1>1, Sent
<1>3. /\ At(c, "encoding")' /\ call'[c].code = 0 /\ Request(c)' = Request(c)
      /\ \A d \in Calls : d # c => call'[d] = call[d]
  BY <1>1, Pointing1 DEF GetFound
<1>4. Verdict(c)' = [code |-> 200, name |-> Name(c)]
  BY <1>1, <1>3 DEF Verdict, At, Name
<1>5. Registry!Decide(c, 200, Name(c))
  BY <1>1, <1>3, <1>4, Decides
<1>6. Stages' = Stages /\ Owners' = Owners
  BY SameItems DEF GetFound, Point
<1>7. Stages[Name(c)] # "absent"
  BY <1>1, <1>2 DEF Stages, Stage
<1>8. QED
  BY <1>5, <1>6, <1>7 DEF Registry!Present, Stages, Owners

\* A page is about no name.
LEMMA ListMaps ==
  ASSUME IInv, NEW c \in Calls, List(c)
  PROVE  Registry!Other(c)
<1>1. /\ ~At(c, "unsent") /\ ~At(c, "encoding") /\ ~At(c, "answered") /\ At(c, "locked")
      /\ Request(c).op = "list"
  BY DEF List, In, At
<1>2. PICK names : Point(c, names)
  BY DEF List
<1>3. /\ At(c, "encoding")' /\ call'[c].code = 0 /\ Request(c)' = Request(c)
      /\ \A d \in Calls : d # c => call'[d] = call[d]
  BY <1>1, <1>2, Pointing1
<1>4. Verdict(c)' = [code |-> 200, name |-> "none"]
  BY <1>1, <1>3 DEF Verdict, At
<1>5. Registry!Decide(c, 200, "none")
  BY <1>1, <1>3, <1>4, Decides
<1>6. Stages' = Stages /\ Owners' = Owners
  BY <1>2, SameItems DEF Point
<1>7. QED
  BY <1>5, <1>6 DEF Registry!Other, Stages, Owners

\* A creation takes effect when its instance is put into the map.
LEMMA InsertMaps ==
  ASSUME IInv, NEW c \in Calls, Insert(c)
  PROVE  \E n \in Names : Registry!Created(c, n)
<1>1. /\ ~At(c, "unsent") /\ ~At(c, "encoding") /\ ~At(c, "answered")
      /\ Request(c).op = "create"
  BY DEF Insert, At, IInv, LockHeld
<1>2. /\ Name(c) \in Names /\ items[Name(c)] = NoInstance
      /\ NewInstance(c) \in Instance
      /\ items'[Name(c)] = NewInstance(c)
      /\ \A n \in Names : n # Name(c) => items'[n] = items[n]
  BY InsertKeeps
<1>3. 202 \in Codes
  BY DEF Codes
<1>4. /\ At(c, "answered")' /\ call'[c].code = 202 /\ Request(c)' = Request(c)
      /\ \A d \in Calls : d # c => call'[d] = call[d]
  BY <1>1, <1>3, Answering1 DEF Insert
<1>5. Verdict(c)' = [code |-> 202, name |-> Name(c)]
  BY <1>1, <1>4 DEF Verdict, At, Name
<1>6. Registry!Decide(c, 202, Name(c))
  BY <1>1, <1>4, <1>5, Decides
<1>7. NewInstance(c) # NoInstance /\ NewInstance(c) \notin Deleting
  BY <1>2, InstanceIsOne DEF NewInstance, Deleting
<1>8. Stages[Name(c)] = "absent"
  BY <1>2 DEF Stages, Stage, Exists
<1>9. Stages' = [Stages EXCEPT ![Name(c)] = "provisioning"]
  BY <1>2, <1>7 DEF Stages, Stage, Exists
<1>10. Owners' = [Owners EXCEPT ![Name(c)] = Request(c).tenant]
  <2>1. items'[Name(c)].tenant = Request(c).tenant
    BY <1>2 DEF NewInstance
  <2>2. QED
    BY <1>2, <2>1 DEF Owners
<1>11. Request(c).tenant \in Tenants
  BY <1>1, Sent
<1>12. PICK n \in Names : n = Name(c)
  BY <1>2
<1>13. Registry!Created(c, n)
  BY <1>6, <1>8, <1>9, <1>10, <1>11, <1>12 DEF Registry!Created, Stages, Owners
<1>14. QED
  BY <1>13

\* A deletion takes effect with the second word it writes.
LEMMA MarkMaps ==
  ASSUME IInv, NEW c \in Calls, Mark(c)
  PROVE  Registry!Deleted(c, Name(c)) \/ UNCHANGED <<Stages, Owners, Verdicts>>
<1>1. /\ ~At(c, "unsent") /\ ~At(c, "encoding") /\ ~At(c, "answered")
      /\ Request(c).op = "delete"
  BY DEF Mark, At, IInv, LockHeld
<1>2. /\ Name(c) \in Names /\ items[Name(c)] \in Instance \ Deleting
      /\ items'[Name(c)] \in Instance
      /\ items'[Name(c)].tenant = items[Name(c)].tenant
      /\ \A n \in Names : n # Name(c) => items'[n] = items[n]
  BY MarkKeeps
<1>3. items[Name(c)] # NoInstance /\ items'[Name(c)] # NoInstance
  BY <1>2, InstanceIsOne
<1>4. Stages[Name(c)] = "provisioning"
  BY <1>2, <1>3 DEF Stages, Stage, Exists
<1>5. Owners' = Owners
  BY <1>2 DEF Owners
<1>6. CASE items'[Name(c)] \in Deleting
  <2>1. 204 \in Codes /\ Answer(c, 204)
    BY <1>6 DEF Codes, Mark
  <2>2. /\ At(c, "answered")' /\ call'[c].code = 204 /\ Request(c)' = Request(c)
        /\ \A d \in Calls : d # c => call'[d] = call[d]
    BY <1>1, <2>1, Answering1
  <2>3. Verdict(c)' = [code |-> 204, name |-> Name(c)]
    BY <1>1, <2>2 DEF Verdict, At, Name
  <2>4. Registry!Decide(c, 204, Name(c))
    BY <1>1, <2>2, <2>3, Decides
  <2>5. Stages' = [Stages EXCEPT ![Name(c)] = "deleting"]
    BY <1>2, <1>3, <1>6 DEF Stages, Stage, Exists
  <2>6. QED
    BY <1>4, <1>5, <2>4, <2>5 DEF Registry!Deleted, Stages, Owners
<1>7. CASE items'[Name(c)] \notin Deleting
  <2>1. call' = call
    BY <1>7 DEF Mark
  <2>2. Verdicts' = Verdicts
    BY <2>1 DEF Verdicts, Verdict, At, Request, Name
  <2>3. Stages' = Stages
    BY <1>2, <1>3, <1>7 DEF Stages, Stage, Exists
  <2>4. QED
    BY <1>5, <2>2, <2>3
<1>8. QED
  BY <1>6, <1>7

\* The steps a client cannot tell.
LEMMA QuietMaps ==
  ASSUME IInv, NEW c \in Calls,
         Send(c) \/ Lock(c) \/ CreateFree(c) \/ DeleteFound(c) \/ Encode(c) \/ Respond(c)
  PROVE  UNCHANGED <<Stages, Owners, Verdicts>>
<1>1. Stages' = Stages /\ Owners' = Owners
  BY SameItems DEF Send, Lock, CreateFree, DeleteFound, Encode, Respond
<1>2. call[c] \in Call
  BY DEF IInv, TypeOK
<1>3. \A d \in Calls : d # c => call'[d] = call[d]
  <2>1. CASE Encode(c)
    BY <2>1, EncodeKeeps
  <2>2. CASE ~Encode(c)
    BY <2>2 DEF Send, Lock, CreateFree, DeleteFound, Respond, Goto, Answer, IInv, TypeOK
  <2>3. QED
    BY <2>1, <2>2
<1>4. Verdict(c)' = Verdict(c)
  <2>1. CASE Send(c) \/ Lock(c) \/ CreateFree(c) \/ DeleteFound(c)
    <3>1. ~At(c, "encoding") /\ ~At(c, "answered")
      BY <2>1 DEF Send, Lock, CreateFree, DeleteFound, In, At
    <3>2. ~At(c, "encoding")' /\ ~At(c, "answered")'
      BY <2>1, <1>2 DEF Send, Lock, CreateFree, DeleteFound, Goto, At, Call, IInv, TypeOK
    <3>3. QED
      BY <3>1, <3>2 DEF Verdict
  <2>2. CASE Respond(c)
    <3>1. At(c, "encoding") /\ ~At(c, "answered") /\ ~At(c, "unsent") /\ call[c].code = 0
      BY <2>2 DEF Respond, At, IInv, CallSound
    <3>2. 200 \in Codes
      BY DEF Codes
    <3>3. At(c, "answered")' /\ call'[c].code = 200 /\ Request(c)' = Request(c)
      BY <2>2, <3>1, <3>2, Answering1 DEF Respond
    <3>4. QED
      BY <3>1, <3>3 DEF Verdict, At, Name
  <2>3. CASE Encode(c)
    <3>1. At(c, "encoding") /\ call[c].code = 0
      BY <2>3 DEF Encode, At, IInv, CallSound
    <3>2. At(c, "encoding")' /\ call'[c].code = 0 /\ Request(c)' = Request(c)
      BY <2>3, EncodeKeeps
    <3>3. QED
      BY <3>1, <3>2 DEF Verdict, At, Name
  <2>4. QED
    BY <2>1, <2>2, <2>3
<1>5. Verdicts' = Verdicts
  BY <1>3, <1>4, VerdictOne DEF Verdicts
<1>6. QED
  BY <1>1, <1>5

\* Every step is one of the registry's, or none.
LEMMA StepRegistry == IInv /\ [Next]_vars => [Registry!Next]_Registry!vars
<1> SUFFICES ASSUME IInv, [Next]_vars
             PROVE  Registry!Next \/ UNCHANGED <<Stages, Owners, Verdicts>>
  BY DEF Registry!vars, Stages, Owners, Verdicts
<1>1. CASE UNCHANGED vars
  BY <1>1 DEF vars, Stages, Stage, Exists, Owners, Verdicts, Verdict, At, Request, Name
<1>2. ASSUME NEW c \in Calls, Send(c) PROVE UNCHANGED <<Stages, Owners, Verdicts>>
  BY <1>2, QuietMaps
<1>3. ASSUME NEW c \in Calls, Serve(c)
      PROVE  Registry!Next \/ UNCHANGED <<Stages, Owners, Verdicts>>
  <2>1. CASE Refuse(c) \/ List(c)
    BY <2>1, RefuseMaps, ListMaps DEF Registry!Next
  <2>2. CASE CreateTaken(c) \/ Missing(c) \/ DeleteTwice(c) \/ GetFound(c)
    <3>1. Name(c) \in Names
      BY <2>2, Sent DEF CreateTaken, Missing, DeleteTwice, GetFound, In, At
    <3>2. QED
      BY <2>2, <3>1, TellMaps, GetMaps DEF Registry!Next
  <2>3. CASE Insert(c)
    BY <2>3, InsertMaps DEF Registry!Next
  <2>4. CASE Mark(c)
    BY <2>4, MarkMaps, MarkKeeps DEF Registry!Next
  <2>5. CASE Lock(c) \/ CreateFree(c) \/ DeleteFound(c) \/ Encode(c) \/ Respond(c)
    BY <2>5, QuietMaps
  <2>6. QED
    BY <1>3, <2>1, <2>2, <2>3, <2>4, <2>5 DEF Serve
<1>4. QED
  BY <1>1, <1>2, <1>3 DEF Next

\* An empty store is an empty registry.
LEMMA InitRegistry == Init => Registry!Init
<1> SUFFICES ASSUME Init PROVE Registry!Init
  OBVIOUS
<1>1. \A n \in Names : Stage(n) = "absent" /\ items[n].tenant = "none"
  BY DEF Init, Stage, Exists, NoInstance
<1>2. \A c \in Calls : Verdict(c) = Registry!Undecided
  BY DEF Init, Verdict, At, NoCall, Registry!Undecided
<1>3. QED
  BY <1>1, <1>2 DEF Registry!Init

\* The store under its lock implements the registry: every call takes effect at
\* one instant, however many there are.
THEOREM Refinement == Spec => ImplementsRegistry
<1>1. IInv /\ [Next]_vars => [Registry!Next]_Registry!vars
  BY StepRegistry
<1>2. QED
  BY <1>1, InitRegistry, Invariance, PTL DEF Spec, ImplementsRegistry, Registry!Spec

-----------------------------------------------------------------------------
\* What the verdicts v say of a name follows its stage in s.
Won(s, v) ==
  /\ \A c \in Calls : v[c].code = 202 => v[c].name \in Names /\ s[v[c].name] # "absent"
  /\ \A c \in Calls : v[c].code = 204 => v[c].name \in Names /\ s[v[c].name] = "deleting"
  /\ \A n \in Names : s[n] # "absent" => \E c \in Calls : v[c] = [code |-> 202, name |-> n]
  /\ \A c, d \in Calls : v[c].code \in {202, 204} /\ v[d] = v[c] => c = d

\* A call decided as neither a creation nor a deletion changes nothing of that.
LEMMA WonQuiet ==
  ASSUME NEW s, NEW v, NEW w, Won(s, v), NEW c \in Calls, v[c].code = 0,
         w[c].code \notin {202, 204}, \A d \in Calls : d # c => w[d] = v[d]
  PROVE  Won(s, w)
<1>1. \A n \in Names : s[n] # "absent" => \E d \in Calls : w[d] = [code |-> 202, name |-> n]
  <2> SUFFICES ASSUME NEW n \in Names, s[n] # "absent"
               PROVE  \E d \in Calls : w[d] = [code |-> 202, name |-> n]
    OBVIOUS
  <2>1. PICK d \in Calls : v[d] = [code |-> 202, name |-> n]
    BY DEF Won
  <2>2. d # c
    BY <2>1
  <2>3. QED
    BY <2>1, <2>2
<1>2. \A d \in Calls : w[d].code \in {202, 204} => d # c /\ w[d] = v[d]
  OBVIOUS
<1>3. QED
  BY <1>1, <1>2 DEF Won

\* A creation is the first of its name,
LEMMA WonCreated ==
  ASSUME NEW s, NEW r, NEW v, NEW w, Won(s, v), NEW c \in Calls, NEW n \in Names,
         v[c].code = 0, w[c] = [code |-> 202, name |-> n],
         s[n] = "absent", r[n] = "provisioning",
         \A d \in Calls : d # c => w[d] = v[d],
         \A m \in Names : m # n => r[m] = s[m]
  PROVE  Won(r, w)
<1>1. \A d \in Calls : v[d].code \in {202, 204} => v[d].name # n
  BY DEF Won
<1>2. \A m \in Names : r[m] # "absent" => \E d \in Calls : w[d] = [code |-> 202, name |-> m]
  <2> SUFFICES ASSUME NEW m \in Names, r[m] # "absent"
               PROVE  \E d \in Calls : w[d] = [code |-> 202, name |-> m]
    OBVIOUS
  <2>1. CASE m = n
    BY <2>1
  <2>2. CASE m # n
    <3>1. PICK d \in Calls : v[d] = [code |-> 202, name |-> m]
      BY <2>2 DEF Won
    <3>2. d # c
      BY <3>1
    <3>3. QED
      BY <3>1, <3>2
  <2>3. QED
    BY <2>1, <2>2
<1>3. \A d \in Calls : w[d].code \in {202, 204} /\ d # c =>
        w[d] = v[d] /\ w[d].name # n
  BY <1>1
<1>4. \A d, e \in Calls : w[d].code \in {202, 204} /\ w[e] = w[d] => d = e
  BY <1>3 DEF Won
<1>5. \A d \in Calls : d # c =>
        /\ w[d].code = 202 => w[d].name \in Names /\ r[w[d].name] # "absent"
        /\ w[d].code = 204 => w[d].name \in Names /\ r[w[d].name] = "deleting"
  BY <1>3 DEF Won
<1>6. QED
  BY <1>2, <1>4, <1>5 DEF Won

\* and so is a deletion.
LEMMA WonDeleted ==
  ASSUME NEW s, NEW r, NEW v, NEW w, Won(s, v), NEW c \in Calls, NEW n \in Names,
         v[c].code = 0, w[c] = [code |-> 204, name |-> n],
         s[n] = "provisioning", r[n] = "deleting",
         \A d \in Calls : d # c => w[d] = v[d],
         \A m \in Names : m # n => r[m] = s[m]
  PROVE  Won(r, w)
<1>1. \A d \in Calls : v[d].code = 204 => v[d].name # n
  BY DEF Won
<1>2. \A m \in Names : r[m] # "absent" => \E d \in Calls : w[d] = [code |-> 202, name |-> m]
  <2> SUFFICES ASSUME NEW m \in Names, r[m] # "absent"
               PROVE  \E d \in Calls : w[d] = [code |-> 202, name |-> m]
    OBVIOUS
  <2>1. s[m] # "absent"
    OBVIOUS
  <2>2. PICK d \in Calls : v[d] = [code |-> 202, name |-> m]
    BY <2>1 DEF Won
  <2>3. d # c
    BY <2>2
  <2>4. QED
    BY <2>2, <2>3
<1>3. \A d \in Calls : w[d].code = 204 /\ d # c => w[d] = v[d] /\ w[d].name # n
  BY <1>1
<1>4. \A d, e \in Calls : w[d].code \in {202, 204} /\ w[e] = w[d] => d = e
  BY <1>3 DEF Won
<1>5. \A d \in Calls : d # c =>
        /\ w[d].code = 202 => w[d].name \in Names /\ r[w[d].name] # "absent"
        /\ w[d].code = 204 => w[d].name \in Names /\ r[w[d].name] = "deleting"
  BY <1>3 DEF Won
<1>6. QED
  BY <1>2, <1>4, <1>5 DEF Won

\* What the registry's verdicts are after a decision.
LEMMA DecideOne ==
  ASSUME NEW c \in Calls, NEW code, NEW n, Registry!Decide(c, code, n)
  PROVE  /\ Verdicts[c].code = 0
         /\ Verdicts'[c] = [code |-> code, name |-> n]
         /\ \A d \in Calls : d # c => Verdicts'[d] = Verdicts[d]
<1>1. /\ Verdicts[c] = Registry!Undecided
      /\ Verdicts' = [Verdicts EXCEPT ![c] = [code |-> code, name |-> n]]
  BY DEF Registry!Decide, Verdicts
<1>2. Verdicts = [d \in Calls |-> Verdicts[d]]
  BY DEF Verdicts
<1>3. QED
  BY <1>1, <1>2 DEF Registry!Undecided

\* Every step of the registry keeps that.
LEMMA WonKept == Won(Stages, Verdicts) /\ [Registry!Next]_Registry!vars => Won(Stages, Verdicts)'
<1> SUFFICES ASSUME Won(Stages, Verdicts), [Registry!Next]_Registry!vars
             PROVE  Won(Stages', Verdicts')
  BY DEF Won
<1>1. CASE UNCHANGED Registry!vars
  <2>1. Stages' = Stages /\ Verdicts' = Verdicts
    BY <1>1 DEF Registry!vars, Stages, Verdicts
  <2>2. QED
    BY <2>1
<1>2. ASSUME NEW c \in Calls, NEW code \in {200, 400, 404, 409}, NEW n,
             Registry!Decide(c, code, n), Stages' = Stages
      PROVE  Won(Stages', Verdicts')
  <2>1. /\ Verdicts[c].code = 0 /\ Verdicts'[c] = [code |-> code, name |-> n]
        /\ \A d \in Calls : d # c => Verdicts'[d] = Verdicts[d]
    BY <1>2, DecideOne
  <2>2. Verdicts'[c].code \notin {202, 204}
    BY <2>1
  <2>3. Won(Stages, Verdicts')
    BY <2>1, <2>2, WonQuiet
  <2>4. QED
    BY <1>2, <2>3
<1>3. ASSUME NEW c \in Calls, Registry!Other(c)
      PROVE  Won(Stages', Verdicts')
  BY <1>2, <1>3 DEF Registry!Other, Stages
<1>4. ASSUME NEW c \in Calls, NEW n \in Names, Registry!Present(c, n) \/ Registry!Absent(c, n)
      PROVE  Won(Stages', Verdicts')
  BY <1>2, <1>4 DEF Registry!Present, Registry!Absent, Stages
<1>5. ASSUME NEW c \in Calls, NEW n \in Names, Registry!Created(c, n)
      PROVE  Won(Stages', Verdicts')
  <2>1. /\ Registry!Decide(c, 202, n)
        /\ Stages[n] = "absent" /\ Stages'[n] = "provisioning"
        /\ \A m \in Names : m # n => Stages'[m] = Stages[m]
    BY <1>5 DEF Registry!Created, Stages
  <2>2. /\ Verdicts[c].code = 0 /\ Verdicts'[c] = [code |-> 202, name |-> n]
        /\ \A d \in Calls : d # c => Verdicts'[d] = Verdicts[d]
    BY <2>1, DecideOne
  <2>3. QED
    BY <2>1, <2>2, WonCreated
<1>6. ASSUME NEW c \in Calls, NEW n \in Names, Registry!Deleted(c, n)
      PROVE  Won(Stages', Verdicts')
  <2>1. /\ Registry!Decide(c, 204, n)
        /\ Stages[n] = "provisioning" /\ Stages'[n] = "deleting"
        /\ \A m \in Names : m # n => Stages'[m] = Stages[m]
    BY <1>6 DEF Registry!Deleted, Stages
  <2>2. /\ Verdicts[c].code = 0 /\ Verdicts'[c] = [code |-> 204, name |-> n]
        /\ \A d \in Calls : d # c => Verdicts'[d] = Verdicts[d]
    BY <2>1, DecideOne
  <2>3. QED
    BY <2>1, <2>2, WonDeleted
<1>7. QED
  BY <1>1, <1>3, <1>4, <1>5, <1>6 DEF Registry!Next

\* Of all the calls that ever ask, one is told 202 of a name and one is told 204, and
\* what was deleted somebody had created.
THEOREM OneWinner == Spec => [](Registry!WonOnce /\ Registry!DeletedWasCreated)
<1>1. Registry!Init => Won(Stages, Verdicts)
  <2> SUFFICES ASSUME Registry!Init PROVE Won(Stages, Verdicts)
    OBVIOUS
  <2>1. /\ \A n \in Names : Stages[n] = "absent"
        /\ \A c \in Calls : Verdicts[c].code = 0
    BY DEF Registry!Init, Registry!Undecided, Stages, Verdicts
  <2>2. QED
    BY <2>1 DEF Won
<1>2. Won(Stages, Verdicts) => Registry!WonOnce /\ Registry!DeletedWasCreated
  <2> SUFFICES ASSUME Won(Stages, Verdicts) PROVE Registry!WonOnce /\ Registry!DeletedWasCreated
    OBVIOUS
  <2>1. \A c, d \in Calls :
          Verdicts[c].code \in {202, 204} /\ Verdicts[d] = Verdicts[c] => c = d
    BY DEF Won
  <2>2. \A d \in Calls : Verdicts[d].code = 204 =>
          \E c \in Calls : Verdicts[c] = [code |-> 202, name |-> Verdicts[d].name]
    BY DEF Won
  <2>3. QED
    BY <2>1, <2>2 DEF Registry!WonOnce, Registry!DeletedWasCreated, Verdicts
<1>3. QED
  BY <1>1, <1>2, WonKept, Refinement, PTL DEF ImplementsRegistry, Registry!Spec

-----------------------------------------------------------------------------
\* An instance that nobody is marking has the two words of one status.
Whole ==
  \A n \in Names : Exists(n) =>
    \/ items[n].text = items[n].length
    \/ \E d \in Calls : At(d, "marking") /\ Name(d) = n

\* What a call may be answered, by its operation; 400 is the front end's.
CodeOf(op) ==
  CASE op = "create" -> {400, 202, 409}
    [] op = "get" -> {400, 200, 404}
    [] op = "delete" -> {400, 204, 404, 409}
    [] op = "list" -> {400, 200}

\* The codes fit their operations; only reads encode, a Get what it asked for;
\* and nothing is read before.
Coded ==
  \A c \in Calls :
    /\ At(c, "answered") => call[c].code \in CodeOf(Request(c).op)
    /\ At(c, "encoding") => Request(c).op \in {"get", "list"}
    /\ ~At(c, "encoding") /\ ~At(c, "answered") => call[c].half = Unread /\ call[c].body = {}
    /\ At(c, "encoding") /\ Request(c).op = "get" => call[c].left \subseteq {Name(c)}

\* d was told that there is an instance of its name, or is being told.
Told(d) ==
  /\ At(d, "encoding") \/ (At(d, "answered") /\ call[d].code \notin {400, 404})
  /\ Request(d).op # "list"

\* What a client was told of stays, and stays wholly deleting.
Lasting ==
  \A d \in Calls : Told(d) =>
    /\ Exists(Name(d))
    /\ Request(d).op = "delete" => items[Name(d)] \in Deleting

\* What c may say and have read of an instance that d was told of before.
Follows(c, d) ==
  /\ At(c, "answered") => call[c].code \notin {202, 404}
  /\ Request(d).op = "delete" =>
       /\ At(c, "answered") => call[c].code # 204
       /\ {call[c].half.text, call[c].half.length} \subseteq {"none", "deleting"}
       /\ \A r \in call[c].body : r.text = "deleting" /\ r.length = "deleting"

Ordered ==
  \A c \in Calls : \A d \in earlier[c] :
    /\ ~At(c, "unsent") /\ At(d, "answered")
    /\ Told(d) /\ Request(c).op # "list" /\ Name(c) = Name(d) => Follows(c, d)

OInv == Whole /\ Coded /\ Lasting /\ Ordered

-----------------------------------------------------------------------------
\* At the start nobody was told of anything.
LEMMA InitOInv == Init => OInv
<1> SUFFICES ASSUME Init PROVE OInv
  OBVIOUS
<1>1. \A c \in Calls : call[c] = NoCall /\ earlier[c] = {}
  BY DEF Init
<1>2. \A n \in Names : ~Exists(n)
  BY DEF Init, Exists
<1>3. QED
  BY <1>1, <1>2 DEF OInv, Whole, Coded, Lasting, Told, Ordered, At, NoCall

\* What is true of every step of a call: it is not over, and the others wait.
LEMMA OneMoves ==
  ASSUME IInv, NEW c \in Calls, Send(c) \/ Serve(c)
  PROVE  /\ ~At(c, "answered")
         /\ \A d \in Calls : d # c => call'[d] = call[d]
<1>1. CASE Insert(c) \/ Mark(c)
  <2>1. ~At(c, "answered")
    BY <1>1 DEF Insert, Mark, At
  <2>2. QED
    BY <1>1, <2>1 DEF Insert, Mark, Answer, IInv, TypeOK
<1>2. CASE Encode(c)
  BY <1>2, EncodeKeeps DEF Encode, At
<1>3. CASE GetFound(c) \/ List(c)
  BY <1>3 DEF GetFound, List, In, At, Point, IInv, TypeOK
<1>4. CASE Send(c) \/ Lock(c) \/ CreateFree(c) \/ DeleteFound(c)
  BY <1>4 DEF Send, Lock, CreateFree, DeleteFound, In, At, Goto, IInv, TypeOK
<1>5. CASE Refuse(c) \/ CreateTaken(c) \/ Missing(c) \/ DeleteTwice(c) \/ Respond(c)
  BY <1>5 DEF Refuse, CreateTaken, Missing, DeleteTwice, Respond, In, At, Answer, IInv, TypeOK
<1>6. QED
  BY <1>1, <1>2, <1>3, <1>4, <1>5 DEF Serve

\* All steps but two leave the instances alone.
LEMMA ItemsStay ==
  ASSUME NEW c \in Calls, Send(c) \/ Serve(c), ~Insert(c), ~Mark(c)
  PROVE  items' = items
BY DEF Serve, Send, Refuse, Lock, CreateTaken, CreateFree, Missing, DeleteTwice,
   DeleteFound, GetFound, List, Point, Encode, Respond

\* No instance is forgotten, and none that is wholly deleting changes.
LEMMA ItemsGrow ==
  ASSUME IInv, NEW c \in Calls, Send(c) \/ Serve(c), NEW n \in Names, Exists(n)
  PROVE  /\ Exists(n)'
         /\ items[n] \in Deleting => items'[n] \in Deleting
<1>1. CASE Insert(c)
  BY <1>1, InsertKeeps DEF Exists
<1>2. CASE Mark(c)
  <2>1. items'[Name(c)] # NoInstance
    BY <1>2, MarkKeeps, InstanceIsOne
  <2>2. QED
    BY <1>2, <2>1, MarkKeeps DEF Exists
<1>3. CASE ~Insert(c) /\ ~Mark(c)
  BY <1>3, ItemsStay DEF Exists
<1>4. QED
  BY <1>1, <1>2, <1>3

\* An instance that nobody marks keeps being whole.
LEMMA WholeKept ==
  ASSUME IInv, Whole, NEW c \in Calls, Send(c) \/ Serve(c)
  PROVE  Whole'
<1> SUFFICES ASSUME NEW n \in Names, Exists(n)'
             PROVE  \/ items'[n].text = items'[n].length
                    \/ \E d \in Calls : At(d, "marking")' /\ Name(d)' = n
  BY DEF Whole
<1>1. CASE Insert(c)
  <2>1. CASE n = Name(c)
    <3>1. items'[Name(c)] = NewInstance(c)
      BY <1>1, InsertKeeps
    <3>2. items'[n] = NewInstance(c)
      BY <2>1, <3>1
    <3>3. QED
      BY <3>2 DEF NewInstance
  <2>2. CASE n # Name(c)
    <3>1. Exists(n) /\ items'[n] = items[n] /\ c \in writers /\ At(c, "inserting")
      BY <1>1, <2>2, InsertKeeps DEF Exists, Insert, IInv, LockHeld
    <3>2. \A d \in Calls : ~At(d, "marking")
      BY <3>1, WriterAlone DEF At
    <3>3. QED
      BY <3>1, <3>2 DEF Whole
  <2>3. QED
    BY <2>1, <2>2
<1>2. CASE Mark(c)
  <2>1. c \in writers /\ At(c, "marking")
    BY <1>2 DEF Mark, IInv, LockHeld
  <2>2. CASE n = Name(c)
    <3>1. CASE items'[n] \in Deleting
      BY <3>1 DEF Deleting
    <3>2. CASE items'[n] \notin Deleting
      <4>1. call' = call
        BY <1>2, <2>2, <3>2 DEF Mark
      <4>2. At(c, "marking")' /\ Name(c)' = n
        BY <2>1, <2>2, <4>1 DEF At, Name, Request
      <4>3. QED
        BY <4>2
    <3>3. QED
      BY <3>1, <3>2
  <2>3. CASE n # Name(c)
    <3>1. Exists(n) /\ items'[n] = items[n]
      BY <1>2, <2>3, MarkKeeps DEF Exists
    <3>2. \A d \in Calls : At(d, "marking") => d = c
      BY <2>1, WriterAlone
    <3>3. QED
      BY <2>3, <3>1, <3>2 DEF Whole
  <2>4. QED
    BY <2>2, <2>3
<1>3. CASE ~Insert(c) /\ ~Mark(c)
  <2>1. items' = items /\ Exists(n)
    BY <1>3, ItemsStay DEF Exists
  <2>2. ASSUME NEW d \in Calls, At(d, "marking")
        PROVE  At(d, "marking")' /\ Name(d)' = Name(d)
    <3>1. d # c
      BY <1>3, <2>2 DEF Send, Serve, Refuse, Lock, CreateTaken, CreateFree, Missing,
         DeleteTwice, DeleteFound, GetFound, List, Encode, Respond, In, At
    <3>2. QED
      BY <2>2, <3>1, OneMoves DEF At, Name, Request
  <2>3. QED
    BY <2>1, <2>2 DEF Whole
<1>4. QED
  BY <1>1, <1>2, <1>3

\* The codes of the answers, and what is read and when.
LEMMA CodedKept ==
  ASSUME IInv, Coded, NEW c \in Calls, Send(c) \/ Serve(c)
  PROVE  Coded'
<1> DEFINE Fits(d) ==
      /\ At(d, "answered") => call[d].code \in CodeOf(Request(d).op)
      /\ At(d, "encoding") => Request(d).op \in {"get", "list"}
      /\ ~At(d, "encoding") /\ ~At(d, "answered") => call[d].half = Unread /\ call[d].body = {}
      /\ At(d, "encoding") /\ Request(d).op = "get" => call[d].left \subseteq {Name(d)}
<1>1. \A d \in Calls : Fits(d)
  BY DEF Coded
<1>2. \A d \in Calls : d # c => Fits(d)'
  BY <1>1, OneMoves DEF At, Request, Name
<1>3. Fits(c)'
  <2>1. CASE Send(c) \/ Lock(c) \/ CreateFree(c) \/ DeleteFound(c)
    <3>1. call[c] \in Call /\ ~At(c, "encoding") /\ ~At(c, "answered")
      BY <2>1 DEF IInv, TypeOK, Send, Lock, CreateFree, DeleteFound, In, At
    <3>2. /\ call'[c].half = call[c].half /\ call'[c].body = call[c].body
          /\ ~At(c, "encoding")' /\ ~At(c, "answered")'
      BY <2>1, <3>1 DEF IInv, TypeOK, Call, Send, Lock, CreateFree, DeleteFound, Goto, At
    <3>3. QED
      BY <1>1, <3>1, <3>2
  <2>2. CASE Refuse(c)
    <3>1. ~At(c, "unsent") /\ 400 \in Codes /\ Answer(c, 400)
      BY <2>2 DEF Refuse, At, Codes
    <3>2. Request(c).op \in {"create", "get", "delete", "list"}
      BY <3>1, Sent
    <3>3. QED
      BY <3>1, <3>2, Answering1 DEF At, CodeOf
  <2>3. CASE CreateTaken(c) \/ Missing(c) \/ DeleteTwice(c)
    <3>1. PICK code \in {404, 409} : Answer(c, code) /\ code \in CodeOf(Request(c).op)
      BY <2>3 DEF CreateTaken, Missing, DeleteTwice, In, CodeOf
    <3>2. ~At(c, "unsent") /\ code \in Codes
      BY <2>3 DEF CreateTaken, Missing, DeleteTwice, In, At, Codes
    <3>3. QED
      BY <3>1, <3>2, Answering1 DEF At
  <2>4. CASE Insert(c)
    <3>1. ~At(c, "unsent") /\ 202 \in Codes /\ Answer(c, 202) /\ 202 \in CodeOf(Request(c).op)
      BY <2>4 DEF Insert, At, Codes, CodeOf, IInv, LockHeld
    <3>2. QED
      BY <3>1, Answering1 DEF At
  <2>5. CASE Mark(c)
    <3>1. /\ ~At(c, "unsent") /\ ~At(c, "encoding") /\ ~At(c, "answered")
          /\ 204 \in Codes /\ 204 \in CodeOf(Request(c).op)
      BY <2>5 DEF Mark, At, Codes, CodeOf, IInv, LockHeld
    <3>2. CASE Answer(c, 204)
      BY <3>1, <3>2, Answering1 DEF At
    <3>3. CASE UNCHANGED call
      BY <3>1, <3>3, <1>1 DEF At, Request, Name
    <3>4. QED
      BY <2>5, <3>2, <3>3 DEF Mark
  <2>6. CASE GetFound(c)
    <3>1. At(c, "locked") /\ Request(c).op = "get" /\ Point(c, {Name(c)})
      BY <2>6 DEF GetFound, In
    <3>2. QED
      BY <3>1, Pointing1 DEF At, Name
  <2>7. CASE List(c)
    <3>1. At(c, "locked") /\ Request(c).op = "list" /\ \E names : Point(c, names)
      BY <2>7 DEF List, In
    <3>2. QED
      BY <3>1, Pointing1 DEF At
  <2>8. CASE Encode(c)
    <3>1. At(c, "encoding") /\ At(c, "encoding")' /\ Request(c)' = Request(c)
      BY <2>8, EncodeKeeps DEF Encode
    <3>2. call'[c].left \subseteq call[c].left
      BY <2>8 DEF Encode, Encoded, IInv, TypeOK, Call
    <3>3. QED
      BY <1>1, <3>1, <3>2 DEF At, Name
  <2>9. CASE Respond(c)
    <3>1. ~At(c, "unsent") /\ 200 \in Codes /\ Answer(c, 200) /\ 200 \in CodeOf(Request(c).op)
      BY <2>9, <1>1 DEF Respond, At, Codes, CodeOf
    <3>2. QED
      BY <3>1, Answering1 DEF At
  <2>10. QED
    BY <2>1, <2>2, <2>3, <2>4, <2>5, <2>6, <2>7, <2>8, <2>9 DEF Serve
<1>4. \A d \in Calls : Fits(d)'
  BY <1>2, <1>3
<1> HIDE DEF Fits
<1>5. QED
  BY <1>4 DEF Coded, Fits

\* What a client was told of lasts.
LEMMA LastingKept ==
  ASSUME IInv, Whole, Coded, Lasting, NEW c \in Calls, Send(c) \/ Serve(c)
  PROVE  Lasting'
<1> SUFFICES ASSUME NEW d \in Calls, Told(d)'
             PROVE  /\ Exists(Name(d))'
                    /\ Request(d)'.op = "delete" => items'[Name(d)'] \in Deleting
  BY DEF Lasting
<1>1. ASSUME Told(d), Name(d)' = Name(d), Request(d)' = Request(d)
      PROVE  /\ Exists(Name(d))'
             /\ Request(d)'.op = "delete" => items'[Name(d)'] \in Deleting
  <2>1. ~At(d, "unsent") /\ Request(d).op # "list"
    BY <1>1 DEF Told, At
  <2>2. Name(d) \in Names /\ Exists(Name(d))
    BY <1>1, <2>1, Sent DEF Lasting
  <2>3. Exists(Name(d))'
    <3>1. items'[Name(d)] # NoInstance
      BY <2>2, ItemsGrow DEF Exists
    <3>2. QED
      BY <1>1, <3>1 DEF Exists
  <2>4. QED
    BY <1>1, <2>2, <2>3, ItemsGrow DEF Lasting
<1>2. CASE d # c
  <2>1. call'[d] = call[d]
    BY <1>2, OneMoves
  <2>2. Told(d) /\ Name(d)' = Name(d) /\ Request(d)' = Request(d)
    BY <2>1 DEF Told, At, Name, Request
  <2>3. QED
    BY <1>1, <2>2
<1>3. CASE d = c
  <2>1. CASE Send(c) \/ Lock(c) \/ CreateFree(c) \/ DeleteFound(c)
    <3>1. ~At(c, "encoding")' /\ ~At(c, "answered")'
      BY <2>1 DEF IInv, TypeOK, Call, Send, Lock, CreateFree, DeleteFound, Goto, At
    <3>2. QED
      BY <1>3, <3>1 DEF Told
  <2>2. CASE Refuse(c)
    <3>1. ~At(c, "unsent") /\ 400 \in Codes /\ Answer(c, 400)
      BY <2>2 DEF Refuse, At, Codes
    <3>2. ~Told(c)'
      BY <3>1, Answering1 DEF Told, At
    <3>3. QED
      BY <1>3, <3>2
  <2>3. CASE Missing(c)
    <3>1. ~At(c, "unsent") /\ 404 \in Codes /\ Answer(c, 404)
      BY <2>3 DEF Missing, In, At, Codes
    <3>2. ~Told(c)'
      BY <3>1, Answering1 DEF Told, At
    <3>3. QED
      BY <1>3, <3>2
  <2>4. CASE CreateTaken(c)
    <3>1. /\ ~At(c, "unsent") /\ 409 \in Codes /\ Answer(c, 409)
          /\ Request(c).op = "create" /\ Exists(Name(c)) /\ items' = items
      BY <2>4 DEF CreateTaken, In, At, Codes
    <3>2. Request(c)' = Request(c)
      BY <3>1, Answering1
    <3>3. QED
      BY <1>3, <3>1, <3>2 DEF Exists, Name
  <2>5. CASE DeleteTwice(c)
    <3>1. /\ ~At(c, "unsent") /\ 409 \in Codes /\ Answer(c, 409) /\ At(c, "locked")
          /\ Request(c).op = "delete" /\ items[Name(c)].text = "deleting" /\ items' = items
      BY <2>5 DEF DeleteTwice, In, At, Codes
    <3>2. Request(c)' = Request(c)
      BY <3>1, Answering1
    <3>3. c \in writers
      BY <3>1 DEF IInv, LockHeld, Writes
    <3>4. \A e \in Calls : ~At(e, "marking")
      BY <3>1, <3>3, WriterAlone DEF At
    <3>5. Name(c) \in Names /\ items[Name(c)] # NoInstance
      BY <3>1, Sent DEF NoInstance
    <3>6. items[Name(c)].length = "deleting" /\ items[Name(c)] \in Instance
      BY <3>1, <3>4, <3>5 DEF Whole, Exists, IInv, TypeOK
    <3>7. items[Name(c)] \in Deleting
      BY <3>1, <3>6 DEF Deleting
    <3>8. QED
      BY <1>3, <3>1, <3>2, <3>5, <3>7 DEF Exists, Name
  <2>6. CASE Insert(c)
    <3>1. /\ ~At(c, "unsent") /\ 202 \in Codes /\ Answer(c, 202) /\ Request(c).op = "create"
      BY <2>6 DEF Insert, At, Codes, IInv, LockHeld
    <3>2. Request(c)' = Request(c)
      BY <3>1, Answering1
    <3>3. items'[Name(c)] # NoInstance
      BY <2>6, InsertKeeps, InstanceIsOne
    <3>4. QED
      BY <1>3, <3>1, <3>2, <3>3 DEF Exists, Name
  <2>7. CASE Mark(c)
    <3>1. ~At(c, "unsent") /\ At(c, "marking") /\ 204 \in Codes
      BY <2>7 DEF Mark, At, Codes
    <3>2. CASE items'[Name(c)] \in Deleting
      <4>1. Request(c)' = Request(c)
        BY <2>7, <3>1, <3>2, Answering1 DEF Mark
      <4>2. items'[Name(c)] # NoInstance
        BY <2>7, MarkKeeps, InstanceIsOne
      <4>3. QED
        BY <1>3, <3>2, <4>1, <4>2 DEF Exists, Name
    <3>3. CASE items'[Name(c)] \notin Deleting
      <4>1. call' = call
        BY <2>7, <3>3 DEF Mark
      <4>2. ~Told(c)'
        BY <3>1, <4>1 DEF Told, At
      <4>3. QED
        BY <1>3, <4>2
    <3>4. QED
      BY <3>2, <3>3
  <2>8. CASE GetFound(c)
    <3>1. /\ At(c, "locked") /\ Request(c).op = "get" /\ Point(c, {Name(c)}) /\ items' = items
          /\ Exists(Name(c))
      BY <2>8 DEF GetFound, In, Point
    <3>2. Request(c)' = Request(c)
      BY <3>1, Pointing1
    <3>3. QED
      BY <1>3, <3>1, <3>2 DEF Exists, Name
  <2>9. CASE List(c)
    <3>1. At(c, "locked") /\ Request(c).op = "list" /\ \E names : Point(c, names)
      BY <2>9 DEF List, In
    <3>2. Request(c)' = Request(c)
      BY <3>1, Pointing1
    <3>3. ~Told(c)'
      BY <3>1, <3>2 DEF Told
    <3>4. QED
      BY <1>3, <3>3
  <2>10. CASE Encode(c)
    <3>1. At(c, "encoding") /\ Request(c)' = Request(c)
      BY <2>10, EncodeKeeps DEF Encode
    <3>2. Told(c) /\ Name(c)' = Name(c)
      BY <1>3, <3>1 DEF Told, Name
    <3>3. QED
      BY <1>1, <1>3, <3>1, <3>2
  <2>11. CASE Respond(c)
    <3>1. ~At(c, "unsent") /\ 200 \in Codes /\ Answer(c, 200) /\ At(c, "encoding")
      BY <2>11 DEF Respond, At, Codes
    <3>2. Request(c)' = Request(c)
      BY <3>1, Answering1
    <3>3. Told(c) /\ Name(c)' = Name(c)
      BY <1>3, <3>1, <3>2 DEF Told, Name
    <3>4. QED
      BY <1>1, <1>3, <3>2, <3>3
  <2>12. QED
    BY <2>1, <2>2, <2>3, <2>4, <2>5, <2>6, <2>7, <2>8, <2>9, <2>10, <2>11 DEF Serve
<1>4. QED
  BY <1>2, <1>3

\* The words a read takes of an instance that is wholly deleting.
LEMMA EncodeDeleting ==
  ASSUME IInv, Coded, NEW c \in Calls, Encode(c), Request(c).op = "get",
         items[Name(c)] \in Deleting,
         {call[c].half.text, call[c].half.length} \subseteq {"none", "deleting"},
         \A r \in call[c].body : r.text = "deleting" /\ r.length = "deleting"
  PROVE  /\ {call'[c].half.text, call'[c].half.length} \subseteq {"none", "deleting"}
         /\ \A r \in call'[c].body : r.text = "deleting" /\ r.length = "deleting"
<1>1. call[c] \in Call /\ At(c, "encoding")
  BY DEF Encode, IInv, TypeOK
<1>2. PICK n \in call[c].left, w \in {"text", "length"} :
        call' = Encoded(c, [call[c].half EXCEPT !.name = n, ![w] = items[n][w]])
  BY DEF Encode
<1>3. n = Name(c)
  BY <1>1, <1>2 DEF Coded
<1>4. items[n].text = "deleting" /\ items[n].length = "deleting"
  BY <1>3 DEF Deleting
<1> DEFINE h == [call[c].half EXCEPT !.name = n, ![w] = items[n][w]]
<1>5. {h.text, h.length} \subseteq {"none", "deleting"}
  BY <1>1, <1>2, <1>4 DEF Call, Read
<1> HIDE DEF h
<1>6. call' = Encoded(c, h)
  BY <1>2 DEF h
<1>7. call \in [Calls -> Call]
  BY DEF IInv, TypeOK
<1>8. CASE "none" \in {h.text, h.length}
  <2>1. call'[c].half = h /\ call'[c].body = call[c].body
    BY <1>1, <1>6, <1>7, <1>8 DEF Encoded, Call
  <2>2. QED
    BY <1>5, <2>1
<1>9. CASE "none" \notin {h.text, h.length}
  <2>1. call'[c].half = Unread /\ call'[c].body = call[c].body \cup {h}
    BY <1>1, <1>6, <1>7, <1>9 DEF Encoded, Call
  <2>2. h.text = "deleting" /\ h.length = "deleting"
    BY <1>5, <1>9
  <2>3. QED
    BY <2>1, <2>2 DEF Unread
<1>10. QED
  BY <1>8, <1>9

\* What c's own step leaves of the order with d, answered before c was sent.
LEMMA FollowsKept ==
  ASSUME IInv, OInv, NEW c \in Calls, Serve(c), NEW d \in Calls, Told(d),
         Request(c).op # "list", Name(c) = Name(d), ~At(c, "unsent"), Follows(c, d),
         Request(d)' = Request(d)
  PROVE  Follows(c, d)'
<1>1. /\ Exists(Name(c)) /\ Name(c) \in Names
      /\ Request(d).op = "delete" => items[Name(c)] \in Deleting
  BY Sent DEF OInv, Lasting
<1>2. \A code \in Codes \ {202, 404} :
        Answer(c, code) /\ (Request(d).op = "delete" => code # 204) => Follows(c, d)'
  BY Answering1 DEF Follows
<1>3. CASE Refuse(c)
  BY <1>2, <1>3 DEF Refuse, Codes
<1>4. CASE Lock(c) \/ CreateFree(c) \/ DeleteFound(c)
  <2>1. /\ call'[c].half = call[c].half /\ call'[c].body = call[c].body
        /\ ~At(c, "answered")'
    BY <1>4 DEF IInv, TypeOK, Call, Lock, CreateFree, DeleteFound, Goto, At
  <2>2. QED
    BY <2>1 DEF Follows
<1>5. CASE CreateTaken(c) \/ DeleteTwice(c)
  BY <1>2, <1>5 DEF CreateTaken, DeleteTwice, Codes
<1>6. CASE Insert(c)
  BY <1>1, <1>6 DEF Insert, IInv, LockHeld
<1>7. CASE Missing(c)
  BY <1>1, <1>7 DEF Missing
<1>8. CASE Mark(c)
  <2>1. Request(d).op # "delete" /\ ~At(c, "answered")
    BY <1>1, <1>8, MarkKeeps DEF Mark, At
  <2>2. CASE Answer(c, 204)
    BY <1>2, <2>1, <2>2 DEF Codes
  <2>3. CASE call' = call
    BY <2>1, <2>3 DEF Follows, At
  <2>4. QED
    BY <1>8, <2>2, <2>3 DEF Mark
<1>9. CASE GetFound(c) \/ List(c)
  <2>1. At(c, "locked") /\ \E names : Point(c, names)
    BY <1>9 DEF GetFound, List, In
  <2>2. /\ call'[c].half = call[c].half /\ call'[c].body = call[c].body
        /\ ~At(c, "answered")'
    BY <2>1, Pointing1 DEF At
  <2>3. QED
    BY <2>2 DEF Follows
<1>10. CASE Encode(c)
  <2>1. Request(c).op = "get" /\ ~At(c, "answered")'
    BY <1>10, EncodeKeeps DEF Encode, At, OInv, Coded
  <2>2. CASE Request(d).op = "delete"
    BY <1>1, <1>10, <2>1, <2>2, EncodeDeleting DEF Follows, OInv
  <2>3. CASE Request(d).op # "delete"
    BY <2>1, <2>3 DEF Follows
  <2>4. QED
    BY <2>2, <2>3
<1>11. CASE Respond(c)
  BY <1>2, <1>11 DEF Respond, Codes
<1>12. QED
  BY <1>3, <1>4, <1>5, <1>6, <1>7, <1>8, <1>9, <1>10, <1>11 DEF Serve

\* A call keeps its request.
LEMMA ServeRequest ==
  ASSUME IInv, NEW c \in Calls, Serve(c), ~At(c, "unsent")
  PROVE  Request(c)' = Request(c) /\ ~At(c, "unsent")'
<1>1. call[c] \in Call /\ call \in [Calls -> Call]
  BY DEF IInv, TypeOK
<1>2. CASE Encode(c)
  BY <1>2, EncodeKeeps DEF At
<1>3. CASE GetFound(c) \/ List(c)
  BY <1>1, <1>3 DEF GetFound, List, Point, At, Request, Call
<1>4. CASE Lock(c) \/ CreateFree(c) \/ DeleteFound(c)
  BY <1>1, <1>4 DEF Lock, CreateFree, DeleteFound, Goto, At, Request, Call
<1>5. CASE Refuse(c) \/ CreateTaken(c) \/ Insert(c) \/ Missing(c) \/ DeleteTwice(c) \/ Mark(c)
           \/ Respond(c)
  BY <1>1, <1>5 DEF Refuse, CreateTaken, Insert, Missing, DeleteTwice, Mark, Respond, Answer,
     At, Request, Call
<1>6. QED
  BY <1>2, <1>3, <1>4, <1>5 DEF Serve

\* The order of the answers is kept by every step.
LEMMA OrderedKept ==
  ASSUME IInv, OInv, NEW c \in Calls, Send(c) \/ Serve(c)
  PROVE  Ordered'
<1> SUFFICES ASSUME NEW b \in Calls, NEW d \in earlier'[b]
             PROVE  /\ ~At(b, "unsent")' /\ At(d, "answered")'
                    /\ Told(d)' /\ Request(b)'.op # "list" /\ Name(b)' = Name(d)' => Follows(b, d)'
  BY DEF Ordered
<1>1. ~At(c, "answered") /\ \A e \in Calls : e # c => call'[e] = call[e]
  BY OneMoves
<1>2. CASE b = c /\ Send(c)
  <2>1. d \in Calls /\ At(d, "answered")
    BY <1>2 DEF Send, IInv, TypeOK
  <2>2. call'[d] = call[d]
    BY <1>1, <2>1
  <2>3. /\ At(c, "sent")' /\ call'[c].half = call[c].half /\ call'[c].body = call[c].body
    <3>1. PICK r \in Wanted[c] : call' = [call EXCEPT ![c].phase = "sent", ![c].request = r]
      BY <1>2 DEF Send
    <3>2. call[c] \in Call /\ call \in [Calls -> Call]
      BY DEF IInv, TypeOK
    <3>3. QED
      BY <3>1, <3>2 DEF At, Call
  <2>4. call[c].half = Unread /\ call[c].body = {}
    BY <1>2 DEF Send, At, OInv, Coded
  <2>5. Follows(c, d)'
    BY <2>3, <2>4 DEF Follows, At, Unread
  <2>6. QED
    BY <1>2, <2>1, <2>2, <2>3, <2>5 DEF At
<1>3. CASE ~(b = c /\ Send(c))
  <2>1. earlier'[b] = earlier[b]
    BY <1>3 DEF Serve, Send, Refuse, Lock, CreateTaken, CreateFree, Insert, Missing,
       DeleteTwice, DeleteFound, Mark, GetFound, List, Point, Encode, Respond, IInv, TypeOK
  <2>2. d \in Calls /\ ~At(b, "unsent") /\ At(d, "answered")
    BY <2>1 DEF IInv, TypeOK, OInv, Ordered
  <2>3. d # c /\ call'[d] = call[d]
    BY <1>1, <2>2
  <2>4. Told(d)' = Told(d) /\ Name(d)' = Name(d) /\ Request(d)' = Request(d) /\ At(d, "answered")'
    BY <2>2, <2>3 DEF Told, At, Name, Request
  <2>5. CASE b # c
    <3>1. call'[b] = call[b]
      BY <1>1, <2>5
    <3>2. Follows(b, d) <=> Follows(b, d)'
      BY <2>3, <3>1 DEF Follows, At, Request
    <3>3. QED
      BY <2>1, <2>2, <2>4, <3>1, <3>2 DEF At, Request, Name, OInv, Ordered
  <2>6. CASE b = c
    <3>1. Serve(c)
      BY <1>3, <2>6
    <3>2. Request(c)' = Request(c) /\ ~At(c, "unsent")'
      BY <2>2, <2>6, <3>1, ServeRequest
    <3>3. Name(c)' = Name(c)
      BY <3>2 DEF Name
    <3>4. ASSUME Told(d), Request(c).op # "list", Name(c) = Name(d) PROVE Follows(c, d)'
      <4>1. Follows(c, d)
        BY <2>1, <2>6, <3>4 DEF OInv, Ordered
      <4>2. QED
        BY <2>2, <2>4, <2>6, <3>1, <3>4, <4>1, FollowsKept
    <3>5. QED
      BY <2>4, <2>6, <3>2, <3>3, <3>4
  <2>7. QED
    BY <2>5, <2>6
<1>4. QED
  BY <1>2, <1>3

\* No step makes an answer disagree with an earlier one.
LEMMA NextOInv == IInv /\ OInv /\ [Next]_vars => OInv'
<1> SUFFICES ASSUME IInv, OInv, [Next]_vars PROVE OInv'
  OBVIOUS
<1>1. CASE UNCHANGED vars
  BY <1>1 DEF vars, OInv, Whole, Coded, Lasting, Told, Ordered, Follows, At, Request,
     Name, Exists
<1>2. ASSUME NEW c \in Calls, Send(c) \/ Serve(c) PROVE OInv'
  BY <1>2, WholeKept, CodedKept, LastingKept, OrderedKept DEF OInv
<1>3. QED
  BY <1>1, <1>2 DEF Next

\* A client that was told of an instance finds it in every later call, and finds
\* it wholly deleting when it was told of its deletion.
THEOREM InOrder == Spec => []AnswersInOrder
<1>1. IInv /\ OInv => AnswersInOrder
  <2> SUFFICES ASSUME IInv, OInv, NEW c \in Calls, NEW n \in Names, NEW d \in earlier[c],
                      About(c, n), About(d, n), call[d].code # 404
               PROVE  /\ call[c].code \in
                           [create |-> {409}, get |-> {200}, delete |-> {204, 409}][Request(c).op]
                      /\ Request(d).op = "delete" =>
                           /\ call[c].code # 204
                           /\ \A r \in call[c].body : r.text = "deleting" /\ r.length = "deleting"
    BY DEF AnswersInOrder
  <2>1. d \in Calls /\ Told(d) /\ Request(c).op # "list" /\ Name(c) = Name(d)
    BY DEF About, Answered, Told, IInv, TypeOK
  <2>2. Follows(c, d) /\ At(c, "answered") /\ call[c].code # 400
    BY <2>1 DEF OInv, Ordered, About, Answered
  <2>3. Request(c).op \in {"create", "get", "delete"} /\ call[c].code \in CodeOf(Request(c).op)
    BY <2>1, <2>2, Sent DEF OInv, Coded, At
  <2>4. call[c].code \in
          [create |-> {409}, get |-> {200}, delete |-> {204, 409}][Request(c).op]
    BY <2>2, <2>3 DEF Follows, CodeOf
  <2>5. QED
    BY <2>2, <2>4 DEF Follows
<1>2. Spec => []OInv
  BY InitOInv, NextOInv, Invariance, PTL DEF Spec
<1>3. QED
  BY <1>1, <1>2, Invariance, PTL

-----------------------------------------------------------------------------
\* The lock is held by the calls that are in a method of the store.
InMethod(c) == At(c, "locked") \/ At(c, "inserting") \/ At(c, "marking")

HolderWorks == \A c \in Calls : c \in writers \cup readers <=> InMethod(c)

\* A step that locks, unlocks or goes on in the method keeps that.
LEMMA HoldersKept ==
  ASSUME IInv, HolderWorks, NEW c \in Calls, Send(c) \/ Serve(c)
  PROVE  HolderWorks'
<1> SUFFICES ASSUME NEW d \in Calls PROVE d \in writers' \cup readers' <=> InMethod(d)'
  BY DEF HolderWorks
<1>1. CASE d # c
  <2>1. call'[d] = call[d]
    BY <1>1, OneMoves
  <2>2. d \in writers' \cup readers' <=> d \in writers \cup readers
    <3>1. CASE Lock(c)
      BY <1>1, <3>1 DEF Lock
    <3>2. CASE Unlock(c) \/ KeepLock
      BY <1>1, <3>2 DEF Unlock, KeepLock
    <3>3. QED
      BY <3>1, <3>2 DEF Send, Serve, Refuse, CreateTaken, CreateFree, Insert, Missing, DeleteTwice,
         DeleteFound, Mark, GetFound, List, Point, Encode, Respond, KeepLock
  <2>3. QED
    BY <2>1, <2>2 DEF HolderWorks, InMethod, At
<1>2. CASE d = c
  <2>1. CASE Unlock(c) /\ ~InMethod(c)'
    BY <1>2, <2>1 DEF Unlock
  <2>2. CASE KeepLock /\ (InMethod(c)' <=> InMethod(c))
    BY <1>2, <2>2 DEF KeepLock, HolderWorks
  <2>3. CASE Lock(c)
    <3>1. At(c, "locked")'
      BY <2>3 DEF Lock, Goto, At, IInv, TypeOK, Call
    <3>2. QED
      BY <1>2, <2>3, <3>1 DEF Lock, InMethod
  <2>4. ASSUME NEW code \in Codes, Answer(c, code), ~At(c, "unsent")
        PROVE  ~InMethod(c)'
    BY <2>4, Answering1 DEF InMethod, At
  <2>5. CASE Send(c) \/ CreateFree(c) \/ DeleteFound(c) \/ Encode(c)
    <3>1. KeepLock
      BY <2>5 DEF Send, CreateFree, DeleteFound, Encode, KeepLock
    <3>2. CASE Encode(c)
      BY <2>2, <3>1, <3>2, EncodeKeeps DEF Encode, InMethod, At
    <3>3. CASE Send(c)
      BY <2>2, <3>1, <3>3 DEF Send, InMethod, At, IInv, TypeOK, Call
    <3>4. CASE CreateFree(c) \/ DeleteFound(c)
      BY <2>2, <3>1, <3>4 DEF CreateFree, DeleteFound, Goto, In, InMethod, At, IInv, TypeOK, Call
    <3>5. QED
      BY <2>5, <3>2, <3>3, <3>4
  <2>6. CASE GetFound(c) \/ List(c)
    <3>1. At(c, "locked") /\ Unlock(c) /\ \E names : Point(c, names)
      BY <2>6 DEF GetFound, List, Point, In
    <3>2. QED
      BY <2>1, <3>1, Pointing1 DEF InMethod, At
  <2>7. CASE Mark(c) /\ call' = call /\ KeepLock
    BY <2>2, <2>7 DEF InMethod, At
  <2>8. CASE Refuse(c) \/ Respond(c)
    <3>1. KeepLock /\ ~InMethod(c) /\ ~At(c, "unsent") /\ \E code \in Codes : Answer(c, code)
      BY <2>8 DEF Refuse, Respond, KeepLock, InMethod, At, Codes
    <3>2. QED
      BY <2>2, <2>4, <3>1
  <2>9. CASE CreateTaken(c) \/ Insert(c) \/ Missing(c) \/ DeleteTwice(c)
    <3>1. Unlock(c) /\ ~At(c, "unsent") /\ \E code \in Codes : Answer(c, code)
      BY <2>9 DEF CreateTaken, Insert, Missing, DeleteTwice, In, At, Codes
    <3>2. QED
      BY <2>1, <2>4, <3>1
  <2>10. CASE Mark(c)
    <3>1. ~At(c, "unsent") /\ 204 \in Codes
      BY <2>10 DEF Mark, At, Codes
    <3>2. CASE Answer(c, 204) /\ Unlock(c)
      BY <2>1, <2>4, <3>1, <3>2
    <3>3. QED
      BY <2>7, <2>10, <3>2 DEF Mark
  <2>11. QED
    BY <2>3, <2>5, <2>6, <2>8, <2>9, <2>10 DEF Serve
<1>3. QED
  BY <1>1, <1>2

\* No way out of a method leaves the lock held, the early returns included: whoever
\* holds it is in a method of the store, and whoever is in one holds it.
THEOREM LockReleased == Spec => []HolderWorks
<1>1. Init => HolderWorks
  BY DEF Init, HolderWorks, InMethod, At, NoCall
<1>2. IInv /\ HolderWorks /\ [Next]_vars => HolderWorks'
  <2> SUFFICES ASSUME IInv, HolderWorks, [Next]_vars PROVE HolderWorks'
    OBVIOUS
  <2>1. CASE UNCHANGED vars
    BY <2>1 DEF vars, HolderWorks, InMethod, At
  <2>2. QED
    BY <2>1, HoldersKept DEF Next
<1>3. QED
  BY <1>1, <1>2, Invariance, PTL DEF Spec

-----------------------------------------------------------------------------
\* The instances a page holds, or will.
Pointed(c) == {r.name : r \in call[c].body} \cup call[c].left

\* c has its page, or is told of it.
Paged(c) == (At(c, "encoding") \/ Answered(c)) /\ Request(c).op = "list"

\* What a page may hold, and must.
PageGood(c, names) ==
  /\ names \subseteq Owned(Request(c).tenant)
  /\ Cardinality(names) <= IF Limit(c) < 1 THEN 1 ELSE Limit(c)
  /\ \A d \in earlier[c] :
       /\ Request(d).op = "create" /\ call[d].code = 202
       /\ Request(d).tenant = Request(c).tenant
       => Name(d) \in names \/ Cardinality(names) >= Limit(c)

\* An instance stays with the tenant it was created for.
OwnerKept ==
  \A d \in Calls : At(d, "answered") /\ Request(d).op = "create" /\ call[d].code = 202 =>
    Name(d) \in Owned(Request(d).tenant)

\* Every page is good from when the store hands it out, and is encoded whole.
PageInv ==
  /\ OwnerKept
  /\ \A c \in Calls : Paged(c) => PageGood(c, Pointed(c))
  /\ \A c \in Calls : Answered(c) /\ Request(c).op = "list" => call[c].left = {}

\* A list's request has a tenant and a limit.
LEMMA ListRequest ==
  ASSUME IInv, NEW c \in Calls, ~At(c, "unsent"), Request(c).op = "list"
  PROVE  Request(c).tenant \in Tenants /\ Limit(c) \in Int
<1>1. Request(c) \in Requests
  BY Sent
<1>2. Request(c).tenant \in Tenants /\ Request(c).limit \in Limits
  BY <1>1 DEF Requests
<1>3. QED
  BY <1>2, LimitsAssumption DEF Limit

\* No tenant loses an instance.
LEMMA OwnedGrows ==
  ASSUME IInv, NEW c \in Calls, Send(c) \/ Serve(c), NEW t \in Tenants
  PROVE  Owned(t) \subseteq Owned(t)'
<1> SUFFICES ASSUME NEW n \in Names, items[n].tenant = t PROVE items'[n].tenant = t
  BY DEF Owned
<1>1. items[n] # NoInstance
  BY NamesAssumption DEF NoInstance
<1>2. CASE Insert(c)
  BY <1>1, <1>2, InsertKeeps
<1>3. CASE Mark(c)
  BY <1>3, MarkKeeps
<1>4. CASE ~Insert(c) /\ ~Mark(c)
  BY <1>4, ItemsStay
<1>5. QED
  BY <1>2, <1>3, <1>4

\* The loop of List stops at the limit, and not before the map is done.
LEMMA ListGood ==
  ASSUME IInv, PageInv, NEW c \in Calls, In(c, "list"),
         NEW names \in SUBSET Owned(Request(c).tenant),
         names = Owned(Request(c).tenant) \/ Full(c, names),
         \A n \in names : ~Full(c, names \ {n})
  PROVE  PageGood(c, names)
<1>1. ~At(c, "unsent") /\ Request(c).op = "list"
  BY DEF In, At
<1>2. Request(c).tenant \in Tenants /\ Limit(c) \in Int
  BY <1>1, ListRequest
<1>3. names \subseteq Names /\ IsFiniteSet(names)
  BY NamesAssumption, FS_Subset DEF Owned
<1>4. Cardinality(names) \in Nat
  BY <1>3, FS_CardinalityType
<1>5. Cardinality(names) <= IF Limit(c) < 1 THEN 1 ELSE Limit(c)
  <2>1. CASE names = {}
    <3>1. Cardinality(names) = 0
      BY <2>1, FS_EmptySet
    <3>2. QED
      BY <1>2, <3>1
  <2>2. CASE names # {}
    <3>1. PICK n \in names : TRUE
      BY <2>2
    <3>2. Cardinality(names \ {n}) = Cardinality(names) - 1
      BY <1>3, <3>1, FS_RemoveElement
    <3>3. names \ {n} = {} => Cardinality(names) - 1 = 0
      BY <3>2, FS_EmptySet
    <3>4. Cardinality(names) - 1 < Limit(c) \/ names \ {n} = {}
      BY <1>2, <1>4, <3>1, <3>2 DEF Full
    <3>5. names \ {n} # {} => Cardinality(names) - 1 > 0
      <4>1. IsFiniteSet(names \ {n}) /\ Cardinality(names \ {n}) \in Nat
        BY <1>3, FS_Subset, FS_CardinalityType
      <4>2. names \ {n} # {} => Cardinality(names \ {n}) # 0
        BY <4>1, FS_EmptySet
      <4>3. QED
        BY <1>4, <3>2, <4>1, <4>2
    <3>6. QED
      BY <1>2, <1>4, <3>3, <3>4, <3>5
  <2>3. QED
    BY <2>1, <2>2
<1>6. ASSUME NEW d \in earlier[c], Request(d).op = "create", call[d].code = 202,
             Request(d).tenant = Request(c).tenant
      PROVE  Name(d) \in names \/ Cardinality(names) >= Limit(c)
  <2>1. d \in Calls /\ At(d, "answered")
    BY <1>6 DEF IInv, TypeOK, CallSound
  <2>2. Name(d) \in Owned(Request(c).tenant)
    BY <1>6, <2>1 DEF PageInv, OwnerKept
  <2>3. QED
    BY <2>2 DEF Full
<1>7. QED
  BY <1>5, <1>6 DEF PageGood

\* An instance that was created for a tenant stays with it.
LEMMA OwnerStep ==
  ASSUME IInv, PageInv, NEW c \in Calls, Send(c) \/ Serve(c)
  PROVE  OwnerKept'
<1> SUFFICES ASSUME NEW d \in Calls, At(d, "answered")', Request(d)'.op = "create",
                    call'[d].code = 202
             PROVE  Name(d)' \in Owned(Request(d).tenant)'
  BY DEF OwnerKept, At
<1>1. CASE d # c
  <2>1. call'[d] = call[d]
    BY <1>1, OneMoves
  <2>2. /\ At(d, "answered") /\ Request(d).op = "create" /\ call[d].code = 202
        /\ Request(d)' = Request(d) /\ Name(d)' = Name(d)
    BY <2>1 DEF At, Request, Name
  <2>3. Name(d) \in Owned(Request(d).tenant) /\ Request(d).tenant \in Tenants
    BY <2>2, Sent DEF PageInv, OwnerKept, At
  <2>4. Name(d) \in Owned(Request(d).tenant)'
    <3>1. items[Name(d)].tenant = Request(d).tenant /\ Name(d) \in Names
      BY <2>3 DEF Owned
    <3>2. Name(d) \in {n \in Names : items'[n].tenant = Request(d).tenant}
      BY <2>3, <3>1, OwnedGrows DEF Owned
    <3>3. QED
      BY <2>2, <3>2 DEF Owned
  <2>5. QED
    BY <2>2, <2>4
<1>2. CASE d = c
  <2>1. CASE Insert(c)
    <3>1. /\ ~At(c, "unsent") /\ 202 \in Codes
      BY <2>1 DEF Insert, At, Codes
    <3>2. Request(c)' = Request(c)
      BY <2>1, <3>1, Answering1 DEF Insert
    <3>3. Name(c) \in Names /\ items'[Name(c)].tenant = Request(c).tenant
      <4>1. Name(c) \in Names /\ items'[Name(c)] = NewInstance(c)
        BY <2>1, InsertKeeps
      <4>2. QED
        BY <4>1 DEF NewInstance
    <3>4. QED
      BY <1>2, <3>2, <3>3 DEF Owned, Name
  <2>2. CASE ~Insert(c)
    <3>1. CASE Send(c) \/ Lock(c) \/ CreateFree(c) \/ DeleteFound(c)
      <4>1. ~At(c, "answered")'
        BY <3>1 DEF IInv, TypeOK, Call, Send, Lock, CreateFree, DeleteFound, Goto, At
      <4>2. QED
        BY <1>2, <4>1
    <3>2. CASE Refuse(c) \/ CreateTaken(c) \/ Missing(c) \/ DeleteTwice(c) \/ Respond(c)
      <4>1. PICK code \in Codes \ {202} : Answer(c, code)
        BY <3>2 DEF Refuse, CreateTaken, Missing, DeleteTwice, Respond, Codes
      <4>2. ~At(c, "unsent")
        BY <3>2 DEF Refuse, CreateTaken, Missing, DeleteTwice, Respond, In, At
      <4>3. call'[c].code # 202
        BY <4>1, <4>2, Answering1
      <4>4. QED
        BY <1>2, <4>3
    <3>3. CASE Mark(c)
      <4>1. ~At(c, "unsent") /\ Request(c).op = "delete"
        BY <3>3 DEF Mark, At, IInv, LockHeld
      <4>2. Request(c)' = Request(c)
        BY <3>3, <4>1, ServeRequest DEF Serve
      <4>3. QED
        BY <1>2, <4>1, <4>2
    <3>4. CASE GetFound(c) \/ List(c) \/ Encode(c)
      <4>1. ~At(c, "answered")'
        <5>1. CASE Encode(c)
          BY <5>1, EncodeKeeps DEF At
        <5>2. CASE GetFound(c) \/ List(c)
          <6>1. At(c, "locked") /\ \E names : Point(c, names)
            BY <5>2 DEF GetFound, List, In
          <6>2. QED
            BY <6>1, Pointing1 DEF At
        <5>3. QED
          BY <3>4, <5>1, <5>2
      <4>2. QED
        BY <1>2, <4>1
    <3>5. QED
      BY <2>2, <3>1, <3>2, <3>3, <3>4 DEF Serve
  <2>3. QED
    BY <2>1, <2>2
<1>3. QED
  BY <1>1, <1>2

\* What a page holds does not change while it is encoded.
LEMMA EncodePage ==
  ASSUME IInv, NEW c \in Calls, Encode(c)
  PROVE  Pointed(c)' = Pointed(c)
<1>1. call[c] \in Call /\ call \in [Calls -> Call]
  BY DEF IInv, TypeOK
<1>2. PICK n \in call[c].left, w \in {"text", "length"} :
        call' = Encoded(c, [call[c].half EXCEPT !.name = n, ![w] = items[n][w]])
  BY DEF Encode
<1> DEFINE h == [call[c].half EXCEPT !.name = n, ![w] = items[n][w]]
<1>3. h.name = n
  BY <1>1, <1>2 DEF Call, Read
<1> HIDE DEF h
<1>4. call' = Encoded(c, h)
  BY <1>2 DEF h
<1>5. CASE "none" \in {h.text, h.length}
  <2>1. call'[c].body = call[c].body /\ call'[c].left = call[c].left
    BY <1>1, <1>4, <1>5 DEF Encoded, Call
  <2>2. QED
    BY <2>1 DEF Pointed
<1>6. CASE "none" \notin {h.text, h.length}
  <2>1. /\ call'[c].body = call[c].body \cup {h}
        /\ call'[c].left = call[c].left \ {n}
    BY <1>1, <1>3, <1>4, <1>6 DEF Encoded, Call
  <2>2. {r.name : r \in call[c].body \cup {h}} = {r.name : r \in call[c].body} \cup {n}
    BY <1>3
  <2>3. QED
    BY <1>2, <2>1, <2>2 DEF Pointed
<1>7. QED
  BY <1>5, <1>6

\* A good page stays good, whatever call moves.
LEMMA GoodStays ==
  ASSUME IInv, OInv, NEW c \in Calls, Send(c) \/ Serve(c),
         NEW b \in Calls, ~At(b, "unsent"), Request(b).op = "list",
         NEW names, PageGood(b, names)
  PROVE  PageGood(b, names)'
<1>1. Request(b).tenant \in Tenants
  BY ListRequest
<1>2. Request(b)' = Request(b)
  <2>1. CASE b # c
    BY <2>1, OneMoves DEF Request
  <2>2. CASE b = c
    BY <2>2, ServeRequest DEF Send
  <2>3. QED
    BY <2>1, <2>2
<1>3. Limit(b)' = Limit(b)
  <2>1. frontEnd' = frontEnd
    BY DEF Serve, Send, Refuse, Lock, CreateTaken, CreateFree, Insert, Missing,
       DeleteTwice, DeleteFound, Mark, GetFound, List, Point, Encode, Respond
  <2>2. QED
    BY <1>2, <2>1 DEF Limit
<1>4. earlier'[b] = earlier[b]
  <2>1. CASE Send(c)
    <3>1. b # c
      BY <2>1 DEF Send
    <3>2. QED
      BY <2>1, <3>1 DEF Send, IInv, TypeOK
  <2>2. CASE Serve(c)
    BY <2>2 DEF Serve, Refuse, Lock, CreateTaken, CreateFree, Insert, Missing,
       DeleteTwice, DeleteFound, Mark, GetFound, List, Point, Encode, Respond
  <2>3. QED
    BY <2>1, <2>2
<1>5. \A d \in earlier[b] : call'[d] = call[d]
  <2>1. \A d \in earlier[b] : d \in Calls /\ At(d, "answered")
    BY DEF OInv, Ordered, IInv, TypeOK
  <2>2. QED
    BY <2>1, OneMoves
<1>6. names \subseteq Owned(Request(b).tenant)'
  <2>1. Owned(Request(b).tenant) \subseteq {n \in Names : items'[n].tenant = Request(b).tenant}
    BY <1>1, OwnedGrows DEF Owned
  <2>2. QED
    BY <1>2, <2>1 DEF PageGood, Owned
<1>7. \A d \in earlier'[b] :
        /\ Request(d)'.op = "create" /\ call'[d].code = 202
        /\ Request(d)'.tenant = Request(b)'.tenant
        => Name(d)' \in names \/ Cardinality(names) >= Limit(b)'
  BY <1>2, <1>3, <1>4, <1>5 DEF PageGood, Request, Name
<1>8. QED
  BY <1>3, <1>6, <1>7 DEF PageGood

\* Every action keeps the pages.
LEMMA PageStep ==
  ASSUME IInv, OInv, PageInv, NEW c \in Calls, Send(c) \/ Serve(c)
  PROVE  PageInv'
<1>1. OwnerKept'
  BY OwnerStep
<1>2. ASSUME NEW b \in Calls, Paged(b)'
      PROVE  /\ PageGood(b, Pointed(b))'
             /\ At(b, "answered")' => call'[b].left = {}
  <2>1. ASSUME Paged(b), Pointed(b)' = Pointed(b) PROVE PageGood(b, Pointed(b))'
    <3>1. ~At(b, "unsent") /\ Request(b).op = "list" /\ PageGood(b, Pointed(b))
      BY <2>1 DEF Paged, Answered, At, PageInv
    <3>2. PICK names : names = Pointed(b)
      OBVIOUS
    <3>3. PageGood(b, names)'
      BY <3>1, <3>2, GoodStays
    <3>4. QED
      BY <2>1, <3>2, <3>3 DEF PageGood
  <2>2. CASE b # c
    <3>1. call'[b] = call[b]
      BY <2>2, OneMoves
    <3>2. Paged(b) /\ Pointed(b)' = Pointed(b) /\ At(b, "answered")' = At(b, "answered")
      BY <1>2, <3>1 DEF Paged, Answered, Pointed, At, Request
    <3>3. QED
      BY <2>1, <3>1, <3>2 DEF PageInv, Paged, Answered, At
  <2>3. CASE b = c
    <3>1. CASE Send(c) \/ Lock(c) \/ CreateFree(c) \/ DeleteFound(c)
      <4>1. ~At(c, "encoding")' /\ ~At(c, "answered")'
        BY <3>1 DEF IInv, TypeOK, Call, Send, Lock, CreateFree, DeleteFound, Goto, At
      <4>2. QED
        BY <1>2, <2>3, <4>1 DEF Paged, Answered
    <3>2. CASE Refuse(c)
      <4>1. ~At(c, "unsent") /\ 400 \in Codes /\ Answer(c, 400)
        BY <3>2 DEF Refuse, At, Codes
      <4>2. ~Paged(c)'
        BY <4>1, Answering1 DEF Paged, Answered, At
      <4>3. QED
        BY <1>2, <2>3, <4>2
    <3>3. CASE CreateTaken(c) \/ Insert(c) \/ Missing(c) \/ DeleteTwice(c) \/ Mark(c) \/ GetFound(c)
      <4>1. ~At(c, "unsent") /\ Request(c).op # "list"
        BY <3>3 DEF CreateTaken, Insert, Missing, DeleteTwice, Mark, GetFound, In, At, IInv,
           LockHeld
      <4>2. Request(c)' = Request(c)
        BY <3>3, <4>1, ServeRequest DEF Serve
      <4>3. QED
        BY <1>2, <2>3, <4>1, <4>2 DEF Paged
    <3>4. CASE List(c)
      <4>1. PICK names \in SUBSET Owned(Request(c).tenant) :
              /\ names = Owned(Request(c).tenant) \/ Full(c, names)
              /\ \A n \in names : ~Full(c, names \ {n})
              /\ Point(c, names)
        BY <3>4 DEF List
      <4>2. In(c, "list") /\ At(c, "locked") /\ ~At(c, "unsent") /\ Request(c).op = "list"
            /\ ~At(c, "encoding") /\ ~At(c, "answered")
        BY <3>4 DEF List, In, At
      <4>3. PageGood(c, names)
        BY <4>1, <4>2, ListGood
      <4>4. PageGood(c, names)'
        BY <3>4, <4>2, <4>3, GoodStays DEF Serve
      <4>5. call[c].body = {}
        BY <4>2 DEF OInv, Coded
      <4>6. call'[c].body = {} /\ call'[c].left = names /\ At(c, "encoding")'
        BY <4>1, <4>2, <4>5, Pointing1
      <4>7. Pointed(c)' = names
        BY <4>6 DEF Pointed
      <4>8. QED
        BY <2>3, <4>4, <4>6, <4>7 DEF PageGood, At
    <3>5. CASE Encode(c)
      <4>1. At(c, "encoding") /\ At(c, "encoding")' /\ Request(c)' = Request(c)
        BY <3>5, EncodeKeeps DEF Encode
      <4>2. Paged(c)
        BY <1>2, <2>3, <4>1 DEF Paged
      <4>3. QED
        BY <2>1, <2>3, <3>5, <4>1, <4>2, EncodePage DEF At
    <3>6. CASE Respond(c)
      <4>1. /\ ~At(c, "unsent") /\ 200 \in Codes /\ Answer(c, 200) /\ At(c, "encoding")
            /\ call[c].left = {}
        BY <3>6 DEF Respond, At, Codes
      <4>2. /\ Request(c)' = Request(c) /\ call'[c].body = call[c].body
            /\ call'[c].left = call[c].left
        <5>1. call[c] \in Call /\ call \in [Calls -> Call]
          BY DEF IInv, TypeOK
        <5>2. QED
          BY <4>1, <5>1 DEF Answer, Request, Call
      <4>3. Paged(c) /\ Pointed(c)' = Pointed(c)
        BY <1>2, <2>3, <4>1, <4>2 DEF Paged, Pointed
      <4>4. QED
        BY <2>1, <2>3, <4>1, <4>2, <4>3
    <3>7. QED
      BY <3>1, <3>2, <3>3, <3>4, <3>5, <3>6 DEF Serve
  <2>4. QED
    BY <2>2, <2>3
<1>3. \A b \in Calls : Answered(b)' /\ Request(b)'.op = "list" => Paged(b)' /\ At(b, "answered")'
  BY DEF Paged, Answered, At
<1>4. QED
  BY <1>1, <1>2, <1>3 DEF PageInv

\* A page holds instances of its tenant only and, where an allowed limit reaches the
\* store, no more than that many, and all that were created before, if it is not full.
THEOREM PagesAreExact == Spec => []PagesExact
<1>1. Init => PageInv
  <2> SUFFICES ASSUME Init PROVE PageInv
    OBVIOUS
  <2>1. \A c \in Calls : call[c] = NoCall
    BY DEF Init
  <2>2. QED
    BY <2>1 DEF PageInv, OwnerKept, Paged, Answered, At, NoCall
<1>2. IInv /\ OInv /\ PageInv /\ [Next]_vars => PageInv'
  <2> SUFFICES ASSUME IInv, OInv, PageInv, [Next]_vars PROVE PageInv'
    OBVIOUS
  <2>1. CASE UNCHANGED vars
    BY <2>1 DEF vars, PageInv, OwnerKept, Paged, Answered, PageGood, Pointed, Owned, Limit,
       At, Request, Name
  <2>2. ASSUME NEW c \in Calls, Send(c) \/ Serve(c) PROVE PageInv'
    BY <2>2, PageStep
  <2>3. QED
    BY <2>1, <2>2 DEF Next
<1>3. PageInv => PagesExact
  <2> SUFFICES ASSUME PageInv, NEW c \in Calls, Listed(c)
               PROVE  /\ Page(c) \subseteq Owned(Request(c).tenant)
                      /\ Honoured(c) =>
                           /\ Cardinality(Page(c)) <= Request(c).limit
                           /\ \A d \in earlier[c] :
                                /\ Request(d).op = "create" /\ call[d].code = 202
                                /\ Request(d).tenant = Request(c).tenant
                                => Name(d) \in Page(c) \/ Cardinality(Page(c)) = Request(c).limit
    BY DEF PagesExact
  <2>1. call[c].left = {} /\ PageGood(c, Pointed(c))
    BY DEF PageInv, Paged, Listed
  <2>2. Pointed(c) = Page(c)
    BY <2>1 DEF Pointed, Page
  <2>3. PageGood(c, Page(c))
    BY <2>1, <2>2
  <2>4. Page(c) \subseteq Names
    BY <2>3 DEF PageGood, Owned
  <2>5. Cardinality(Page(c)) \in Nat
    BY <2>4, NamesAssumption, FS_Subset, FS_CardinalityType
  <2>6. ASSUME Honoured(c)
        PROVE  Request(c).limit \in Nat /\ Request(c).limit >= 1 /\ Limit(c) = Request(c).limit
    BY <2>6, LimitsAssumption DEF Honoured, Allowed
  <2>7. ASSUME Honoured(c) PROVE Cardinality(Page(c)) <= Request(c).limit
    BY <2>3, <2>5, <2>6, <2>7 DEF PageGood
  <2>8. QED
    BY <2>3, <2>5, <2>6, <2>7 DEF PageGood
<1>4. Spec => []OInv
  BY InitOInv, NextOInv, Invariance, InitIInv, NextIInv, PTL DEF Spec
<1>5. QED
  BY <1>1, <1>2, <1>3, <1>4, Invariance, PTL DEF Spec

-----------------------------------------------------------------------------
(***************************************************************************)
(* What the race can do: the words that a read has taken, and the deletion *)
(* they come from.                                                         *)
(***************************************************************************)

\* Only a deletion, still at work or answered, writes the words of "deleting".
Marked ==
  \A n \in Names :
    "deleting" \in {items[n].text, items[n].length} => \E d \in Calls : Deletes(d, n)

\* A word of "deleting" comes from a deletion that was sent before c is answered,
\* and no word of "provisioning" is read once a deletion has been answered.
ReadSound(c, r) ==
  /\ "deleting" \in {r.text, r.length} => \E d \in Calls : Deletes(d, r.name) /\ c \notin earlier[d]
  /\ "provisioning" \in {r.text, r.length} => \A d \in earlier[c] : ~Deletes(d, r.name)

Raced ==
  \A c \in Calls :
    /\ call[c].half.name = "none" => call[c].half = Unread
    /\ \A r \in call[c].body : {r.text, r.length} \subseteq Word
    /\ \A r \in call[c].body \cup {call[c].half} : ReadSound(c, r)

RInv == Marked /\ Raced

\* At the start nothing is marked and nothing is read.
LEMMA InitRInv == Init => RInv
<1> SUFFICES ASSUME Init PROVE RInv
  OBVIOUS
<1>1. \A c \in Calls : call[c].body = {} /\ call[c].half = Unread
  BY DEF Init, NoCall
<1>2. \A c \in Calls : ReadSound(c, Unread)
  BY DEF ReadSound, Unread
<1>3. \A n \in Names : items[n] = NoInstance
  BY DEF Init
<1>4. QED
  BY <1>1, <1>2, <1>3 DEF RInv, Marked, Raced, NoInstance

\* The calls answered before d was sent are recorded once, when it is sent.
LEMMA EarlierFixed ==
  ASSUME IInv, NEW c \in Calls, Send(c) \/ Serve(c), NEW d \in Calls, ~At(d, "unsent")
  PROVE  earlier'[d] = earlier[d]
<1>1. CASE Send(c)
  BY <1>1 DEF Send, At, IInv, TypeOK
<1>2. CASE Serve(c)
  BY <1>2 DEF Serve, Refuse, Lock, CreateTaken, CreateFree, Insert, Missing, DeleteTwice,
     DeleteFound, Mark, GetFound, List, Point, Encode, Respond
<1>3. QED
  BY <1>1, <1>2

\* A call that is writing a status goes on to do so until it has answered.
LEMMA MarkingGoesOn ==
  ASSUME IInv, NEW c \in Calls, Send(c) \/ Serve(c), At(c, "marking")
  PROVE  Mark(c)
BY DEF Serve, Send, Refuse, Lock, CreateTaken, CreateFree, Insert, Missing, DeleteTwice,
   DeleteFound, GetFound, List, Encode, Respond, In, At

\* What has been deleted stays deleted by the same call.
LEMMA DeletesStay ==
  ASSUME IInv, NEW c \in Calls, Send(c) \/ Serve(c), NEW d \in Calls, NEW n, Deletes(d, n)
  PROVE  Deletes(d, n)' /\ earlier'[d] = earlier[d]
<1>1. ~At(d, "unsent")
  BY DEF Deletes, At
<1>2. CASE d # c
  <2>1. call'[d] = call[d]
    BY <1>2, OneMoves
  <2>2. QED
    BY <1>1, <2>1, EarlierFixed DEF Deletes, At, Request, Name
<1>3. CASE d = c
  <2>1. At(c, "marking")
    BY <1>3, OneMoves DEF Deletes
  <2>2. Mark(c)
    BY <2>1, MarkingGoesOn
  <2>3. CASE Answer(c, 204)
    <3>1. At(c, "answered")' /\ call'[c].code = 204 /\ Request(c)' = Request(c)
      BY <1>1, <1>3, <2>3, Answering1 DEF Codes
    <3>2. QED
      BY <1>1, <1>3, <3>1, EarlierFixed DEF Deletes, Name
  <2>4. CASE call' = call
    BY <1>1, <1>3, <2>4, EarlierFixed DEF Deletes, At, Request, Name
  <2>5. QED
    BY <2>2, <2>3, <2>4 DEF Mark
<1>4. QED
  BY <1>2, <1>3

\* A deletion that begins is none that anybody was answered after.
LEMMA DeletesNew ==
  ASSUME IInv, OInv, NEW c \in Calls, Send(c) \/ Serve(c), NEW b \in Calls, ~At(b, "unsent"),
         NEW d \in earlier[b], NEW n, Deletes(d, n)'
  PROVE  Deletes(d, n)
<1>1. d \in Calls /\ At(d, "answered")
  BY DEF IInv, TypeOK, OInv, Ordered
<1>2. call'[d] = call[d]
  BY <1>1, OneMoves
<1>3. QED
  BY <1>2 DEF Deletes, At, Request, Name

\* A word is marked by its deletion, whoever moves.
LEMMA MarkedKept ==
  ASSUME IInv, Marked, NEW c \in Calls, Send(c) \/ Serve(c)
  PROVE  Marked'
<1> SUFFICES ASSUME NEW n \in Names, "deleting" \in {items'[n].text, items'[n].length}
             PROVE  \E d \in Calls : Deletes(d, n)'
  BY DEF Marked
<1>1. ASSUME items'[n] = items[n]
      PROVE  \E d \in Calls : Deletes(d, n)'
  BY <1>1, DeletesStay DEF Marked
<1>2. CASE Insert(c)
  <2>1. CASE n = Name(c)
    <3>1. items'[n] = NewInstance(c)
      BY <1>2, <2>1, InsertKeeps
    <3>2. NewInstance(c).text = "provisioning" /\ NewInstance(c).length = "provisioning"
      BY DEF NewInstance
    <3>3. QED
      BY <3>1, <3>2
  <2>2. QED
    BY <1>1, <1>2, <2>1, InsertKeeps
<1>3. CASE Mark(c)
  <2>1. Deletes(c, Name(c))
    BY <1>3 DEF Mark, Deletes, IInv, LockHeld
  <2>2. CASE n = Name(c)
    BY <2>1, <2>2, DeletesStay
  <2>3. QED
    BY <1>1, <1>3, <2>2, MarkKeeps
<1>4. CASE ~Insert(c) /\ ~Mark(c)
  BY <1>1, <1>4, ItemsStay
<1>5. QED
  BY <1>2, <1>3, <1>4

\* What a read was sound to take, it stays sound to have taken.
LEMMA SoundStays ==
  ASSUME IInv, OInv, NEW c \in Calls, Send(c) \/ Serve(c), NEW b \in Calls, ~At(b, "unsent"),
         NEW r, ReadSound(b, r)
  PROVE  ReadSound(b, r)'
<1>1. earlier'[b] = earlier[b]
  BY EarlierFixed
<1>2. QED
  BY <1>1, DeletesStay, DeletesNew DEF ReadSound

\* The read that c has under way, or has just ended, after one more word.
LEMMA EncodeReads ==
  ASSUME IInv, Raced, NEW c \in Calls, Encode(c)
  PROVE  \E n \in call[c].left, w \in {"text", "length"}, h \in Read :
           /\ h.name = n /\ h[w] = items[n][w]
           /\ \A v \in {"text", "length"} : v = w \/ h[v] = call[c].half[v]
           /\ call[c].half.name = n \/ call[c].half = Unread
           /\ \/ call'[c].half = h /\ call'[c].body = call[c].body
              \/ /\ call'[c].half = Unread /\ call'[c].body = call[c].body \cup {h}
                 /\ {h.text, h.length} \subseteq Word
<1>1. call[c] \in Call /\ call \in [Calls -> Call]
  BY DEF IInv, TypeOK
<1>2. PICK n \in call[c].left, w \in {"text", "length"} :
        /\ call[c].half.name \in {"none", n}
        /\ call' = Encoded(c, [call[c].half EXCEPT !.name = n, ![w] = items[n][w]])
  BY DEF Encode
<1> DEFINE h == [call[c].half EXCEPT !.name = n, ![w] = items[n][w]]
<1>3. /\ h.name = n /\ h[w] = items[n][w]
      /\ \A v \in {"text", "length"} : v = w \/ h[v] = call[c].half[v]
  BY <1>1, <1>2 DEF Call, Read
<1>4. h \in Read
  <2>1. items[n] \in Instance \/ items[n] = NoInstance
    BY <1>1, <1>2 DEF IInv, TypeOK, Call
  <2>2. items[n].text \in Word \cup {"none"} /\ items[n].length \in Word \cup {"none"}
    BY <2>1 DEF Instance, NoInstance
  <2>3. QED
    BY <1>1, <1>2, <2>2 DEF Call, Read
<1>5. call[c].half.name = n \/ call[c].half = Unread
  BY <1>2 DEF Raced
<1> HIDE DEF h
<1>6. call' = Encoded(c, h)
  BY <1>2 DEF h
<1>7. \/ call'[c].half = h /\ call'[c].body = call[c].body
      \/ /\ call'[c].half = Unread /\ call'[c].body = call[c].body \cup {h}
         /\ {h.text, h.length} \subseteq Word
  BY <1>1, <1>4, <1>6 DEF Encoded, Call, Read
<1>8. QED
  BY <1>2, <1>3, <1>4, <1>5, <1>7

\* The word c reads is sound for it: it overlaps the deletion that has written it,
\* and a deletion answered before c was sent has left no word of the old text.
LEMMA EncodeSound ==
  ASSUME IInv, OInv, RInv, NEW c \in Calls, Encode(c)
  PROVE  \A r \in call'[c].body \cup {call'[c].half} : ReadSound(c, r)
<1>1. At(c, "encoding") /\ ~At(c, "unsent") /\ ~At(c, "answered") /\ call[c] \in Call
  BY DEF Encode, At, IInv, TypeOK
<1>2. PICK n \in call[c].left, w \in {"text", "length"}, h \in Read :
        /\ h.name = n /\ h[w] = items[n][w]
        /\ \A v \in {"text", "length"} : v = w \/ h[v] = call[c].half[v]
        /\ call[c].half.name = n \/ call[c].half = Unread
        /\ \/ call'[c].half = h /\ call'[c].body = call[c].body
           \/ call'[c].half = Unread /\ call'[c].body = call[c].body \cup {h}
  BY EncodeReads DEF RInv
<1>3. n \in Names
  BY <1>1, <1>2 DEF Call
<1>4. \A r \in call[c].body \cup {call[c].half} : ReadSound(c, r)
  BY DEF RInv, Raced
<1>5. ReadSound(c, Unread)
  BY DEF ReadSound, Unread
<1>6. \A word \in Word :
        word \in {h.text, h.length} =>
          \/ word \in {items[n].text, items[n].length}
          \/ word \in {call[c].half.text, call[c].half.length} /\ call[c].half.name = n
  <2>1. "none" \notin Word
    BY DEF Word
  <2>2. QED
    BY <1>2, <2>1 DEF Unread
<1>7. ReadSound(c, h)
  <2>1. ASSUME "deleting" \in {h.text, h.length}
        PROVE  \E d \in Calls : Deletes(d, n) /\ c \notin earlier[d]
    <3>1. CASE "deleting" \in {items[n].text, items[n].length}
      <4>1. PICK d \in Calls : Deletes(d, n)
        BY <1>3, <3>1 DEF RInv, Marked
      <4>2. c \notin earlier[d]
        BY <1>1 DEF OInv, Ordered
      <4>3. QED
        BY <4>1, <4>2
    <3>2. CASE "deleting" \in {call[c].half.text, call[c].half.length} /\ call[c].half.name = n
      BY <1>4, <3>2 DEF ReadSound
    <3>3. QED
      BY <1>6, <2>1, <3>1, <3>2 DEF Word
  <2>2. ASSUME "provisioning" \in {h.text, h.length}, NEW d \in earlier[c], Deletes(d, n)
        PROVE  FALSE
    <3>1. d \in Calls /\ At(d, "answered")
      BY DEF IInv, TypeOK, OInv, Ordered
    <3>2. Told(d) /\ Request(d).op = "delete" /\ Name(d) = n
      BY <2>2, <3>1 DEF Deletes, Told, At
    <3>3. items[n] \in Deleting
      BY <3>1, <3>2 DEF OInv, Lasting
    <3>4. "provisioning" \notin {items[n].text, items[n].length}
      BY <3>3 DEF Deleting
    <3>5. "provisioning" \in {call[c].half.text, call[c].half.length} /\ call[c].half.name = n
      BY <1>6, <2>2, <3>4 DEF Word
    <3>6. QED
      BY <1>4, <2>2, <3>5 DEF ReadSound
  <2>3. QED
    BY <1>2, <2>1, <2>2 DEF ReadSound
<1>8. QED
  BY <1>2, <1>4, <1>5, <1>7

\* The half-read status is none when it has no name, after a step too.
LEMMA RacedKept ==
  ASSUME IInv, OInv, RInv, NEW c \in Calls, Send(c) \/ Serve(c)
  PROVE  Raced'
<1> SUFFICES ASSUME NEW b \in Calls
             PROVE  /\ call'[b].half.name = "none" => call'[b].half = Unread
                    /\ \A r \in call'[b].body : {r.text, r.length} \subseteq Word
                    /\ \A r \in call'[b].body \cup {call'[b].half} : ReadSound(b, r)'
  BY DEF Raced
<1>1. ASSUME call'[b].half = call[b].half, call'[b].body = call[b].body, ~At(b, "unsent")
      PROVE  /\ call'[b].half.name = "none" => call'[b].half = Unread
             /\ \A r \in call'[b].body : {r.text, r.length} \subseteq Word
             /\ \A r \in call'[b].body \cup {call'[b].half} : ReadSound(b, r)'
  <2>1. /\ call[b].half.name = "none" => call[b].half = Unread
        /\ \A r \in call[b].body : {r.text, r.length} \subseteq Word
    BY DEF RInv, Raced
  <2>2. \A r \in call[b].body \cup {call[b].half} : ReadSound(b, r)
    BY DEF RInv, Raced
  <2>3. \A r \in call[b].body \cup {call[b].half} : ReadSound(b, r)'
    BY <1>1, <2>2, SoundStays
  <2>4. QED
    BY <1>1, <2>1, <2>3
<1>2. ASSUME call'[b].half = Unread, call'[b].body = {}
      PROVE  /\ call'[b].half.name = "none" => call'[b].half = Unread
             /\ \A r \in call'[b].body : {r.text, r.length} \subseteq Word
             /\ \A r \in call'[b].body \cup {call'[b].half} : ReadSound(b, r)'
  <2>1. ReadSound(b, Unread)'
    BY DEF ReadSound, Unread
  <2>2. QED
    BY <1>2, <2>1
<1>3. CASE At(b, "unsent")
  <2>1. call[b].half = Unread /\ call[b].body = {}
    BY <1>3 DEF OInv, Coded, At
  <2>2. CASE b # c
    BY <1>2, <2>1, <2>2, OneMoves
  <2>3. CASE b = c
    <3>1. Send(c)
      BY <1>3, <2>3 DEF Serve, Refuse, Lock, CreateTaken, CreateFree, Insert, Missing,
         DeleteTwice, DeleteFound, Mark, GetFound, List, Encode, Respond, In, At
    <3>2. call'[c].half = call[c].half /\ call'[c].body = call[c].body
      <4>1. PICK r \in Wanted[c] : call' = [call EXCEPT ![c].phase = "sent", ![c].request = r]
        BY <3>1 DEF Send
      <4>2. call[c] \in Call /\ call \in [Calls -> Call]
        BY DEF IInv, TypeOK
      <4>3. QED
        BY <4>1, <4>2 DEF Call
    <3>3. QED
      BY <1>2, <2>1, <2>3, <3>2
  <2>4. QED
    BY <2>2, <2>3
<1>4. CASE ~At(b, "unsent") /\ b # c
  BY <1>1, <1>4, OneMoves
<1>5. CASE ~At(b, "unsent") /\ b = c /\ ~Encode(c)
  <2>1. ~Send(c)
    BY <1>5 DEF Send
  <2>2. CASE \E code \in Codes : Answer(c, code)
    BY <1>1, <1>5, <2>2, Answering1
  <2>3. CASE GetFound(c) \/ List(c)
    <3>1. At(c, "locked") /\ \E names : Point(c, names)
      BY <2>3 DEF GetFound, List, In
    <3>2. QED
      BY <1>1, <1>5, <3>1, Pointing1
  <2>4. CASE Lock(c) \/ CreateFree(c) \/ DeleteFound(c)
    <3>1. call'[c].half = call[c].half /\ call'[c].body = call[c].body
      BY <2>4 DEF IInv, TypeOK, Call, Lock, CreateFree, DeleteFound, Goto
    <3>2. QED
      BY <1>1, <1>5, <3>1
  <2>5. CASE call' = call
    BY <1>1, <1>5, <2>5
  <2>6. QED
    BY <1>5, <2>1, <2>2, <2>3, <2>4, <2>5
    DEF Serve, Refuse, CreateTaken, Insert, Missing, DeleteTwice, Mark, Respond, Codes
<1>6. CASE b = c /\ Encode(c)
  <2>1. \A r \in call'[c].body \cup {call'[c].half} : ReadSound(c, r)
    BY <1>6, EncodeSound
  <2>3. \A r \in call'[c].body \cup {call'[c].half} : ReadSound(c, r)'
    BY <1>6, <2>1, SoundStays DEF Encode, At
  <2>4. call'[c].half.name = "none" => call'[c].half = Unread
    <3>1. "none" \notin call[c].left
      BY NamesAssumption DEF IInv, TypeOK, Call
    <3>2. QED
      BY <1>6, <3>1, EncodeReads DEF RInv
  <2>5. \A r \in call'[c].body : {r.text, r.length} \subseteq Word
    BY <1>6, EncodeReads DEF RInv, Raced
  <2>6. QED
    BY <1>6, <2>3, <2>4, <2>5
<1>7. QED
  BY <1>3, <1>4, <1>5, <1>6

\* A status that is none of the texts is read only by a call that overlaps the
\* deletion of the instance, neither being answered before the other was sent.
THEOREM TornOnlyInRace == Spec => []TornOnlyByOverlap
<1>1. IInv /\ OInv /\ RInv => TornOnlyByOverlap
  <2> SUFFICES ASSUME IInv, OInv, RInv, NEW c \in Calls, NEW r \in call[c].body,
                      r.text # r.length
               PROVE  \E d \in Calls : Deletes(d, r.name) /\ d \notin earlier[c] /\ c \notin earlier[d]
    BY DEF TornOnlyByOverlap
  <2>1. r.text \in Word /\ r.length \in Word
    BY DEF RInv, Raced
  <2>2. "deleting" \in {r.text, r.length} /\ "provisioning" \in {r.text, r.length}
    BY <2>1 DEF Word
  <2>3. ReadSound(c, r)
    BY DEF RInv, Raced
  <2>4. QED
    BY <2>2, <2>3 DEF ReadSound
<1>2. IInv /\ OInv /\ RInv /\ [Next]_vars => RInv'
  <2> SUFFICES ASSUME IInv, OInv, RInv, [Next]_vars PROVE RInv'
    OBVIOUS
  <2>1. CASE UNCHANGED vars
    BY <2>1 DEF vars, RInv, Marked, Raced, ReadSound, Deletes, At, Request, Name
  <2>2. ASSUME NEW c \in Calls, Send(c) \/ Serve(c) PROVE RInv'
    BY <2>2, MarkedKept, RacedKept DEF RInv
  <2>3. QED
    BY <2>1, <2>2 DEF Next
<1>3. Spec => []OInv
  BY InitOInv, NextOInv, Invariance, PTL DEF Spec
<1>4. QED
  BY <1>1, <1>2, <1>3, InitRInv, Invariance, PTL DEF Spec

-----------------------------------------------------------------------------
(***************************************************************************)
(* Nobody waits for ever: what holds apart from the fairness of goroutines *)
(* and of the lock. A call that is not over may go on, or waits for calls  *)
(* that may; and a call goes on a bounded number of times.                 *)
(***************************************************************************)

\* A handler points to instances that are there, and is at most in the middle of
\* the status of one of them.
HalfSound(c) ==
  /\ \A n \in call[c].left : Exists(n)
  /\ call[c].half.name = "none" => call[c].half = Unread
  /\ call[c].half.name # "none" =>
       /\ call[c].half.name \in call[c].left
       /\ "none" \in {call[c].half.text, call[c].half.length}
HalvesSound == \A c \in Calls : HalfSound(c)

\* The words of a status that a read has still to take, and a deletion to write.
Unreads(h) == {w \in {"text", "length"} : h[w] = "none"}
Unmarked(n) == {w \in {"text", "length"} : items[n][w] # "deleting"}

\* Some step of c changes nothing but these: c reads a word of the status of an
\* instance it points to, or the last one and is done with the instance.
Reads(c) ==
  /\ call'[c].phase = "encoding"
  /\ \/ /\ call'[c].left = call[c].left
        /\ Unreads(call'[c].half) \in (SUBSET Unreads(call[c].half)) \ {Unreads(call[c].half)}
     \/ call'[c].left \in (SUBSET call[c].left) \ {call[c].left}

\* Encoding reads.
LEMMA EncodeTakes ==
  ASSUME IInv, HalvesSound, NEW c \in Calls, Encode(c)
  PROVE  Reads(c) /\ HalfSound(c)'
<1>1. call[c] \in Call /\ call \in [Calls -> Call] /\ call[c].half \in Read
      /\ call[c].left \in SUBSET Names /\ call[c].phase = "encoding"
  BY DEF IInv, TypeOK, Call, Encode, At
<1>2. PICK n \in call[c].left, w \in {"text", "length"} :
        /\ call[c].half.name \in {"none", n} /\ call[c].half[w] = "none"
        /\ call' = Encoded(c, [call[c].half EXCEPT !.name = n, ![w] = items[n][w]])
  BY DEF Encode
<1>3. n \in Names /\ Exists(n) /\ n # "none"
  BY <1>1, NamesAssumption DEF HalvesSound, HalfSound
<1>4. items[n] \in Instance
  BY <1>3 DEF IInv, TypeOK, Exists
<1>5. items[n].text \in Word /\ items[n].length \in Word /\ "none" \notin Word
  BY <1>4, InstanceIsOne DEF Word
<1>6. items[n][w] # "none" /\ items[n][w] \in Word
  BY <1>5
<1> DEFINE h == [call[c].half EXCEPT !.name = n, ![w] = items[n][w]]
<1>7. /\ h.name = n /\ h[w] = items[n][w] /\ h \in Read
      /\ \A v \in {"text", "length"} : v = w \/ h[v] = call[c].half[v]
  BY <1>1, <1>3, <1>6 DEF Read
<1> HIDE DEF h
<1>8. call' = Encoded(c, h)
  BY <1>2 DEF h
<1>9. items' = items
  BY DEF Encode
<1>10. CASE "none" \in {h.text, h.length}
  <2>1. call'[c] = [call[c] EXCEPT !.half = h]
    BY <1>1, <1>8, <1>10 DEF Encoded
  <2>2. call'[c].half = h /\ call'[c].left = call[c].left /\ call'[c].phase = "encoding"
    BY <1>1, <2>1 DEF Call
  <2>3. Unreads(h) \in (SUBSET Unreads(call[c].half)) \ {Unreads(call[c].half)}
    <3>1. w \in Unreads(call[c].half) /\ w \notin Unreads(h)
      BY <1>2, <1>6, <1>7 DEF Unreads
    <3>2. Unreads(h) \subseteq Unreads(call[c].half)
      BY <1>6, <1>7 DEF Unreads
    <3>3. QED
      BY <3>1, <3>2
  <2>4. HalfSound(c)'
    BY <1>2, <1>3, <1>7, <1>9, <1>10, <2>2 DEF HalvesSound, HalfSound, Exists
  <2>5. QED
    BY <2>2, <2>3, <2>4 DEF Reads
<1>11. CASE "none" \notin {h.text, h.length}
  <2>1. call'[c] = [call[c] EXCEPT !.half = Unread, !.left = @ \ {h.name}, !.body = @ \cup {h}]
    BY <1>1, <1>8, <1>11 DEF Encoded
  <2>2. call'[c].half = Unread /\ call'[c].left = call[c].left \ {n}
        /\ call'[c].phase = "encoding"
    BY <1>1, <1>7, <2>1 DEF Call
  <2>3. HalfSound(c)'
    BY <1>9, <2>2 DEF HalvesSound, HalfSound, Exists, Unread
  <2>4. call'[c].left \in (SUBSET call[c].left) \ {call[c].left}
    BY <1>2, <2>2
  <2>5. QED
    BY <2>2, <2>3, <2>4 DEF Reads
<1>12. QED
  BY <1>10, <1>11

\* Every step leaves the other handlers where they are, and its own sound.
LEMMA HalvesKept ==
  ASSUME IInv, OInv, HalvesSound, NEW c \in Calls, Send(c) \/ Serve(c)
  PROVE  HalvesSound'
<1> SUFFICES ASSUME NEW d \in Calls PROVE HalfSound(d)'
  BY DEF HalvesSound
<1>1. call \in [Calls -> Call] /\ call[c] \in Call
  BY DEF IInv, TypeOK
<1>2. ASSUME call'[d].left = call[d].left, call'[d].half = call[d].half
      PROVE  HalfSound(d)'
  <2>1. \A n \in call[d].left : n \in Names /\ Exists(n)
    BY <1>1 DEF HalvesSound, HalfSound, Call
  <2>2. \A n \in call[d].left : Exists(n)'
    BY <2>1, ItemsGrow
  <2>3. QED
    BY <1>2, <2>2 DEF HalvesSound, HalfSound
<1>3. CASE d # c
  BY <1>2, <1>3, OneMoves
<1>4. CASE d = c /\ Encode(c)
  BY <1>4, EncodeTakes
<1>5. CASE d = c /\ (GetFound(c) \/ List(c))
  <2>1. PICK names \in SUBSET Names : Point(c, names) /\ \A n \in names : Exists(n)
    <3>1. CASE GetFound(c)
      <4>1. Name(c) \in Names
        BY <3>1, Sent DEF GetFound, In, At
      <4>2. QED
        BY <3>1, <4>1 DEF GetFound
    <3>2. CASE List(c)
      <4>1. PICK names \in SUBSET Owned(Request(c).tenant) : Point(c, names)
        BY <3>2 DEF List
      <4>2. Request(c).tenant # "none"
        <5>1. Request(c) \in Requests /\ Request(c).op = "list"
          BY <3>2, Sent DEF List, In, At
        <5>2. Request(c).tenant \in Tenants
          BY <5>1 DEF Requests
        <5>3. QED
          BY <5>2, NamesAssumption
      <4>3. \A n \in names : n \in Names /\ Exists(n)
        BY <4>2 DEF Owned, Exists, NoInstance
      <4>4. QED
        BY <4>1, <4>3
    <3>3. QED
      BY <1>5, <3>1, <3>2
  <2>2. At(c, "locked")
    BY <1>5 DEF GetFound, List, In
  <2>3. call[c].half = Unread
    BY <2>2 DEF OInv, Coded, At
  <2>4. call'[c].left = names /\ call'[c].half = Unread
    BY <2>1, <2>2, <2>3, Pointing1
  <2>5. items' = items
    BY <2>1 DEF Point
  <2>6. QED
    BY <1>5, <2>1, <2>4, <2>5 DEF HalfSound, Exists, Unread
<1>6. CASE d = c /\ ~Encode(c) /\ ~GetFound(c) /\ ~List(c)
  <2>1. call'[c].left = call[c].left /\ call'[c].half = call[c].half
    <3>1. CASE Send(c) \/ Lock(c) \/ CreateFree(c) \/ DeleteFound(c)
      BY <1>1, <3>1 DEF Send, Lock, CreateFree, DeleteFound, Goto, Call
    <3>2. CASE Refuse(c) \/ CreateTaken(c) \/ Insert(c) \/ Missing(c) \/ DeleteTwice(c) \/ Respond(c)
      BY <1>1, <3>2 DEF Refuse, CreateTaken, Insert, Missing, DeleteTwice, Respond, Answer, Call
    <3>3. CASE Mark(c)
      BY <1>1, <3>3 DEF Mark, Answer, Call
    <3>4. QED
      BY <1>6, <3>1, <3>2, <3>3 DEF Serve
  <2>2. QED
    BY <1>2, <1>6, <2>1
<1>7. QED
  BY <1>3, <1>4, <1>5, <1>6

\* The invariants of what the handlers have before them.
LEMMA HalvesStay == Spec => [](IInv /\ OInv /\ HolderWorks /\ HalvesSound)
<1>1. Init => HalvesSound
  BY DEF Init, HalvesSound, HalfSound, NoCall, Unread
<1>2. IInv /\ OInv /\ HalvesSound /\ [Next]_vars => HalvesSound'
  <2> SUFFICES ASSUME IInv, OInv, HalvesSound, [Next]_vars PROVE HalvesSound'
    OBVIOUS
  <2>1. CASE UNCHANGED vars
    BY <2>1 DEF vars, HalvesSound, HalfSound, Exists
  <2>2. QED
    BY <2>1, HalvesKept DEF Next
<1>3. Spec => []OInv
  BY InitOInv, NextOInv, Invariance, PTL DEF Spec
<1>4. QED
  BY <1>1, <1>2, <1>3, Invariance, LockReleased, PTL DEF Spec

-----------------------------------------------------------------------------
\* A finite set has a part of any size up to its own.
LEMMA PartExists ==
  ASSUME NEW S, IsFiniteSet(S), NEW k \in Nat
  PROVE  \E T \in SUBSET S : (T = S /\ Cardinality(S) <= k) \/ Cardinality(T) = k
<1>1. Cardinality(S) \in Nat /\ ExistsBijection(1 .. Cardinality(S), S)
  BY FS_CardinalityType
<1>2. CASE Cardinality(S) <= k
  BY <1>2
<1>3. CASE k < Cardinality(S)
  <2>1. PICK f : f \in Bijection(1 .. Cardinality(S), S)
    BY <1>1 DEF ExistsBijection
  <2>2. f \in [1 .. Cardinality(S) -> S] /\ IsInjective(f)
    BY <2>1 DEF Bijection, Injection
  <2> DEFINE T == {f[i] : i \in 1 .. k}
             g == [i \in 1 .. k |-> f[i]]
  <2>3. \A i \in 1 .. k : i \in 1 .. Cardinality(S)
    BY <1>1, <1>3
  <2>4. T \in SUBSET S
    BY <2>2, <2>3
  <2>5. g \in Surjection(1 .. k, T)
    BY DEF Surjection
  <2>6. \A i, j \in 1 .. Cardinality(S) : f[i] = f[j] => i = j
    BY <2>2 DEF IsInjective
  <2>7. IsInjective(g)
    BY <2>3, <2>6 DEF IsInjective
  <2>8. ExistsBijection(1 .. k, T)
    BY <2>5, <2>7 DEF Injection, Surjection, Bijection, ExistsBijection
  <2> HIDE DEF T, g
  <2>9. Cardinality(T) = k
    BY <2>8, FS_CountingElements
  <2>10. QED
    BY <2>4, <2>9
<1>4. QED
  BY <1>1, <1>2, <1>3

\* The loop of List always comes to a page.
CanPage(c) ==
  \E names \in SUBSET Owned(Request(c).tenant) :
    /\ names = Owned(Request(c).tenant) \/ Full(c, names)
    /\ \A n \in names : ~Full(c, names \ {n})

\* Whatever the store holds and whatever page a list asks for, there is one.
LEMMA PagesThere ==
  ASSUME IInv, NEW c \in Calls, In(c, "list")
  PROVE  CanPage(c)
<1> DEFINE S == Owned(Request(c).tenant)
           k == IF Limit(c) < 1 THEN 1 ELSE Limit(c)
<1>1. Limit(c) \in Int
  <2>1. Request(c) \in Requests /\ Request(c).op = "list"
    BY Sent DEF In, At
  <2>2. Request(c).limit \in Limits
    BY <2>1 DEF Requests
  <2>3. QED
    BY <2>2, LimitsAssumption DEF Limit, LimitsAssumption
<1>2. IsFiniteSet(S)
  <2>1. S \in SUBSET Names /\ IsFiniteSet(Names)
    BY NamesAssumption DEF Owned
  <2>2. QED
    BY <2>1, FS_Subset
<1>3. k \in Nat /\ k >= 1 /\ Limit(c) <= k
  BY <1>1
<1> HIDE DEF S
<1>4. PICK T \in SUBSET S : (T = S /\ Cardinality(S) <= k) \/ Cardinality(T) = k
  BY <1>2, <1>3, PartExists
<1>5. IsFiniteSet(T) /\ Cardinality(T) \in Nat /\ Cardinality(T) <= k
  BY <1>2, <1>3, <1>4, FS_Subset, FS_CardinalityType
<1>6. T = S \/ Full(c, T)
  <2> SUFFICES ASSUME Cardinality(T) = k PROVE Full(c, T)
    BY <1>4
  <2>1. T # {}
    BY <1>3, FS_EmptySet
  <2>2. QED
    BY <1>1, <1>3, <2>1 DEF Full
<1>7. ASSUME NEW n \in T PROVE ~Full(c, T \ {n})
  <2>1. IsFiniteSet(T \ {n}) /\ Cardinality(T \ {n}) = Cardinality(T) - 1
    BY <1>5, FS_RemoveElement
  <2>2. CASE Limit(c) >= 1
    <3>1. Cardinality(T \ {n}) < Limit(c)
      BY <1>1, <1>5, <2>1, <2>2
    <3>2. QED
      BY <1>1, <1>5, <2>1, <3>1 DEF Full
  <2>3. CASE Limit(c) < 1
    <3>1. Cardinality(T \ {n}) = 0
      <4>1. Cardinality(T) <= 1
        BY <1>1, <1>5, <2>3
      <4>2. Cardinality(T \ {n}) \in Nat
        BY <2>1, FS_CardinalityType
      <4>3. QED
        BY <1>5, <2>1, <4>1, <4>2
    <3>2. T \ {n} = {}
      BY <2>1, <3>1, FS_EmptySet
    <3>3. QED
      BY <3>2 DEF Full
  <2>4. QED
    BY <1>1, <2>2, <2>3
<1>8. QED
  BY <1>6, <1>7 DEF CanPage, S

\* c has a step to take in the store, which nothing another call does holds up,
MayGoOn(c) ==
  \/ In(c, "create") \/ In(c, "get")
  \/ In(c, "delete") /\ (Exists(Name(c)) => items[Name(c)].text \in {"provisioning", "deleting"})
  \/ In(c, "list") /\ CanPage(c)
  \/ At(c, "inserting")
  \/ At(c, "marking") /\ Unmarked(Name(c)) # {}

\* or outside of it.
MayLeave(c) ==
  \/ At(c, "sent") /\ Refused(c)
  \/ At(c, "sent") /\ writers = {} /\ (Writes(c) => readers = {})
  \/ /\ At(c, "encoding")
     /\ \/ call[c].left = {}
        \/ \E n \in call[c].left, w \in {"text", "length"} :
             call[c].half.name \in {"none", n} /\ call[c].half[w] = "none"

NobodyStuck ==
  /\ \A c \in Calls : At(c, "unsent") \/ At(c, "answered") \/ MayGoOn(c) \/ MayLeave(c)
       \/ (At(c, "sent") /\ writers \cup readers # {})
  /\ \A d \in writers \cup readers : MayGoOn(d)

\* No call is ever stuck: one that is not over has a step to take, or waits for the
\* lock, and then whoever holds the lock has a step to take. In particular no
\* method takes the lock twice, no deletion finds its status written already, no
\* page cannot be filled, and no handler lacks an instance it points to.
THEOREM DeadlockFree == Spec => []NobodyStuck
<1>1. IInv /\ OInv /\ HolderWorks /\ HalvesSound => NobodyStuck
  <2> SUFFICES ASSUME IInv, OInv, HolderWorks, HalvesSound PROVE NobodyStuck
    OBVIOUS
  <2>1. ASSUME NEW c \in Calls, InMethod(c) PROVE MayGoOn(c)
    <3>0. ~At(c, "unsent")
      BY <2>1 DEF InMethod, At
    <3>1. CASE At(c, "locked")
      <4>1. Request(c).op \in {"create", "get", "delete", "list"}
            /\ (Request(c).op # "list" => Name(c) \in Names)
        BY <3>0, Sent
      <4>2. CASE Request(c).op \in {"create", "get"}
        BY <3>1, <4>2 DEF MayGoOn, In
      <4>3. CASE Request(c).op = "list"
        BY <3>1, <4>3, PagesThere DEF MayGoOn, In
      <4>4. CASE Request(c).op = "delete"
        <5>1. Exists(Name(c)) => items[Name(c)] \in Instance
          BY <4>1, <4>4 DEF IInv, TypeOK, Exists
        <5>2. QED
          BY <3>1, <4>4, <5>1 DEF MayGoOn, In, Instance, Word
      <4>5. QED
        BY <4>1, <4>2, <4>3, <4>4
    <3>2. CASE At(c, "inserting")
      BY <3>2 DEF MayGoOn
    <3>3. CASE At(c, "marking")
      <4>1. Name(c) \in Names /\ Exists(Name(c)) /\ items[Name(c)] \notin Deleting
        BY <3>0, <3>3, Sent DEF IInv, LockHeld
      <4>2. items[Name(c)] \in Instance
        BY <4>1 DEF IInv, TypeOK, Exists
      <4>3. Unmarked(Name(c)) # {}
        BY <4>1, <4>2 DEF Unmarked, Deleting
      <4>4. QED
        BY <3>3, <4>3 DEF MayGoOn
    <3>4. QED
      BY <2>1, <3>1, <3>2, <3>3 DEF InMethod
  <2>2. \A d \in writers \cup readers : MayGoOn(d)
    BY <2>1 DEF HolderWorks, IInv, TypeOK
  <2>3. ASSUME NEW c \in Calls, At(c, "encoding") PROVE MayLeave(c)
    <3>1. CASE call[c].left = {}
      BY <2>3, <3>1 DEF MayLeave
    <3>2. CASE call[c].left # {} /\ call[c].half.name = "none"
      <4>1. call[c].half.text = "none"
        BY <3>2 DEF HalvesSound, HalfSound, Unread
      <4>2. QED
        BY <2>3, <3>2, <4>1 DEF MayLeave
    <3>3. CASE call[c].half.name # "none"
      BY <2>3, <3>3 DEF MayLeave, HalvesSound, HalfSound
    <3>4. QED
      BY <3>1, <3>2, <3>3
  <2>4. ASSUME NEW c \in Calls, At(c, "sent") PROVE MayLeave(c) \/ writers \cup readers # {}
    BY <2>4 DEF MayLeave
  <2>5. \A c \in Calls : At(c, "unsent") \/ At(c, "sent") \/ InMethod(c) \/ At(c, "encoding")
                         \/ At(c, "answered")
    BY DEF IInv, TypeOK, Call, Phases, At, InMethod
  <2>6. QED
    BY <2>1, <2>2, <2>3, <2>4, <2>5 DEF NobodyStuck
<1>2. QED
  BY <1>1, HalvesStay, PTL

-----------------------------------------------------------------------------
\* How far a call has come.
Rank(phase) ==
  CASE phase = "unsent" -> 0 [] phase = "sent" -> 1 [] phase = "locked" -> 2
    [] phase = "inserting" -> 3 [] phase = "marking" -> 3 [] phase = "encoding" -> 3
    [] phase = "answered" -> 4

\* A step of c brings it to a later phase, or takes from what it has to do in its
\* phase: the words of the status it deletes, the instances it points to, and the
\* words of the one it is reading.
GoesOn(c) ==
  \/ Rank(call'[c].phase) > Rank(call[c].phase)
  \/ /\ At(c, "marking") /\ call' = call
     /\ Unmarked(Name(c))' \in (SUBSET Unmarked(Name(c))) \ {Unmarked(Name(c))}
  \/ At(c, "encoding") /\ Reads(c)

\* What d has before it is not touched.
Untouched(d) ==
  /\ call'[d] = call[d]
  /\ At(d, "marking") => Unmarked(Name(d))' = Unmarked(Name(d))

CallsAdvance ==
  [][\A c \in Calls : Send(c) \/ Serve(c) =>
       GoesOn(c) /\ \A d \in Calls : d # c => Untouched(d)]_vars

\* The phases in the order a call goes through them.
LEMMA Ranks ==
  /\ Rank("unsent") = 0 /\ Rank("sent") = 1 /\ Rank("locked") = 2 /\ Rank("inserting") = 3
  /\ Rank("marking") = 3 /\ Rank("encoding") = 3 /\ Rank("answered") = 4
BY DEF Rank

\* The last step of a call ends it.
LEMMA AnswerGoesOn ==
  ASSUME IInv, NEW c \in Calls, ~At(c, "unsent"), ~At(c, "answered"),
         NEW code \in Codes, Answer(c, code)
  PROVE  GoesOn(c)
<1>1. call'[c].phase = "answered"
  BY Answering1 DEF At
<1>2. call[c].phase \in {"sent", "locked", "inserting", "marking", "encoding"}
  BY DEF IInv, TypeOK, Call, Phases, At
<1>3. Rank(call[c].phase) \in {1, 2, 3}
  BY <1>2, Ranks
<1>4. QED
  BY <1>1, <1>3, Ranks DEF GoesOn

\* Every step of a call brings it on.
LEMMA ServeGoesOn ==
  ASSUME IInv, HalvesSound, NEW c \in Calls, Send(c) \/ Serve(c)
  PROVE  GoesOn(c)
<1>1. call \in [Calls -> Call] /\ call[c] \in Call
  BY DEF IInv, TypeOK
<1>2. CASE Send(c) \/ Lock(c) \/ CreateFree(c) \/ DeleteFound(c)
  <2>1. \/ call[c].phase = "unsent" /\ call'[c].phase = "sent"
        \/ call[c].phase = "sent" /\ call'[c].phase = "locked"
        \/ call[c].phase = "locked" /\ call'[c].phase \in {"inserting", "marking"}
    BY <1>1, <1>2 DEF Send, Lock, CreateFree, DeleteFound, Goto, In, At, Call
  <2>2. QED
    BY <2>1, Ranks DEF GoesOn
<1>3. CASE GetFound(c) \/ List(c)
  <2>1. At(c, "locked") /\ \E names : Point(c, names)
    BY <1>3 DEF GetFound, List, In
  <2>2. call[c].phase = "locked" /\ call'[c].phase = "encoding"
    BY <2>1, Pointing1 DEF At
  <2>3. QED
    BY <2>2, Ranks DEF GoesOn
<1>4. CASE Encode(c)
  BY <1>4, EncodeTakes DEF GoesOn, Encode
<1>5. CASE Refuse(c) \/ CreateTaken(c) \/ Insert(c) \/ Missing(c) \/ DeleteTwice(c) \/ Respond(c)
  <2>1. ~At(c, "unsent") /\ ~At(c, "answered") /\ \E code \in Codes : Answer(c, code)
    BY <1>5 DEF Refuse, CreateTaken, Insert, Missing, DeleteTwice, Respond, In, At, Codes
  <2>2. QED
    BY <2>1, AnswerGoesOn
<1>6. CASE Mark(c)
  <2>1. ~At(c, "unsent") /\ ~At(c, "answered") /\ 204 \in Codes
    BY <1>6 DEF Mark, At, Codes
  <2>2. CASE Answer(c, 204)
    BY <2>1, <2>2, AnswerGoesOn
  <2>3. CASE call' = call
    <3>1. PICK w \in {"text", "length"} :
            /\ items[Name(c)][w] # "deleting"
            /\ items' = [items EXCEPT ![Name(c)][w] = "deleting"]
      BY <1>6 DEF Mark
    <3>2. Name(c) \in Names /\ items[Name(c)] \in Instance
      BY <1>6, MarkKeeps
    <3>3. Name(c)' = Name(c)
      BY <2>3 DEF Name, Request
    <3>4. items'[Name(c)] = [items[Name(c)] EXCEPT ![w] = "deleting"]
      BY <3>1, <3>2 DEF IInv, TypeOK
    <3>5. items'[Name(c)][w] = "deleting"
          /\ \A v \in {"text", "length"} : v # w => items'[Name(c)][v] = items[Name(c)][v]
      BY <3>2, <3>4 DEF Instance
    <3>6. /\ w \in Unmarked(Name(c)) /\ w \notin Unmarked(Name(c))'
          /\ Unmarked(Name(c))' \subseteq Unmarked(Name(c))
      BY <3>1, <3>3, <3>5 DEF Unmarked
    <3>7. QED
      BY <1>6, <2>3, <3>6 DEF GoesOn, Mark
  <2>4. QED
    BY <1>6, <2>2, <2>3 DEF Mark
<1>7. QED
  BY <1>2, <1>3, <1>4, <1>5, <1>6 DEF Serve

\* No step of a call touches what another has to do: a status that is being written
\* is written by nobody else.
LEMMA ServeTouchesNot ==
  ASSUME IInv, NEW c \in Calls, Send(c) \/ Serve(c), NEW d \in Calls, d # c
  PROVE  Untouched(d)
<1>1. call'[d] = call[d]
  BY OneMoves
<1>2. ASSUME At(d, "marking")
      PROVE  Unmarked(Name(d))' = Unmarked(Name(d))
  <2>1. d \in writers
    BY <1>2 DEF IInv, LockHeld
  <2>2. ~At(c, "inserting") /\ ~At(c, "marking")
    BY <2>1, WriterAlone
  <2>3. items' = items
    BY <2>2, ItemsStay DEF Insert, Mark
  <2>4. Name(d)' = Name(d)
    BY <1>1 DEF Name, Request
  <2>5. QED
    BY <2>3, <2>4 DEF Unmarked
<1>3. QED
  BY <1>1, <1>2 DEF Untouched

\* A call is served in a bounded number of steps, whatever the others do: every one
\* brings it to a later phase or leaves it less to do, and no step of another call
\* adds to that. With DeadlockFree, only a lock that passes it over for ever can keep
\* a call from its answer, which the fairness of sync.RWMutex excludes.
THEOREM ServiceBounded == Spec => CallsAdvance
<1>1. IInv /\ HalvesSound /\ [Next]_vars =>
        [\A c \in Calls : Send(c) \/ Serve(c) =>
           GoesOn(c) /\ \A d \in Calls : d # c => Untouched(d)]_vars
  BY ServeGoesOn, ServeTouchesNot
<1>2. QED
  BY <1>1, HalvesStay, PTL DEF Spec, CallsAdvance
=============================================================================
