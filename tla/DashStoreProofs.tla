-------------------------- MODULE DashStoreProofs --------------------------
(* Theorems about the dashboard store, for any clients, paths and texts.   *)
EXTENDS DashStoreDocuments, TLAPS

(***************************************************************************)
(* Types.  How far a request has come says what it has in hand.            *)
(***************************************************************************)
Reading == {"read", "stat", "walk", "lookup", "load", "store"}

Shape(r) ==
  /\ r.pc \in Reading => r.op \in {"get", "raw", "list"}
  /\ (r.pc \in {"stat", "lookup", "load", "store"} \/ r.op = "get") => r.path \in Doc
  /\ r.pc \in {"lookup", "load", "store"} => r.info \in Info
  /\ r.pc = "store" => r.data \in Text
  /\ r.op = "put" => r.body \in Text
  /\ r.op = "delete" => r.body = NoText

Requests == req \in [Client -> Request] /\ \A c \in Client : Shape(req[c])

TypeInv == TypeOK /\ Requests

\* A request as AskRead, AskList and AskWrite make it is a request.
LEMMA BeginTyped ==
  ASSUME NEW op \in {"none", "get", "raw", "list", "put", "delete"}, NEW p \in File,
         NEW body \in Text \cup {NoText}, NEW m \in ETag \cup {NoTag, Star}, NEW pc \in PC
  PROVE  Begin(op, p, body, m, pc) \in Request
BY DEF Begin, Request

LEMMA IdleTyped == Idle \in Request /\ Shape(Idle)
<1>1. Theme \in File /\ "none" \in {"none", "get", "raw", "list", "put", "delete"}
      /\ NoText \in Text \cup {NoText} /\ NoTag \in ETag \cup {NoTag, Star} /\ "idle" \in PC
  BY DEF File, PC
<1>2. Idle \in Request
  BY <1>1, BeginTyped DEF Idle
<1> QED
  BY <1>2 DEF Idle, Begin, Shape, Reading

\* One client's request moves to another that is well typed.
LEMMA MoveTyped ==
  ASSUME Requests, NEW c \in Client, NEW r \in Request, Shape(r),
         req' = [req EXCEPT ![c] = r]
  PROVE  Requests'
<1>1. \A d \in Client : req'[d] = IF d = c THEN r ELSE req[d]
  BY DEF Requests
<1>2. Requests' = (req' \in [Client -> Request] /\ \A d \in Client : Shape(req'[d]))
  BY DEF Requests, Shape, Reading, Info
<1>3. req' \in [Client -> Request] /\ \A d \in Client : Shape(req'[d])
  BY <1>1 DEF Requests
<1> QED
  BY <1>2, <1>3

LEMMA AnswerTyped ==
  ASSUME Requests, NEW c \in Client, Answer(c)
  PROVE  Requests'
BY IdleTyped, MoveTyped DEF Answer

LEMMA GotoTyped ==
  ASSUME Requests, NEW c \in Client, NEW pc \in {"load", "store", "check", "write"}, Goto(c, pc),
         pc \in {"load", "store"} =>
           req[c].pc = "lookup" /\ req[c].path \in Doc /\ req[c].info \in Info,
         pc = "store" => req[c].data \in Text
  PROVE  Requests'
<1> DEFINE r == [req[c] EXCEPT !.pc = pc]
<1>1. req[c] \in Request /\ Shape(req[c])
  BY DEF Requests
<1>2. r \in Request /\ Shape(r)
  BY <1>1 DEF Request, Shape, Reading, PC
<1>3. req' = [req EXCEPT ![c] = r]
  BY DEF Goto
<1> QED
  BY <1>2, <1>3, MoveTyped

LEMMA KeepTyped ==
  ASSUME Requests, tab \in [Client -> Tab \cup {NoText}],
         NEW c \in Client, NEW p \in File, NEW d \in Text \cup {NoText},
         NEW e \in ETag \cup {NoTag}, NEW via \in {"get", "raw", "put"},
         Keep(c, p, d, e, via)
  PROVE  Requests' /\ tab' \in [Client -> Tab \cup {NoText}]
<1>1. [path |-> p, doc |-> d, etag |-> e, via |-> via] \in Tab
  BY DEF Tab
<1>2. Requests'
  BY AnswerTyped DEF Keep
<1> QED
  BY <1>1, <1>2 DEF Keep

LEMMA InfoTyped ==
  ASSUME NEW f \in Stored
  PROVE  InfoOf(f) \in Info
BY TextAssumption DEF InfoOf, Info, Stored

LEMMA RewriteTyped ==
  ASSUME file \in [File -> Stored \cup {NoText}], now \in 0..MaxClock,
         NEW p \in File, NEW t \in Text, Rewrite(p, t)
  PROVE  file' \in [File -> Stored \cup {NoText}] /\ now' \in 0..MaxClock
<1>1. PICK n \in Stamp : now' = n /\ file' = [file EXCEPT ![p] = [text |-> t, mtime |-> n]]
  BY DEF Rewrite
<1>2. n \in 0..MaxClock
  BY BoundAssumption DEF Stamp
<1>3. [text |-> t, mtime |-> n] \in Stored
  BY <1>2 DEF Stored
<1> QED
  BY <1>1, <1>2, <1>3

LEMMA UseEntryTyped ==
  ASSUME TypeInv, NEW c \in Client, NEW t \in Text, NEW d \in Text \cup {NoText},
         req[c].path \in Doc, UseEntry(c, t, d)
  PROVE  Requests' /\ tab' \in [Client -> Tab \cup {NoText}]
<1>0. Requests /\ tab \in [Client -> Tab \cup {NoText}] /\ req[c] \in Request /\ Shape(req[c])
  BY DEF TypeInv, TypeOK, Requests
<1>1. CASE req[c].op = "get" /\ Keep(c, req[c].path, d, etagOf(t), "get")
  <2>1. etagOf(t) \in ETag /\ req[c].path \in File
    BY DEF ETag, File
  <2> QED
    BY <1>0, <1>1, <2>1, KeepTyped
<1>2. CASE /\ req[c].op = "list"
           /\ req' = [req EXCEPT ![c] =
                [@ EXCEPT !.pc = "walk",
                          !.entries = req[c].entries \cup {<<req[c].path, t>>}]]
           /\ UNCHANGED tab
  <2> DEFINE E == req[c].entries \cup {<<req[c].path, t>>}
             r == [req[c] EXCEPT !.pc = "walk", !.entries = E]
  <2>1. req[c] \in Request /\ E \in SUBSET (Doc \X Text)
    BY <1>0 DEF Request
  <2>2. r \in Request /\ Shape(r)
    <3> HIDE DEF E
    <3> QED
      BY <1>0, <1>2, <2>1 DEF Request, PC, Shape, Reading
  <2>3. req' = [req EXCEPT ![c] = r]
    BY <1>2
  <2> HIDE DEF r
  <2> QED
    BY <1>0, <1>2, <2>2, <2>3, MoveTyped
<1> QED
  BY <1>1, <1>2 DEF UseEntry

(***************************************************************************)
(* The initial state and every step are well typed.                        *)
(***************************************************************************)
LEMMA InitTyped == Init => TypeInv
<1> SUFFICES ASSUME Init PROVE TypeInv
  OBVIOUS
<1>1. Requests
  BY IdleTyped DEF Init, Requests
<1>2. file \in [File -> Stored \cup {NoText}] /\ now \in 0..MaxClock
  <2>1. [text : Text, mtime : {0}] \subseteq Stored
    BY BoundAssumption DEF Stored
  <2> QED
    BY <2>1, BoundAssumption DEF Init
<1> QED
  BY <1>1, <1>2 DEF Init, TypeInv, TypeOK, Requests

\* What TypeInv says of the request a step works on.
LEMMA TypeFacts ==
  ASSUME TypeInv, NEW c \in Client
  PROVE  /\ Requests /\ req[c] \in Request /\ Shape(req[c])
         /\ req[c].path \in File /\ req[c].body \in Text \cup {NoText}
         /\ req[c].match \in ETag \cup {NoTag, Star}
         /\ req[c].data \in Text \cup {NoText} /\ req[c].todo \subseteq Doc
         /\ tab \in [Client -> Tab \cup {NoText}]
         /\ file \in [File -> Stored \cup {NoText}]
         /\ cache \in [Doc -> CacheEntry \cup {NoText}]
         /\ now \in 0..MaxClock
BY DEF TypeInv, TypeOK, Requests, Request

LEMMA FileFacts ==
  ASSUME TypeInv, NEW p \in File, Present(p)
  PROVE  file[p] \in Stored /\ file[p].text \in Text /\ InfoOf(file[p]) \in Info
<1>1. file[p] \in Stored
  BY DEF TypeInv, TypeOK, Present
<1> QED
  BY <1>1, InfoTyped DEF Stored

LEMMA AskReadTyped ==
  ASSUME TypeInv, NEW c \in Client, AskRead(c)
  PROVE  TypeInv'
<1>1. PICK op \in {"get", "raw"}, p \in File :
        /\ op = "get" => p \in Doc
        /\ req' = [req EXCEPT ![c] = Begin(op, p, NoText, NoTag, "read")]
  BY DEF AskRead, File
<1> DEFINE r == Begin(op, p, NoText, NoTag, "read")
<1>2. r \in Request
  BY BeginTyped DEF PC
<1>3. Shape(r)
  BY <1>1 DEF Shape, Reading, Begin
<1>4. Requests'
  <2> HIDE DEF r
  <2> QED
    BY <1>1, <1>2, <1>3, TypeFacts, MoveTyped DEF r
<1> QED
  BY <1>4 DEF AskRead, TypeInv, TypeOK, Requests

LEMMA ReadRawTyped ==
  ASSUME TypeInv, NEW c \in Client, ReadRaw(c)
  PROVE  TypeInv'
<1> DEFINE p == req[c].path
<1>1. Requests' /\ tab' \in [Client -> Tab \cup {NoText}]
  <2>1. CASE Present(p) /\ Keep(c, p, file[p].text, etagOf(file[p].text), "raw")
    <3>1. p \in File /\ file[p].text \in Text
      BY <2>1, TypeFacts, FileFacts
    <3>2. etagOf(file[p].text) \in ETag
      BY <3>1 DEF ETag
    <3> HIDE DEF p
    <3> QED
      BY <2>1, <3>1, <3>2, TypeFacts, KeepTyped
  <2>2. CASE Keep(c, p, NoText, NoTag, "raw")
    <3>1. p \in File
      BY TypeFacts
    <3> HIDE DEF p
    <3> QED
      BY <2>2, <3>1, TypeFacts, KeepTyped
  <2>3. CASE Answer(c) /\ UNCHANGED tab
    BY <2>3, TypeFacts, AnswerTyped
  <2> QED
    BY <2>1, <2>2, <2>3 DEF ReadRaw
<1> QED
  BY <1>1 DEF ReadRaw, TypeInv, TypeOK, Requests

LEMMA GetReadTyped ==
  ASSUME TypeInv, NEW c \in Client, GetRead(c)
  PROVE  TypeInv'
<1> DEFINE p == req[c].path
           r == [req[c] EXCEPT !.pc = "stat", !.data = file[p].text]
<1>1. Requests'
  <2>1. CASE Present(p) /\ req' = [req EXCEPT ![c] = r]
    <3>1. req[c] \in Request /\ Shape(req[c]) /\ req[c].op = "get" /\ file[p].text \in Text
      BY <2>1, TypeFacts, FileFacts DEF GetRead
    <3>2. r \in Request /\ Shape(r)
      BY <3>1 DEF Request, PC, Shape, Reading
    <3> HIDE DEF r
    <3> QED
      BY <2>1, <3>2, TypeFacts, MoveTyped
  <2>2. CASE Answer(c)
    BY <2>2, TypeFacts, AnswerTyped
  <2> QED
    BY <2>1, <2>2 DEF GetRead
<1> QED
  BY <1>1 DEF GetRead, TypeInv, TypeOK, Requests

LEMMA GetStatTyped ==
  ASSUME TypeInv, NEW c \in Client, GetStat(c)
  PROVE  TypeInv'
<1> DEFINE p == req[c].path
           i == InfoOf(file[p])
           r == [req[c] EXCEPT !.pc = "lookup", !.info = i]
<1>1. Requests'
  <2>1. CASE Present(p) /\ req' = [req EXCEPT ![c] = r]
    <3>1. req[c] \in Request /\ Shape(req[c]) /\ req[c].pc = "stat" /\ i \in Info
      BY <2>1, TypeFacts, FileFacts DEF GetStat
    <3>2. r \in Request /\ Shape(r)
      <4> HIDE DEF i
      <4> QED
        BY <3>1 DEF Request, PC, Shape, Reading
    <3> HIDE DEF r
    <3> QED
      BY <2>1, <3>2, TypeFacts, MoveTyped
  <2>2. CASE Answer(c)
    BY <2>2, TypeFacts, AnswerTyped
  <2> QED
    BY <2>1, <2>2 DEF GetStat
<1> QED
  BY <1>1 DEF GetStat, TypeInv, TypeOK, Requests

LEMMA AskListTyped ==
  ASSUME TypeInv, NEW c \in Client, AskList(c)
  PROVE  TypeInv'
<1> DEFINE b == Begin("list", Theme, NoText, NoTag, "walk")
           T == {p \in Doc : Present(p)}
           r == [b EXCEPT !.todo = T]
<1>1. b \in Request
  BY BeginTyped DEF File, PC
<1>2. r \in Request
  <2>1. T \in SUBSET Doc
    OBVIOUS
  <2> HIDE DEF T, b
  <2> QED
    BY <1>1, <2>1 DEF Request
<1>3. Shape(r)
  BY DEF Begin, Shape, Reading
<1>4. Requests'
  <2>1. req' = [req EXCEPT ![c] = r]
    BY DEF AskList
  <2> HIDE DEF r
  <2> QED
    BY <1>2, <1>3, <2>1, TypeFacts, MoveTyped
<1> QED
  BY <1>4 DEF AskList, TypeInv, TypeOK, Requests

LEMMA ListStatTyped ==
  ASSUME TypeInv, NEW c \in Client, ListStat(c)
  PROVE  TypeInv'
<1>1. Requests'
  <2>1. PICK p \in req[c].todo :
          \/ /\ Present(p)
             /\ req' = [req EXCEPT ![c] =
                  [@ EXCEPT !.pc = "lookup", !.path = p, !.data = NoText,
                            !.info = InfoOf(file[p]), !.todo = req[c].todo \ {p}]]
          \/ Answer(c)
    BY DEF ListStat
  <2> DEFINE i == InfoOf(file[p])
             T == req[c].todo \ {p}
             r == [req[c] EXCEPT !.pc = "lookup", !.path = p, !.data = NoText,
                                 !.info = i, !.todo = T]
  <2>2. CASE Present(p) /\ req' = [req EXCEPT ![c] = r]
    <3>1. p \in Doc /\ p \in File
      BY TypeFacts DEF File
    <3>2. /\ req[c] \in Request /\ i \in Info /\ T \in SUBSET Doc
          /\ Shape(req[c]) /\ req[c].pc = "walk"
      BY <2>2, <3>1, TypeFacts, FileFacts DEF ListStat
    <3>3. r \in Request /\ Shape(r)
      <4> HIDE DEF i, T
      <4> QED
        BY <3>1, <3>2 DEF Request, PC, Shape, Reading
    <3> HIDE DEF r
    <3> QED
      BY <2>2, <3>3, TypeFacts, MoveTyped
  <2>3. CASE Answer(c)
    BY <2>3, TypeFacts, AnswerTyped
  <2> QED
    BY <2>1, <2>2, <2>3
<1> QED
  BY <1>1 DEF ListStat, TypeInv, TypeOK, Requests

LEMMA ListEndTyped ==
  ASSUME TypeInv, NEW c \in Client, ListEnd(c)
  PROVE  TypeInv'
<1>1. Requests'
  BY TypeFacts, AnswerTyped DEF ListEnd
<1> QED
  BY <1>1 DEF ListEnd, TypeInv, TypeOK, Requests

LEMMA LookupTyped ==
  ASSUME TypeInv, NEW c \in Client, Lookup(c)
  PROVE  TypeInv'
<1> DEFINE p == req[c].path
<1>1. /\ p \in Doc /\ req[c].info \in Info /\ req[c].data \in Text \cup {NoText}
      /\ req[c].pc = "lookup"
  BY TypeFacts DEF Lookup, Shape
<1>2. Requests' /\ tab' \in [Client -> Tab \cup {NoText}]
  <2>1. CASE Fresh(p, req[c].info) /\ UseEntry(c, cache[p].text, req[c].data)
    <3>1. cache[p] \in CacheEntry
      BY <1>1, <2>1, TypeFacts DEF Fresh
    <3>2. cache[p].text \in Text
      BY <3>1 DEF CacheEntry
    <3> QED
      BY <1>1, <2>1, <3>2, UseEntryTyped
  <2>2. CASE Goto(c, "load") /\ UNCHANGED tab
    BY <1>1, <2>2, TypeFacts, GotoTyped
  <2>3. CASE req[c].data # NoText /\ Goto(c, "store") /\ UNCHANGED tab
    BY <1>1, <2>3, TypeFacts, GotoTyped
  <2> QED
    BY <2>1, <2>2, <2>3 DEF Lookup
<1> QED
  BY <1>2 DEF Lookup, TypeInv, TypeOK, Requests

LEMMA LoadTyped ==
  ASSUME TypeInv, NEW c \in Client, Load(c)
  PROVE  TypeInv'
<1> DEFINE p == req[c].path
           r == [req[c] EXCEPT !.pc = "store", !.data = file[p].text]
<1>1. Requests'
  <2>1. CASE Present(p) /\ req' = [req EXCEPT ![c] = r]
    <3>1. req[c] \in Request /\ Shape(req[c]) /\ req[c].pc = "load" /\ file[p].text \in Text
      BY <2>1, TypeFacts, FileFacts DEF Load
    <3>2. r \in Request /\ Shape(r)
      BY <3>1 DEF Request, PC, Shape, Reading
    <3> HIDE DEF r
    <3> QED
      BY <2>1, <3>2, TypeFacts, MoveTyped
  <2>2. CASE Answer(c)
    BY <2>2, TypeFacts, AnswerTyped
  <2> QED
    BY <2>1, <2>2 DEF Load
<1> QED
  BY <1>1 DEF Load, TypeInv, TypeOK, Requests

LEMMA StoreEntryTyped ==
  ASSUME TypeInv, NEW c \in Client, StoreEntry(c)
  PROVE  TypeInv'
<1> DEFINE e == [info |-> req[c].info, text |-> req[c].data]
<1>1. req[c].path \in Doc /\ req[c].info \in Info /\ req[c].data \in Text
  BY TypeFacts DEF StoreEntry, Shape, Reading
<1>2. cache' \in [Doc -> CacheEntry \cup {NoText}]
  <2>1. e \in CacheEntry
    BY <1>1 DEF CacheEntry
  <2>2. cache' = [cache EXCEPT ![req[c].path] = e]
    BY DEF StoreEntry
  <2> HIDE DEF e
  <2> QED
    BY <2>1, <2>2, TypeFacts
<1>3. Requests' /\ tab' \in [Client -> Tab \cup {NoText}]
  BY <1>1, UseEntryTyped DEF StoreEntry
<1> QED
  BY <1>2, <1>3 DEF StoreEntry, TypeInv, TypeOK, Requests

\* Whatever header a client sends is one.
LEMMA HeaderTyped ==
  ASSUME TypeInv, NEW c \in Client, NEW p \in File, NEW m \in Headers(c, p)
  PROVE  m \in ETag \cup {NoTag, Star}
<1>1. CASE Holds(c, p)
  <2>1. tab[c] \in Tab
    BY <1>1, TypeFacts DEF Holds
  <2> QED
    BY <1>1, <2>1 DEF Headers, Tab
<1> QED
  BY <1>1 DEF Headers

LEMMA AskWriteTyped ==
  ASSUME TypeInv, NEW c \in Client, AskWrite(c)
  PROVE  TypeInv'
<1>1. PICK op \in {"put", "delete"}, p \in File, t \in Text \cup {NoText},
           m \in ETag \cup {NoTag, Star} :
        /\ m \in Headers(c, p)
        /\ op = "put" => t \in Text
        /\ op = "delete" => t = NoText
        /\ req' = [req EXCEPT ![c] = Begin(op, p, t, m, "lock")]
  BY HeaderTyped DEF AskWrite, File
<1> DEFINE r == Begin(op, p, t, m, "lock")
<1>2. r \in Request
  BY BeginTyped DEF PC
<1>3. Shape(r)
  BY <1>1 DEF Shape, Reading, Begin
<1>4. Requests'
  <2> HIDE DEF r
  <2> QED
    BY <1>1, <1>2, <1>3, TypeFacts, MoveTyped DEF r
<1> QED
  BY <1>4 DEF AskWrite, TypeInv, TypeOK, Requests

LEMMA RefuseTyped ==
  ASSUME TypeInv, NEW c \in Client, Refuse(c)
  PROVE  TypeInv'
<1>1. Requests'
  BY TypeFacts, AnswerTyped DEF Refuse
<1> QED
  BY <1>1 DEF Refuse, TypeInv, TypeOK, Requests

LEMMA LockTyped ==
  ASSUME TypeInv, NEW c \in Client, Lock(c)
  PROVE  TypeInv'
<1>1. Requests'
  BY TypeFacts, GotoTyped DEF Lock
<1> QED
  BY <1>1 DEF Lock, TypeInv, TypeOK, Requests

LEMMA CheckTyped ==
  ASSUME TypeInv, NEW c \in Client, Check(c)
  PROVE  TypeInv'
<1>1. Requests'
  BY TypeFacts, GotoTyped, AnswerTyped DEF Check
<1>2. mu' \in Client \cup {NoText}
  BY DEF Check, TypeInv, TypeOK
<1> QED
  BY <1>1, <1>2 DEF Check, TypeInv, TypeOK, Requests

LEMMA ForgetTyped ==
  ASSUME TypeInv, NEW p, Forget(p)
  PROVE  cache' \in [Doc -> CacheEntry \cup {NoText}]
BY DEF Forget, TypeInv, TypeOK

LEMMA PutWriteTyped ==
  ASSUME TypeInv, NEW c \in Client, PutWrite(c)
  PROVE  TypeInv'
<1> DEFINE p == req[c].path
           t == req[c].body
<1>1. p \in File /\ t \in Text /\ Pretty[t] \in Text
  BY TypeFacts, TextAssumption DEF PutWrite, Shape, Reading
<1>2. file' \in [File -> Stored \cup {NoText}] /\ now' \in 0..MaxClock
  BY <1>1, TypeFacts, RewriteTyped DEF PutWrite
<1>3. Requests' /\ tab' \in [Client -> Tab \cup {NoText}]
  <2>1. etagOf(Pretty[t]) \in ETag
    BY <1>1 DEF ETag
  <2>2. Keep(c, p, t, etagOf(Pretty[t]), "put") \/ (Answer(c) /\ UNCHANGED tab)
    BY DEF PutWrite
  <2>3. CASE Answer(c) /\ UNCHANGED tab
    BY <2>3, TypeFacts, AnswerTyped
  <2> HIDE DEF p, t
  <2>4. CASE Keep(c, p, t, etagOf(Pretty[t]), "put")
    BY <1>1, <2>1, <2>4, TypeFacts, KeepTyped
  <2> QED
    BY <2>2, <2>3, <2>4
<1>4. cache' \in [Doc -> CacheEntry \cup {NoText}]
  BY ForgetTyped DEF PutWrite
<1> QED
  BY <1>2, <1>3, <1>4 DEF PutWrite, TypeInv, TypeOK, Requests

LEMMA DeleteRemoveTyped ==
  ASSUME TypeInv, NEW c \in Client, DeleteRemove(c)
  PROVE  TypeInv'
<1>1. Requests'
  BY TypeFacts, AnswerTyped DEF DeleteRemove
<1>2. cache' \in [Doc -> CacheEntry \cup {NoText}]
  BY ForgetTyped DEF DeleteRemove
<1>3. file' \in [File -> Stored \cup {NoText}]
  BY TypeFacts DEF DeleteRemove
<1> QED
  BY <1>1, <1>2, <1>3 DEF DeleteRemove, TypeInv, TypeOK, Requests

LEMMA WriteFailsTyped ==
  ASSUME TypeInv, NEW c \in Client, WriteFails(c)
  PROVE  TypeInv'
<1>1. Requests'
  BY TypeFacts, AnswerTyped DEF WriteFails
<1> QED
  BY <1>1 DEF WriteFails, TypeInv, TypeOK, Requests

LEMMA OutsideTyped ==
  ASSUME TypeInv, ExternalEdit \/ ExternalRemove
  PROVE  TypeInv'
<1>1. file' \in [File -> Stored \cup {NoText}] /\ now' \in 0..MaxClock
  <2>1. CASE ExternalEdit
    BY <2>1, RewriteTyped DEF ExternalEdit, TypeInv, TypeOK
  <2>2. CASE ExternalRemove
    BY <2>2 DEF ExternalRemove, TypeInv, TypeOK
  <2> QED
    BY <2>1, <2>2
<1>2. UNCHANGED <<cache, mu, req, tab>>
  BY DEF ExternalEdit, ExternalRemove
<1> QED
  BY <1>1, <1>2 DEF TypeInv, TypeOK, Requests

LEMMA RestartTyped ==
  ASSUME TypeInv, Restart
  PROVE  TypeInv'
<1>1. Requests'
  BY IdleTyped DEF Restart, Requests
<1> QED
  BY <1>1 DEF Restart, TypeInv, TypeOK, Requests

LEMMA StepTyped ==
  ASSUME TypeInv, [Next]_vars
  PROVE  TypeInv'
<1>1. CASE UNCHANGED vars
  BY <1>1 DEF vars, TypeInv, TypeOK, Requests
<1>2. ASSUME NEW c \in Client, Ask(c)
      PROVE  TypeInv'
  BY <1>2, AskReadTyped, AskListTyped, AskWriteTyped DEF Ask
<1>3. ASSUME NEW c \in Client, Serve(c)
      PROVE  TypeInv'
  BY <1>3, ReadRawTyped, GetReadTyped, GetStatTyped, ListStatTyped, ListEndTyped,
     LookupTyped, LoadTyped, StoreEntryTyped, RefuseTyped, LockTyped, CheckTyped,
     PutWriteTyped, DeleteRemoveTyped, WriteFailsTyped DEF Serve
<1>4. CASE ExternalEdit \/ ExternalRemove \/ Restart
  BY <1>4, OutsideTyped, RestartTyped
<1> QED
  BY <1>1, <1>2, <1>3, <1>4 DEF Next

LEMMA AlwaysTyped == Spec => []TypeInv
<1>1. TypeInv /\ [Next]_vars => TypeInv'
  BY StepTyped
<1> QED
  BY <1>1, InitTyped, PTL DEF Spec

(***************************************************************************)
(* Whatever the clients, git and the disk do, every variable of the store  *)
(* (Store in dash/store.go) keeps its type.                                *)
(***************************************************************************)
THEOREM TypeCorrect == Spec => []TypeOK
<1>1. TypeInv => TypeOK
  BY DEF TypeInv
<1> QED
  BY <1>1, AlwaysTyped, PTL

(***************************************************************************)
(* The invariant behind the write side, of each client c: only the holder  *)
(* of mu is past Lock; what Check allowed is still allowed when the file   *)
(* is replaced, because only API clients write; an If-Match header other   *)
(* than the star is the ETag the client holds; and the ETag it holds, if   *)
(* it does not come from a JSON GET, is the hash of the document it holds. *)
(***************************************************************************)
HoldsMutex(c) == req[c].pc \in {"check", "write"} => mu = c

StillAllowed(c) == req[c].pc = "write" => Allowed(req[c])

ReadsPlainly(c) ==
  req[c].pc \in Reading => req[c].match = NoTag

SendsWhatItHolds(c) ==
  Conditional(c) => Holds(c, req[c].path) /\ req[c].match = tab[c].etag

TagTrue(c) ==
  (tab[c] # NoText /\ tab[c].via # "get" /\ tab[c].etag # NoTag)
    => /\ tab[c].doc \in Text
       /\ \E t \in Text : tab[c].etag = etagOf(t) /\ Pretty[t] = Pretty[tab[c].doc]

Safe(c) ==
  HoldsMutex(c) /\ StillAllowed(c) /\ ReadsPlainly(c) /\ SendsWhatItHolds(c) /\ TagTrue(c)

WriteInv == \A c \in Client : Safe(c)

LEMMA InitSafe == Init => WriteInv
<1> SUFFICES ASSUME Init, NEW c \in Client
             PROVE  Safe(c)
  BY DEF WriteInv
<1>1. req[c] = Idle /\ tab[c] = NoText
  BY DEF Init
<1>2. req[c].pc = "idle" /\ req[c].match = NoTag
  BY <1>1 DEF Idle, Begin
<1> QED
  BY <1>1, <1>2 DEF Safe, HoldsMutex, StillAllowed, ReadsPlainly, Reading, SendsWhatItHolds, TagTrue,
       Conditional

\* A client that a step is not about, and which does not hold the mutex
\* unless the step leaves file and mutex alone, stays safe.
LEMMA OthersSafe ==
  ASSUME NEW c \in Client, Safe(c), req'[c] = req[c], tab'[c] = tab[c],
         (file' = file /\ mu' = mu) \/ mu # c
  PROVE  Safe(c)'
<1>1. HoldsMutex(c)'
  BY DEF Safe, HoldsMutex
<1>2. StillAllowed(c)'
  BY DEF Safe, HoldsMutex, StillAllowed, Allowed, PutAllowed, DeleteAllowed, Present
<1>3. ReadsPlainly(c)' /\ SendsWhatItHolds(c)' /\ TagTrue(c)'
  BY DEF Safe, ReadsPlainly, Reading, SendsWhatItHolds, TagTrue, Conditional, Holds
<1> QED
  BY <1>1, <1>2, <1>3 DEF Safe

\* An answered request is safe if the document kept is.
LEMMA AnswerSafe ==
  ASSUME TypeInv, NEW c \in Client, Safe(c), Answer(c), TagTrue(c)'
  PROVE  Safe(c)'
<1>1. req'[c] = Idle
  BY TypeFacts DEF Answer, Requests
<1>2. req'[c].pc = "idle" /\ req'[c].match = NoTag
  BY <1>1 DEF Idle, Begin
<1> QED
  BY <1>2 DEF Safe, HoldsMutex, StillAllowed, ReadsPlainly, Reading, SendsWhatItHolds, Conditional

LEMMA RefusalSafe ==
  ASSUME TypeInv, NEW c \in Client, Safe(c), Answer(c), UNCHANGED tab
  PROVE  Safe(c)'
<1>1. TagTrue(c)'
  BY DEF Safe, TagTrue
<1> QED
  BY <1>1, AnswerSafe

\* A JSON GET proves nothing about the document and claims nothing.
LEMMA GetSafe ==
  ASSUME TypeInv, NEW c \in Client, Safe(c), NEW p, NEW d, NEW e, Keep(c, p, d, e, "get")
  PROVE  Safe(c)'
<1>1. tab'[c].via = "get"
  BY TypeFacts DEF Keep
<1> QED
  BY <1>1, AnswerSafe DEF Keep, TagTrue

LEMMA DocumentSafe ==
  ASSUME TypeInv, NEW c \in Client, Safe(c), NEW p, NEW d \in Text, NEW t \in Text,
         NEW via, Pretty[t] = Pretty[d], Keep(c, p, d, etagOf(t), via)
  PROVE  Safe(c)'
<1>1. tab'[c].etag = etagOf(t) /\ tab'[c].doc = d
  BY TypeFacts DEF Keep
<1> QED
  BY <1>1, AnswerSafe DEF Keep, TagTrue

\* A step on the way of a reading request.
LEMMA ReadingSafe ==
  ASSUME TypeInv, NEW c \in Client, Safe(c),
         req[c].pc \in {"read", "stat", "walk", "lookup", "load", "store"},
         req'[c].pc \in {"stat", "walk", "lookup", "load", "store"},
         req'[c].match = req[c].match, UNCHANGED tab
  PROVE  Safe(c)'
BY DEF Safe, HoldsMutex, StillAllowed, ReadsPlainly, Reading, SendsWhatItHolds, TagTrue, Conditional

(***************************************************************************)
(* One client's step keeps that client safe.                               *)
(***************************************************************************)
LEMMA AskSafe ==
  ASSUME TypeInv, NEW c \in Client, Safe(c), Ask(c)
  PROVE  Safe(c)'
<1>1. UNCHANGED tab
  BY DEF Ask, AskRead, AskList, AskWrite
<1>2. TagTrue(c)'
  BY <1>1 DEF Safe, TagTrue
<1>3. CASE AskRead(c) \/ AskList(c)
  <2>1. req'[c].pc \in {"read", "walk"} /\ req'[c].match = NoTag
    BY <1>3, TypeFacts DEF AskRead, AskList, Requests, Begin
  <2> QED
    BY <1>2, <2>1 DEF Safe, HoldsMutex, StillAllowed, ReadsPlainly, Reading, SendsWhatItHolds, Conditional
<1>4. CASE AskWrite(c)
  <2>1. PICK op \in {"put", "delete"}, p \in File, t \in Text \cup {NoText},
             m \in ETag \cup {NoTag, Star} :
          m \in Headers(c, p) /\ req' = [req EXCEPT ![c] = Begin(op, p, t, m, "lock")]
    BY <1>4, HeaderTyped DEF AskWrite, File
  <2>2. req'[c].pc = "lock" /\ req'[c].path = p /\ req'[c].match = m
    BY <2>1, TypeFacts DEF Requests, Begin
  <2>3. m \notin {NoTag, Star} => Holds(c, p) /\ m = tab[c].etag
    BY <2>1 DEF Headers
  <2> QED
    BY <1>1, <1>2, <2>2, <2>3
    DEF Safe, HoldsMutex, StillAllowed, ReadsPlainly, Reading, SendsWhatItHolds, Conditional, Holds
<1> QED
  BY <1>3, <1>4 DEF Ask

LEMMA ReadRawSafe ==
  ASSUME TypeInv, NEW c \in Client, Safe(c), ReadRaw(c)
  PROVE  Safe(c)'
<1> DEFINE p == req[c].path
<1>1. CASE Present(p) /\ Keep(c, p, file[p].text, etagOf(file[p].text), "raw")
  <2>1. file[p].text \in Text
    BY <1>1, TypeFacts, FileFacts
  <2> QED
    BY <1>1, <2>1, DocumentSafe
<1>2. CASE Keep(c, p, NoText, NoTag, "raw")
  <2>1. tab'[c].etag = NoTag
    BY <1>2, TypeFacts DEF Keep
  <2> QED
    BY <1>2, <2>1, AnswerSafe DEF Keep, TagTrue
<1>3. CASE Answer(c) /\ UNCHANGED tab
  BY <1>3, RefusalSafe
<1> QED
  BY <1>1, <1>2, <1>3 DEF ReadRaw

\* A reading step that does not answer stays a reading request.
LEMMA StepPc ==
  ASSUME TypeInv, NEW c \in Client, ~Answer(c),
         GetRead(c) \/ GetStat(c) \/ ListStat(c) \/ ListEnd(c) \/ Load(c)
  PROVE  /\ req'[c].pc \in {"stat", "lookup", "store"}
         /\ req'[c].match = req[c].match /\ req'[c].op = req[c].op
<1>1. CASE GetRead(c) \/ GetStat(c) \/ Load(c)
  <2>1. \/ \E d : req' = [req EXCEPT ![c] = [@ EXCEPT !.pc = "stat", !.data = d]]
        \/ \E d : req' = [req EXCEPT ![c] = [@ EXCEPT !.pc = "store", !.data = d]]
        \/ \E i : req' = [req EXCEPT ![c] = [@ EXCEPT !.pc = "lookup", !.info = i]]
    BY <1>1 DEF GetRead, GetStat, Load
  <2>2. req \in [Client -> Request] /\ req[c] \in Request
    BY TypeFacts DEF Requests
  <2>3. \/ \E d : req'[c] = [req[c] EXCEPT !.pc = "stat", !.data = d]
        \/ \E d : req'[c] = [req[c] EXCEPT !.pc = "store", !.data = d]
        \/ \E i : req'[c] = [req[c] EXCEPT !.pc = "lookup", !.info = i]
    BY <2>1, <2>2
  <2> QED
    BY <2>2, <2>3 DEF Request
<1>2. CASE ListStat(c)
  <2>1. PICK p \in req[c].todo :
          req' = [req EXCEPT ![c] =
            [@ EXCEPT !.pc = "lookup", !.path = p, !.data = NoText,
                      !.info = InfoOf(file[p]), !.todo = req[c].todo \ {p}]]
    BY <1>2 DEF ListStat
  <2> QED
    BY <2>1, TypeFacts DEF Requests, Request
<1>3. CASE ListEnd(c)
  BY <1>3 DEF ListEnd
<1> QED
  BY <1>1, <1>2, <1>3

LEMMA ReadSafe ==
  ASSUME TypeInv, NEW c \in Client, Safe(c),
         GetRead(c) \/ GetStat(c) \/ ListStat(c) \/ ListEnd(c) \/ Load(c)
  PROVE  Safe(c)'
<1>1. UNCHANGED tab
  BY DEF GetRead, GetStat, ListStat, ListEnd, Load
<1>2. CASE Answer(c)
  BY <1>1, <1>2, RefusalSafe
<1>3. CASE ~Answer(c)
  <2>1. req[c].pc \in {"read", "stat", "walk", "load"}
    BY DEF GetRead, GetStat, ListStat, ListEnd, Load
  <2>2. req'[c].pc \in {"stat", "lookup", "store"} /\ req'[c].match = req[c].match
    BY <1>3, StepPc
  <2> QED
    BY <1>1, <2>1, <2>2, ReadingSafe
<1> QED
  BY <1>2, <1>3

LEMMA UseEntrySafe ==
  ASSUME TypeInv, NEW c \in Client, Safe(c), NEW t, NEW d,
         req[c].pc \in {"lookup", "store"}, UseEntry(c, t, d)
  PROVE  Safe(c)'
<1>1. CASE Keep(c, req[c].path, d, etagOf(t), "get")
  BY <1>1, GetSafe
<1>2. CASE /\ req' = [req EXCEPT ![c] =
                [@ EXCEPT !.pc = "walk",
                          !.entries = req[c].entries \cup {<<req[c].path, t>>}]]
           /\ UNCHANGED tab
  <2>1. req'[c].pc = "walk" /\ req'[c].match = req[c].match
    BY <1>2, TypeFacts DEF Requests, Request
  <2> QED
    BY <1>2, <2>1, ReadingSafe
<1> QED
  BY <1>1, <1>2 DEF UseEntry

LEMMA CacheSafe ==
  ASSUME TypeInv, NEW c \in Client, Safe(c), Lookup(c) \/ StoreEntry(c)
  PROVE  Safe(c)'
<1>1. CASE \E t, d : UseEntry(c, t, d)
  BY <1>1, UseEntrySafe DEF Lookup, StoreEntry
<1>2. CASE (Goto(c, "load") \/ Goto(c, "store")) /\ UNCHANGED tab /\ req[c].pc = "lookup"
  <2>1. req'[c].pc \in {"load", "store"} /\ req'[c].match = req[c].match
    BY <1>2, TypeFacts DEF Goto, Requests, Request
  <2> QED
    BY <1>2, <2>1, ReadingSafe
<1> QED
  BY <1>1, <1>2 DEF Lookup, StoreEntry

\* A step of a writing request that does not answer it yet.
LEMMA GotoSafe ==
  ASSUME TypeInv, NEW c \in Client, Safe(c), NEW pc \in {"check", "write"}, Goto(c, pc),
         mu' = c, UNCHANGED <<file, tab>>, pc = "write" => Allowed(req[c])
  PROVE  Safe(c)'
<1>1. /\ req'[c].pc = pc /\ req'[c].op = req[c].op /\ req'[c].path = req[c].path
      /\ req'[c].match = req[c].match
  BY TypeFacts DEF Goto, Requests, Request
<1>2. StillAllowed(c)'
  BY <1>1 DEF StillAllowed, Allowed, PutAllowed, DeleteAllowed, Present
<1>3. SendsWhatItHolds(c)' /\ TagTrue(c)'
  BY <1>1 DEF Safe, SendsWhatItHolds, TagTrue, Conditional, Holds
<1> QED
  BY <1>1, <1>2, <1>3 DEF Safe, HoldsMutex, ReadsPlainly, Reading

LEMMA WritingSafe ==
  ASSUME TypeInv, NEW c \in Client, Safe(c),
         Refuse(c) \/ Lock(c) \/ Check(c) \/ DeleteRemove(c) \/ WriteFails(c)
  PROVE  Safe(c)'
<1>1. CASE Answer(c) /\ UNCHANGED tab
  BY <1>1, RefusalSafe
<1>2. CASE Lock(c)
  BY <1>2, GotoSafe DEF Lock
<1>3. CASE Check(c) /\ Allowed(req[c]) /\ Goto(c, "write") /\ UNCHANGED mu
  <2>1. mu = c
    BY <1>3 DEF Check, Safe, HoldsMutex
  <2> QED
    BY <1>3, <2>1, GotoSafe DEF Check
<1> QED
  BY <1>1, <1>2, <1>3 DEF Refuse, Check, DeleteRemove, WriteFails

LEMMA PutWriteSafe ==
  ASSUME TypeInv, NEW c \in Client, Safe(c), PutWrite(c)
  PROVE  Safe(c)'
<1>1. req[c].body \in Text
  BY TypeFacts DEF PutWrite, Shape, Reading
<1>2. Pretty[req[c].body] \in Text /\ Pretty[Pretty[req[c].body]] = Pretty[req[c].body]
  BY <1>1, TextAssumption
<1> QED
  BY <1>1, <1>2, DocumentSafe, RefusalSafe DEF PutWrite

(***************************************************************************)
(* A step of client d changes d's request and tab alone, and file and      *)
(* mutex only while no other client holds the mutex.                       *)
(***************************************************************************)
LEMMA OneMoves ==
  ASSUME TypeInv, NEW d \in Client, Ask(d) \/ Serve(d), NEW c \in Client, c # d
  PROVE  req'[c] = req[c] /\ tab'[c] = tab[c]
<1> DEFINE Moves == \E r : req' = [req EXCEPT ![d] = r]
           Keeps == tab' = tab \/ \E x : tab' = [tab EXCEPT ![d] = x]
<1>1. req \in [Client -> Request] /\ tab \in [Client -> Tab \cup {NoText}]
  BY TypeFacts DEF Requests
<1>2. CASE Ask(d)
  BY <1>1, <1>2 DEF Ask, AskRead, AskList, AskWrite
<1>3. CASE Lookup(d) \/ StoreEntry(d)
  BY <1>1, <1>3 DEF Lookup, StoreEntry, UseEntry, Goto, Keep, Answer
<1>4. CASE GetRead(d) \/ GetStat(d) \/ ListEnd(d) \/ Load(d)
  BY <1>1, <1>4 DEF GetRead, GetStat, ListEnd, Load, Answer
<1>5. CASE ListStat(d)
  <2>1. Moves
    BY <1>5 DEF ListStat, Answer
  <2> QED
    BY <1>1, <1>5, <2>1 DEF ListStat
<1>6. CASE Refuse(d) \/ Lock(d) \/ Check(d) \/ DeleteRemove(d) \/ WriteFails(d)
  BY <1>1, <1>6 DEF Refuse, Lock, Check, DeleteRemove, WriteFails, Goto, Answer
<1>7. CASE ReadRaw(d) \/ PutWrite(d)
  BY <1>1, <1>7 DEF ReadRaw, PutWrite, Keep, Answer
<1> QED
  BY <1>2, <1>3, <1>4, <1>5, <1>6, <1>7 DEF Serve

LEMMA OneWrites ==
  ASSUME TypeInv, WriteInv, NEW d \in Client, Ask(d) \/ Serve(d), NEW c \in Client, c # d
  PROVE  (file' = file /\ mu' = mu) \/ mu # c
<1>1. CASE Ask(d)
  BY <1>1 DEF Ask, AskRead, AskList, AskWrite
<1>2. CASE \/ ReadRaw(d) \/ GetRead(d) \/ GetStat(d) \/ ListStat(d) \/ ListEnd(d)
           \/ Lookup(d) \/ Load(d) \/ StoreEntry(d) \/ Refuse(d)
  BY <1>2 DEF ReadRaw, GetRead, GetStat, ListStat, ListEnd, Lookup, Load, StoreEntry, Refuse
<1>3. CASE Lock(d)
  BY <1>3, TextAssumption DEF Lock
<1>4. CASE Check(d) \/ PutWrite(d) \/ DeleteRemove(d) \/ WriteFails(d)
  <2>1. req[d].pc \in {"check", "write"}
    BY <1>4 DEF Check, PutWrite, DeleteRemove, WriteFails
  <2>2. mu = d
    BY <2>1 DEF WriteInv, Safe, HoldsMutex
  <2> QED
    BY <2>2
<1> QED
  BY <1>1, <1>2, <1>3, <1>4 DEF Serve

LEMMA RestartSafe ==
  ASSUME TypeInv, WriteInv, Restart
  PROVE  WriteInv'
<1> SUFFICES ASSUME NEW c \in Client
             PROVE  Safe(c)'
  BY DEF WriteInv
<1>1. req'[c] = Idle /\ tab'[c] = tab[c] /\ Safe(c)
  BY DEF Restart, WriteInv
<1>2. req'[c].pc = "idle" /\ req'[c].match = NoTag
  BY <1>1 DEF Idle, Begin
<1>3. TagTrue(c)'
  BY <1>1 DEF Safe, TagTrue
<1> QED
  BY <1>2, <1>3 DEF Safe, HoldsMutex, StillAllowed, ReadsPlainly, Reading, SendsWhatItHolds, Conditional

LEMMA StepSafe ==
  ASSUME ~Outside, TypeInv, WriteInv, [Next]_vars
  PROVE  WriteInv'
<1>1. CASE UNCHANGED vars
  <2> SUFFICES ASSUME NEW c \in Client
               PROVE  Safe(c)'
    BY DEF WriteInv
  <2>1. Safe(c) /\ req'[c] = req[c] /\ tab'[c] = tab[c] /\ file' = file /\ mu' = mu
    BY <1>1 DEF vars, WriteInv
  <2> QED
    BY <2>1, OthersSafe
<1>2. ASSUME NEW d \in Client, Ask(d) \/ Serve(d)
      PROVE  WriteInv'
  <2> SUFFICES ASSUME NEW c \in Client
               PROVE  Safe(c)'
    BY DEF WriteInv
  <2>1. Safe(c)
    BY DEF WriteInv
  <2>2. CASE c = d
    BY <1>2, <2>1, <2>2, AskSafe, ReadRawSafe, ReadSafe, CacheSafe, WritingSafe, PutWriteSafe
    DEF Serve
  <2>3. CASE c # d
    <3>1. req'[c] = req[c] /\ tab'[c] = tab[c]
      BY <1>2, <2>3, OneMoves
    <3>2. (file' = file /\ mu' = mu) \/ mu # c
      BY <1>2, <2>3, OneWrites
    <3> QED
      BY <2>1, <3>1, <3>2, OthersSafe
  <2> QED
    BY <2>2, <2>3
<1>3. CASE Restart
  BY <1>3, RestartSafe
<1> QED
  BY <1>1, <1>2, <1>3 DEF Next, ExternalEdit, ExternalRemove

LEMMA AlwaysSafe ==
  ASSUME ~Outside
  PROVE  Spec => [](TypeInv /\ WriteInv)
<1>1. Init => TypeInv /\ WriteInv
  BY InitTyped, InitSafe
<1>2. TypeInv /\ WriteInv /\ [Next]_vars => (TypeInv /\ WriteInv)'
  BY StepTyped, StepSafe
<1> QED
  BY <1>1, <1>2, PTL DEF Spec

(***************************************************************************)
(* As long as files change through the API only, no PUT without If-Match   *)
(* (store.go:382-384) replaces a document, for any number of clients.      *)
(***************************************************************************)
THEOREM NoBlindPut ==
  ASSUME ~Outside
  PROVE  Spec => NoBlindOverwrite
<1>1. TypeInv /\ WriteInv =>
        \A c \in Client :
          (Writes(c) /\ req[c].op = "put" /\ req[c].match = NoTag) => ~Present(req[c].path)
  <2> SUFFICES ASSUME TypeInv, WriteInv, NEW c \in Client, Writes(c),
                      req[c].op = "put", req[c].match = NoTag, Present(req[c].path)
               PROVE  FALSE
    OBVIOUS
  <2>1. Allowed(req[c])
    BY DEF WriteInv, Safe, StillAllowed, Writes
  <2>2. file[req[c].path].text \in Text
    BY TypeFacts, FileFacts
  <2> QED
    BY <2>1, <2>2, TagAssumption DEF Allowed, PutAllowed, etagOf
<1> QED
  BY <1>1, AlwaysSafe, PTL DEF NoBlindOverwrite

(***************************************************************************)
(* As long as files change through the API only, a PUT or DELETE with the  *)
(* ETag of a download, of the theme or of an earlier PUT (store.go:385,    *)
(* 421) changes the document its client holds and no other.                *)
(***************************************************************************)
THEOREM NoLostUpdate ==
  ASSUME ~Outside
  PROVE  Spec => RawNeverLost
<1>1. TypeInv /\ WriteInv =>
        \A c \in Client :
          (Writes(c) /\ Conditional(c) /\ tab[c].via # "get") => ChangesWhatItHolds(c)
  <2> SUFFICES ASSUME TypeInv, WriteInv, NEW c \in Client, Writes(c),
                      Conditional(c), tab[c].via # "get"
               PROVE  ChangesWhatItHolds(c)
    OBVIOUS
  <2> DEFINE p == req[c].path
  <2>1. Safe(c) /\ Allowed(req[c])
    BY DEF WriteInv, Safe, StillAllowed, Writes
  <2>2. Present(p) /\ req[c].match = etagOf(file[p].text)
    BY <2>1 DEF Allowed, PutAllowed, DeleteAllowed, Conditional
  <2>3. tab[c] # NoText /\ req[c].match = tab[c].etag /\ tab[c].etag # NoTag
    BY <2>1 DEF Safe, SendsWhatItHolds, Conditional, Holds
  <2>4. PICK t \in Text : tab[c].etag = etagOf(t) /\ Pretty[t] = Pretty[tab[c].doc]
    BY <2>1, <2>3 DEF Safe, TagTrue
  <2>5. t = file[p].text
    BY <2>2, <2>3, <2>4 DEF etagOf
  <2> QED
    BY <2>2, <2>4, <2>5 DEF ChangesWhatItHolds
<1> QED
  BY <1>1, AlwaysSafe, PTL DEF RawNeverLost

(***************************************************************************)
(* The store implements DashDocuments.                                     *)
(***************************************************************************)
DocInv == TypeInv /\ WriteInv

bars == <<docBar, heldBar, askBar>>

LEMMA IdleAsksNothing == \A t : AskOf(Idle, t) = NoText
BY DEF AskOf, Idle, Begin

\* A request that reads asks for no change.
LEMMA ReadingAsksNothing ==
  ASSUME TypeInv, NEW c \in Client, req[c].pc \in Reading
  PROVE  AskOf(req[c], tab[c]) = NoText
BY TypeFacts DEF Shape, AskOf

\* A step that changes no file and no tab, and no asked change, is a stutter.
LEMMA QuietStep ==
  ASSUME TypeInv, NEW c \in Client, Ask(c) \/ Serve(c), UNCHANGED <<file, tab>>,
         AskOf(req'[c], tab'[c]) = AskOf(req[c], tab[c])
  PROVE  UNCHANGED bars
<1>1. docBar' = docBar
  BY DEF docBar, Present
<1>2. heldBar' = heldBar
  BY DEF heldBar, HeldOf, DocumentOf
<1>3. \A d \in Client : AskOf(req'[d], tab'[d]) = AskOf(req[d], tab[d])
  BY OneMoves
<1>4. askBar' = [d \in Client |-> AskOf(req'[d], tab'[d])]
  BY DEF askBar, AskOf, How, DocumentOf
<1> QED
  BY <1>1, <1>2, <1>3, <1>4 DEF bars, askBar

\* An answer that changes nothing refuses whatever was asked.
LEMMA AnswerRefuses ==
  ASSUME TypeInv, NEW c \in Client, Serve(c), Answer(c), UNCHANGED <<file, tab>>
  PROVE  Documents!Refuse
<1>1. docBar' = docBar /\ heldBar' = heldBar
  BY DEF docBar, Present, heldBar, HeldOf, DocumentOf
<1>2. req'[c] = Idle /\ \A d \in Client : d # c => req'[d] = req[d]
  BY TypeFacts, OneMoves DEF Answer, Requests
<1>3. askBar' = [d \in Client |-> AskOf(req'[d], tab'[d])]
  BY DEF askBar, AskOf, How, DocumentOf
<1>4. askBar' = [d \in Client |-> IF d \in {c} THEN NoText ELSE askBar[d]]
  BY <1>2, <1>3, IdleAsksNothing DEF askBar
<1>5. {c} \in SUBSET Client
  OBVIOUS
<1> QED
  BY <1>1, <1>4, <1>5 DEF Documents!Refuse

\* The step of a reading request that keeps nothing.
LEMMA ReadingStep ==
  ASSUME TypeInv, NEW c \in Client,
         GetRead(c) \/ GetStat(c) \/ ListStat(c) \/ ListEnd(c) \/ Load(c)
  PROVE  UNCHANGED bars \/ Documents!Refuse
<1>1. UNCHANGED <<file, tab>> /\ Serve(c)
  BY DEF GetRead, GetStat, ListStat, ListEnd, Load, Serve
<1>2. CASE Answer(c)
  BY <1>1, <1>2, AnswerRefuses
<1>3. CASE ~Answer(c)
  <2>1. req[c].pc \in Reading
    BY DEF GetRead, GetStat, ListStat, ListEnd, Load, Reading
  <2>2. req'[c].pc \in Reading
    BY <1>3, StepPc DEF Reading
  <2>3. TypeInv'
    BY GetReadTyped, GetStatTyped, ListStatTyped, ListEndTyped, LoadTyped
  <2>4. AskOf(req[c], tab[c]) = NoText
    BY <2>1, ReadingAsksNothing
  <2>5. AskOf(req'[c], tab'[c]) = NoText
    BY <2>2, <2>3, TypeFacts DEF TypeInv, Requests, Shape, AskOf
  <2> QED
    BY <1>1, <2>4, <2>5, QuietStep
<1> QED
  BY <1>2, <1>3

LEMMA CacheStep ==
  ASSUME TypeInv, NEW c \in Client, Lookup(c) \/ StoreEntry(c)
  PROVE  UNCHANGED bars \/ Documents!Forget(c)
<1>1. req[c].pc \in Reading /\ Serve(c) /\ UNCHANGED file
  BY DEF Lookup, StoreEntry, Reading, Serve
<1>2. TypeInv'
  BY LookupTyped, StoreEntryTyped
<1>3. AskOf(req[c], tab[c]) = NoText
  BY <1>1, ReadingAsksNothing
<1>4. CASE req'[c].pc \in Reading /\ UNCHANGED tab
  <2>1. AskOf(req'[c], tab'[c]) = NoText
    BY <1>2, <1>4, TypeFacts DEF TypeInv, Requests, Shape, AskOf
  <2> QED
    BY <1>1, <1>3, <1>4, <2>1, QuietStep
<1>5. ASSUME NEW p, NEW d, NEW e, Keep(c, p, d, e, "get")
      PROVE  Documents!Forget(c)
  <2>1. req'[c] = Idle /\ tab'[c].via = "get"
    BY <1>5, TypeFacts DEF Keep, Answer, Requests
  <2>2. HeldOf(tab'[c]) = NoText /\ AskOf(req'[c], tab'[c]) = NoText
    BY <2>1, IdleAsksNothing DEF HeldOf
  <2>3. \A x \in Client : x # c => req'[x] = req[x] /\ tab'[x] = tab[x]
    BY <1>1, OneMoves
  <2>4. docBar' = docBar
    BY <1>1 DEF docBar, Present
  <2>5. heldBar' = [heldBar EXCEPT ![c] = NoText]
    <3>1. heldBar' = [x \in Client |-> HeldOf(tab'[x])]
      BY DEF heldBar, HeldOf, DocumentOf
    <3> QED
      BY <2>2, <2>3, <3>1 DEF heldBar
  <2>6. askBar' = askBar
    <3>1. askBar' = [x \in Client |-> AskOf(req'[x], tab'[x])]
      BY DEF askBar, AskOf, How, DocumentOf
    <3> QED
      BY <1>3, <2>2, <2>3, <3>1 DEF askBar
  <2>7. askBar[c] = NoText
    BY <1>3 DEF askBar
  <2> QED
    BY <2>4, <2>5, <2>6, <2>7 DEF Documents!Forget
<1>6. CASE \E t, d : UseEntry(c, t, d)
  <2>1. PICK t, d : UseEntry(c, t, d)
    BY <1>6
  <2>2. CASE Keep(c, req[c].path, d, etagOf(t), "get")
    BY <1>5, <2>2
  <2>3. CASE /\ req' = [req EXCEPT ![c] =
                  [@ EXCEPT !.pc = "walk",
                            !.entries = req[c].entries \cup {<<req[c].path, t>>}]]
             /\ UNCHANGED tab
    <3>1. req'[c].pc \in Reading
      BY <2>3, TypeFacts DEF Requests, Request, Reading
    <3> QED
      BY <1>4, <2>3, <3>1
  <2> QED
    BY <2>1, <2>2, <2>3 DEF UseEntry
<1>7. CASE (Goto(c, "load") \/ Goto(c, "store")) /\ UNCHANGED tab
  <2>1. req'[c].pc \in Reading
    BY <1>7, TypeFacts DEF Goto, Requests, Request, Reading
  <2> QED
    BY <1>4, <1>7, <2>1
<1> QED
  BY <1>6, <1>7 DEF Lookup, StoreEntry

LEMMA AskReadStep ==
  ASSUME TypeInv, NEW c \in Client, AskRead(c) \/ AskList(c)
  PROVE  UNCHANGED bars
<1>1. req[c] = Idle /\ UNCHANGED <<file, tab>> /\ Ask(c)
  BY DEF AskRead, AskList, Ask
<1>2. req'[c].op \in {"get", "raw", "list"}
  BY TypeFacts DEF AskRead, AskList, Requests, Begin
<1>3. AskOf(req'[c], tab'[c]) = AskOf(req[c], tab[c])
  BY <1>1, <1>2, IdleAsksNothing DEF AskOf
<1> QED
  BY <1>1, <1>3, QuietStep

\* A download, or the theme, tells its client what the document is.
LEMMA LearnStep ==
  ASSUME TypeInv, NEW c \in Client, ReadRaw(c)
  PROVE  UNCHANGED bars \/ Documents!Learn(c)
<1> DEFINE p == req[c].path
<1>1. p \in File /\ req[c].pc \in Reading /\ UNCHANGED file /\ Serve(c)
  BY TypeFacts DEF ReadRaw, Reading, Serve
<1>2. req'[c] = Idle /\ AskOf(req'[c], tab'[c]) = NoText /\ AskOf(req[c], tab[c]) = NoText
  BY <1>1, TypeFacts, IdleAsksNothing, ReadingAsksNothing DEF ReadRaw, Keep, Answer, Requests
<1>3. docBar' = docBar
  BY <1>1 DEF docBar, Present
<1>4. askBar' = askBar
  <2>1. \A d \in Client : AskOf(req'[d], tab'[d]) = AskOf(req[d], tab[d])
    BY <1>1, <1>2, OneMoves
  <2>2. askBar' = [d \in Client |-> AskOf(req'[d], tab'[d])]
    BY DEF askBar, AskOf, How, DocumentOf
  <2> QED
    BY <2>1, <2>2 DEF askBar
<1>5. CASE UNCHANGED tab
  BY <1>1, <1>2, <1>5, QuietStep
<1>6. ASSUME NEW d \in Text \cup {NoText}, NEW e \in ETag \cup {NoTag}, Keep(c, p, d, e, "raw"), docBar[p] = DocumentOf(d)
      PROVE  Documents!Learn(c)
  <2>1. tab'[c] = [path |-> p, doc |-> d, etag |-> e, via |-> "raw"]
    BY <1>6, TypeFacts DEF Keep
  <2>2. HeldOf(tab'[c]) = [path |-> p, doc |-> docBar[p]]
    <3>1. tab'[c] \in Tab
      BY <1>1, <2>1 DEF Tab
    <3>2. tab'[c] # NoText
      BY <3>1, NothingAssumption
    <3> QED
      BY <1>6, <2>1, <3>2 DEF HeldOf
  <2>3. \A x \in Client : x # c => HeldOf(tab'[x]) = HeldOf(tab[x])
    BY <1>1, OneMoves
  <2>4. heldBar' = [x \in Client |-> HeldOf(tab'[x])]
    BY DEF heldBar, HeldOf, DocumentOf
  <2>5. heldBar' = [heldBar EXCEPT ![c] = [path |-> p, doc |-> docBar[p]]]
    BY <2>2, <2>3, <2>4 DEF heldBar
  <2>6. askBar[c] = NoText
    BY <1>2 DEF askBar
  <2> QED
    BY <1>1, <1>3, <1>4, <2>5, <2>6 DEF Documents!Learn
<1>7. CASE Present(p) /\ Keep(c, p, file[p].text, etagOf(file[p].text), "raw")
  <2>1. file[p].text \in Text /\ docBar[p] = DocumentOf(file[p].text)
    BY <1>1, <1>7, FileFacts, TextAssumption DEF docBar, DocumentOf
  <2>2. etagOf(file[p].text) \in ETag
    BY <2>1 DEF ETag
  <2> QED
    BY <1>6, <1>7, <2>1, <2>2
<1>8. CASE ~Present(p) /\ Keep(c, p, NoText, NoTag, "raw")
  <2>1. docBar[p] = DocumentOf(NoText)
    BY <1>1, <1>8 DEF docBar, DocumentOf
  <2> QED
    BY <1>6, <1>8, <2>1
<1> QED
  BY <1>5, <1>7, <1>8 DEF ReadRaw

\* A client that asks to write says what change it wants.
LEMMA AskWriteStep ==
  ASSUME TypeInv, NEW c \in Client, AskWrite(c)
  PROVE  Documents!Ask(c)
<1>1. UNCHANGED <<file, tab>> /\ Ask(c) /\ req[c] = Idle
  BY DEF AskWrite, Ask
<1>2. docBar' = docBar /\ heldBar' = heldBar
  BY <1>1 DEF docBar, Present, heldBar, HeldOf, DocumentOf
<1>3. PICK op \in {"put", "delete"}, p \in File, t \in Text \cup {NoText},
           m \in ETag \cup {NoTag, Star} :
        m \in Headers(c, p) /\ req' = [req EXCEPT ![c] = Begin(op, p, t, m, "lock")]
  BY HeaderTyped DEF AskWrite, File
<1> DEFINE r == Begin(op, p, t, m, "lock")
           a == [path |-> p, new |-> DocumentOf(t), how |-> How(r, tab[c])]
<1>4. req'[c] = r
  BY <1>3, TypeFacts DEF Requests
<1>5. AskOf(r, tab[c]) = a
  BY DEF AskOf, Begin
<1>6. a \in Documents!Change
  <2>1. DocumentOf(t) \in Text \cup {NoText}
    BY TextAssumption DEF DocumentOf
  <2>2. How(r, tab[c]) \in {"create", "update", "force"}
    BY DEF How
  <2> QED
    BY <2>1, <2>2 DEF Documents!Change
<1>7. a.how = "update" => heldBar[c] # NoText /\ heldBar[c].path = a.path
  <2>1. a.how = How(r, tab[c]) /\ a.path = p
    OBVIOUS
  <2>2. How(r, tab[c]) = "update" => m \notin {NoTag, Star} /\ tab[c].via # "get"
    BY DEF How, Begin
  <2>3. m \notin {NoTag, Star} => Holds(c, p)
    BY <1>3 DEF Headers
  <2>4. Holds(c, p) /\ tab[c].via # "get" => heldBar[c] # NoText /\ heldBar[c].path = p
    <3>1. tab[c] # NoText => tab[c] \in Tab
      BY TypeFacts
    <3>2. tab[c] # NoText => [path |-> tab[c].path, doc |-> DocumentOf(tab[c].doc)] \in Documents!Holding
      BY <3>1, TextAssumption DEF Tab, DocumentOf, Documents!Holding
    <3> QED
      BY <3>2, NoChangeAssumption DEF Holds, heldBar, HeldOf
  <2> QED
    BY <2>1, <2>2, <2>3, <2>4
<1>8. askBar[c] = NoText
  BY <1>1, IdleAsksNothing DEF askBar
<1>9. askBar' = [askBar EXCEPT ![c] = a]
  <2>1. \A d \in Client : d # c => AskOf(req'[d], tab'[d]) = AskOf(req[d], tab[d])
    BY <1>1, OneMoves
  <2>2. askBar' = [d \in Client |-> AskOf(req'[d], tab'[d])]
    BY DEF askBar, AskOf, How, DocumentOf
  <2>3. AskOf(req'[c], tab'[c]) = a
    <3>1. tab'[c] = tab[c]
      BY <1>1
    <3> HIDE DEF a, r
    <3> QED
      BY <1>4, <1>5, <3>1
  <2> HIDE DEF a
  <2> QED
    BY <2>1, <2>2, <2>3 DEF askBar
<1> HIDE DEF a
<1>10. askBar'[c] = a
  BY <1>9 DEF askBar
<1> QED
  BY <1>2, <1>6, <1>7, <1>8, <1>9, <1>10 DEF Documents!Ask

\* What a writing request does before it writes, and how it is refused.
LEMMA WritingStep ==
  ASSUME TypeInv, NEW c \in Client, Refuse(c) \/ Lock(c) \/ Check(c) \/ WriteFails(c)
  PROVE  UNCHANGED bars \/ Documents!Refuse
<1>1. UNCHANGED <<file, tab>> /\ Serve(c)
  BY DEF Refuse, Lock, Check, WriteFails, Serve
<1>2. CASE Answer(c)
  BY <1>1, <1>2, AnswerRefuses
<1>3. CASE \E pc : Goto(c, pc)
  <2>1. /\ req'[c].op = req[c].op /\ req'[c].path = req[c].path
        /\ req'[c].body = req[c].body /\ req'[c].match = req[c].match
    BY <1>3, TypeFacts DEF Goto, Requests, Request
  <2>2. AskOf(req'[c], tab[c]) = AskOf(req[c], tab[c])
    BY <2>1 DEF AskOf, How
  <2>3. AskOf(req'[c], tab'[c]) = AskOf(req[c], tab[c])
    <3>1. tab'[c] = tab[c]
      BY <1>1
    <3> QED
      BY <2>2, <3>1
  <2> QED
    BY <1>1, <2>3, QuietStep
<1> QED
  BY <1>2, <1>3 DEF Refuse, Lock, Check, WriteFails

\* What Check allowed, and nobody has changed since, the promise grants.
LEMMA AllowedIsGranted ==
  ASSUME TypeInv, NEW c \in Client, Safe(c), req[c].pc = "write"
  PROVE  /\ askBar[c] = [path |-> req[c].path, new |-> DocumentOf(req[c].body), how |-> How(req[c], tab[c])]
         /\ askBar[c] # NoText
         /\ Documents!Granted(c, askBar[c])
<1> DEFINE p == req[c].path
           r == askBar[c]
<1>1. Allowed(req[c]) /\ p \in File /\ req[c].op \in {"put", "delete"}
  BY TypeFacts DEF Safe, StillAllowed, Allowed
<1>2. r = [path |-> p, new |-> DocumentOf(req[c].body), how |-> How(req[c], tab[c])]
  BY <1>1 DEF askBar, AskOf
<1>3. r # NoText
  <2>1. DocumentOf(req[c].body) \in Text \cup {NoText}
    BY TypeFacts, TextAssumption DEF DocumentOf
  <2>2. r \in Documents!Change
    BY <1>1, <1>2, <2>1 DEF Documents!Change, How
  <2> QED
    BY <2>2, NoChangeAssumption
<1>4. r.path = p /\ r.how = How(req[c], tab[c])
  BY <1>2
<1>5. Documents!Granted(c, r)
  <2>1. CASE r.how = "force"
    BY <2>1 DEF Documents!Granted
  <2>2. CASE r.how = "create"
    <3>1. req[c].match = NoTag /\ req[c].op = "put"
      BY <1>1, <1>4, <2>2 DEF How
    <3>2. Present(p) => file[p].text \in Text
      BY <1>1, FileFacts
    <3>3. ~Present(p)
      BY <1>1, <3>1, <3>2, TagAssumption DEF Allowed, PutAllowed, etagOf
    <3> QED
      BY <1>1, <1>4, <2>2, <3>3 DEF Documents!Granted, docBar
  <2>3. CASE r.how = "update"
    <3>1. req[c].match \notin {NoTag, Star}
      BY <1>1, <1>4, <2>3 DEF How
    <3>2. Present(p) /\ req[c].match = etagOf(file[p].text)
      BY <1>1, <3>1 DEF Allowed, PutAllowed, DeleteAllowed
    <3>3. tab[c] # NoText /\ req[c].match = tab[c].etag /\ tab[c].via # "get"
      BY <1>4, <2>3, <3>1 DEF Safe, SendsWhatItHolds, Conditional, Holds, How
    <3>4. tab[c].doc \in Text /\ Pretty[file[p].text] = Pretty[tab[c].doc]
      <4>1. PICK t \in Text : tab[c].etag = etagOf(t) /\ Pretty[t] = Pretty[tab[c].doc]
        BY <3>1, <3>3 DEF Safe, TagTrue
      <4>2. t = file[p].text
        BY <3>2, <3>3, <4>1 DEF etagOf
      <4> QED
        BY <3>1, <3>3, <4>1, <4>2 DEF Safe, TagTrue
    <3>5. docBar[p] = Pretty[file[p].text] /\ docBar[p] \in Text
      BY <1>1, <3>2, FileFacts, TextAssumption DEF docBar
    <3>6. heldBar[c].doc = Pretty[tab[c].doc]
      BY <3>3, <3>4, TextAssumption DEF heldBar, HeldOf, DocumentOf
    <3> QED
      BY <1>4, <2>3, <3>4, <3>5, <3>6, TextAssumption DEF Documents!Granted
  <2>4. r.how \in {"force", "create", "update"}
    BY <1>4 DEF How
  <2> QED
    BY <2>1, <2>2, <2>3, <2>4
<1> QED
  BY <1>2, <1>3, <1>5

\* The request is answered, so nothing is asked any more.
LEMMA DoneAsks ==
  ASSUME TypeInv, NEW c \in Client, Serve(c), Answer(c)
  PROVE  askBar' = [askBar EXCEPT ![c] = NoText]
<1>1. AskOf(req'[c], tab'[c]) = NoText
  BY TypeFacts, IdleAsksNothing DEF Answer, Requests
<1>2. \A d \in Client : d # c => AskOf(req'[d], tab'[d]) = AskOf(req[d], tab[d])
  BY OneMoves
<1>3. askBar' = [d \in Client |-> AskOf(req'[d], tab'[d])]
  BY DEF askBar, AskOf, How, DocumentOf
<1> QED
  BY <1>1, <1>2, <1>3 DEF askBar

LEMMA DeleteStep ==
  ASSUME TypeInv, NEW c \in Client, Safe(c), DeleteRemove(c)
  PROVE  Documents!Do(c)
<1> DEFINE p == req[c].path
<1>1. p \in File /\ req[c].body = NoText /\ req[c].pc = "write" /\ Serve(c) /\ Answer(c)
  BY TypeFacts DEF DeleteRemove, Shape, Serve
<1>2. askBar[c].path = p /\ askBar[c].new = NoText /\ askBar[c] # NoText
      /\ Documents!Granted(c, askBar[c])
  <2>1. /\ askBar[c] = [path |-> p, new |-> DocumentOf(req[c].body), how |-> How(req[c], tab[c])]
        /\ askBar[c] # NoText
        /\ Documents!Granted(c, askBar[c])
    BY <1>1, AllowedIsGranted
  <2>2. DocumentOf(req[c].body) = NoText
    BY <1>1 DEF DocumentOf
  <2> QED
    BY <2>1, <2>2
<1>3. docBar' = [docBar EXCEPT ![p] = NoText]
  <2>1. file' = [file EXCEPT ![p] = NoText]
    BY DEF DeleteRemove
  <2>2. docBar' = [q \in File |-> IF file'[q] # NoText THEN Pretty[file'[q].text] ELSE NoText]
    BY DEF docBar, Present
  <2> QED
    BY <1>1, <2>1, <2>2, TypeFacts DEF docBar, Present
<1>4. heldBar' = heldBar
  BY DEF DeleteRemove, heldBar, HeldOf, DocumentOf
<1>5. askBar' = [askBar EXCEPT ![c] = NoText]
  BY <1>1, DoneAsks
<1> HIDE DEF p
<1> QED
  BY <1>2, <1>3, <1>4, <1>5 DEF Documents!Do

LEMMA PutStep ==
  ASSUME TypeInv, NEW c \in Client, Safe(c), PutWrite(c)
  PROVE  Documents!Do(c)
<1> DEFINE p == req[c].path
           b == req[c].body
           n == Pretty[b]
<1>1. p \in File /\ b \in Text /\ req[c].pc = "write" /\ Serve(c) /\ Answer(c)
  BY TypeFacts DEF PutWrite, Shape, Serve, Keep
<1>2. n \in Text /\ Pretty[n] = n /\ n # NoText /\ DocumentOf(b) = n
  BY <1>1, TextAssumption DEF DocumentOf
<1>3. askBar[c].path = p /\ askBar[c].new = n /\ askBar[c] # NoText
      /\ Documents!Granted(c, askBar[c])
  <2>1. /\ askBar[c] = [path |-> p, new |-> DocumentOf(b), how |-> How(req[c], tab[c])]
        /\ askBar[c] # NoText
        /\ Documents!Granted(c, askBar[c])
    BY <1>1, AllowedIsGranted
  <2> HIDE DEF n
  <2> QED
    BY <1>2, <2>1
<1>4. docBar' = [docBar EXCEPT ![p] = n]
  <2>1. PICK s \in Stamp : file' = [file EXCEPT ![p] = [text |-> n, mtime |-> s]]
    BY DEF PutWrite, Rewrite
  <2>2. [text |-> n, mtime |-> s] \in Stored
    BY <1>2, BoundAssumption, TypeFacts DEF Stamp, Stored
  <2>3. docBar' = [q \in File |-> IF file'[q] # NoText THEN Pretty[file'[q].text] ELSE NoText]
    BY DEF docBar, Present
  <2> HIDE DEF p, n
  <2>4. file'[p] = [text |-> n, mtime |-> s] /\ \A q \in File : q # p => file'[q] = file[q]
    BY <1>1, <2>1, TypeFacts
  <2>5. file'[p] # NoText /\ file'[p].text = n
    BY <2>2, <2>4, NothingAssumption
  <2> QED
    BY <1>1, <1>2, <2>3, <2>4, <2>5 DEF docBar, Present
<1>5. UNCHANGED heldBar \/ heldBar' = [heldBar EXCEPT ![c] = [path |-> p, doc |-> n]]
  <2>1. CASE UNCHANGED tab
    BY <2>1 DEF heldBar, HeldOf, DocumentOf
  <2>2. CASE Keep(c, p, b, etagOf(n), "put")
    <3>1. tab'[c] = [path |-> p, doc |-> b, etag |-> etagOf(n), via |-> "put"]
      BY <2>2, TypeFacts DEF Keep
    <3>2. tab'[c] # NoText
      <4>1. tab'[c] \in Tab
        BY <1>1, <1>2, <3>1 DEF Tab, ETag
      <4> QED
        BY <4>1, NothingAssumption
    <3>3. HeldOf(tab'[c]) = [path |-> p, doc |-> n]
      BY <1>2, <3>1, <3>2 DEF HeldOf
    <3>4. \A d \in Client : d # c => HeldOf(tab'[d]) = HeldOf(tab[d])
      BY <1>1, OneMoves
    <3>5. heldBar' = [d \in Client |-> HeldOf(tab'[d])]
      BY DEF heldBar, HeldOf, DocumentOf
    <3> HIDE DEF p, n
    <3> QED
      BY <3>3, <3>4, <3>5 DEF heldBar
  <2> QED
    BY <2>1, <2>2 DEF PutWrite
<1>6. askBar' = [askBar EXCEPT ![c] = NoText]
  BY <1>1, DoneAsks
<1> HIDE DEF p, n
<1> QED
  BY <1>2, <1>3, <1>4, <1>5, <1>6 DEF Documents!Do

LEMMA RestartStep ==
  ASSUME TypeInv, Restart
  PROVE  Documents!Refuse
<1>1. docBar' = docBar /\ heldBar' = heldBar
  BY DEF Restart, docBar, Present, heldBar, HeldOf, DocumentOf
<1>2. askBar' = [c \in Client |-> AskOf(req'[c], tab'[c])]
  BY DEF askBar, AskOf, How, DocumentOf
<1>3. \A c \in Client : AskOf(req'[c], tab'[c]) = NoText
  BY IdleAsksNothing DEF Restart
<1>4. askBar' = [c \in Client |-> IF c \in Client THEN NoText ELSE askBar[c]]
  BY <1>2, <1>3
<1>5. Client \in SUBSET Client
  OBVIOUS
<1> QED
  BY <1>1, <1>4, <1>5 DEF Documents!Refuse

LEMMA InitMaps == Init => Documents!Init
<1> SUFFICES ASSUME Init
             PROVE  Documents!Init
  OBVIOUS
<1>1. docBar \in [File -> Text \cup {NoText}]
  <2>1. \A p \in File : Present(p) => file[p].text \in Text
    BY DEF Init, Present
  <2> QED
    BY <2>1, TextAssumption DEF docBar
<1>2. heldBar = [c \in Client |-> NoText]
  BY DEF Init, heldBar, HeldOf
<1>3. askBar = [c \in Client |-> NoText]
  BY IdleAsksNothing DEF Init, askBar
<1> QED
  BY <1>1, <1>2, <1>3 DEF Documents!Init

LEMMA StepMaps ==
  ASSUME ~Outside, DocInv, [Next]_vars
  PROVE  [Documents!Next]_(Documents!vars)
<1>1. CASE UNCHANGED vars
  BY <1>1 DEF vars, Documents!vars, docBar, Present, heldBar, HeldOf, askBar, AskOf, How,
     DocumentOf
<1>2. ASSUME NEW c \in Client, Ask(c) \/ Serve(c)
      PROVE  [Documents!Next]_(Documents!vars)
  <2>1. TypeInv /\ Safe(c)
    BY DEF DocInv, WriteInv
  <2>2. \/ UNCHANGED bars \/ Documents!Refuse
        \/ Documents!Learn(c) \/ Documents!Forget(c) \/ Documents!Ask(c) \/ Documents!Do(c)
    <3>1. CASE Ask(c)
      BY <2>1, <3>1, AskReadStep, AskWriteStep DEF Ask
    <3>2. CASE ReadRaw(c)
      BY <2>1, <3>2, LearnStep
    <3>3. CASE GetRead(c) \/ GetStat(c) \/ ListStat(c) \/ ListEnd(c) \/ Load(c)
      BY <2>1, <3>3, ReadingStep
    <3>4. CASE Lookup(c) \/ StoreEntry(c)
      BY <2>1, <3>4, CacheStep
    <3>5. CASE Refuse(c) \/ Lock(c) \/ Check(c) \/ WriteFails(c)
      BY <2>1, <3>5, WritingStep
    <3>6. CASE PutWrite(c) \/ DeleteRemove(c)
      BY <2>1, <3>6, PutStep, DeleteStep
    <3> QED
      BY <1>2, <3>1, <3>2, <3>3, <3>4, <3>5, <3>6 DEF Serve
  <2> QED
    BY <2>2 DEF Documents!Next, Documents!vars, bars
<1>3. CASE Restart
  BY <1>3, RestartStep DEF DocInv, Documents!Next
<1> QED
  BY <1>1, <1>2, <1>3 DEF Next, ExternalEdit, ExternalRemove

(***************************************************************************)
(* Where the API's clients are the only ones to write files, they see,     *)
(* whatever the interleaving of their requests, documents that change in   *)
(* one step and only as somebody asked: Put, PutTheme and Delete           *)
(* (store.go:350-487) implement DashDocuments.                             *)
(***************************************************************************)
THEOREM StoreImplementsDocuments ==
  ASSUME ~Outside
  PROVE  Spec => ImplementsDocuments
<1>1. Init => DocInv /\ Documents!Init
  BY InitTyped, InitSafe, InitMaps DEF DocInv
<1>2. DocInv /\ [Next]_vars => DocInv' /\ [Documents!Next]_(Documents!vars)
  BY StepMaps, StepTyped, StepSafe DEF DocInv
<1> QED
  BY <1>1, <1>2, PTL DEF Spec, ImplementsDocuments, Documents!Spec
=============================================================================
