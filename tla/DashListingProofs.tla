------------------------- MODULE DashListingProofs -------------------------
(***************************************************************************)
(* Theorems about the cache of the dashboard store and the listings made   *)
(* from it, for any clients, paths and texts.                              *)
(*                                                                         *)
(* Size and mtime are a key only while no write gets an mtime that an      *)
(* earlier one has (~Coarse), and only if they were taken before the bytes *)
(* they are stored with: List does so, Get does not ("get" \notin Reads).  *)
(***************************************************************************)
EXTENDS DashStoreProofs

\* The states of a listing between the Stat of a file and its entry.
Waiting == {"lookup", "load", "store"}

\* Nothing has been read yet when the cache is asked, and no key is of the future.
Past(r) ==
  /\ r.op # "get" /\ r.pc # "stat"
  /\ r.pc \in Waiting => r.info.mtime <= now
  /\ r.pc \in {"lookup", "load"} => r.data = NoText

\* What is about to be stored is of the file, if its key still is.
Loaded(r) ==
  (r.pc = "store" /\ Present(r.path) /\ InfoOf(file[r.path]) = r.info)
    => r.data = file[r.path].text

FilesPast == \A p \in File : Present(p) => file[p].mtime <= now

EntriesPast == \A p \in Doc : cache[p] # NoText => cache[p].info.mtime <= now

ListInv ==
  /\ TypeInv /\ FilesPast /\ EntriesPast /\ CacheHonest
  /\ \A c \in Client : Past(req[c]) /\ Loaded(req[c])

----------------------------------------------------------------------------
(* What a step does to a file, to a cache entry and to a request.          *)

\* A file is as it was, gone, or has an mtime that no file had before.
Older(p) ==
  \/ file'[p] = file[p]
  \/ file'[p] = NoText
  \/ file'[p] # NoText /\ file'[p].mtime = now + 1 /\ now' = now + 1

LEMMA RewriteFiles ==
  ASSUME TypeInv, ~Coarse, NEW q \in File, NEW t \in Text, Rewrite(q, t)
  PROVE  now' = now + 1 /\ \A p \in File : Older(p)
<1>1. PICK n \in Stamp : now' = n /\ file' = [file EXCEPT ![q] = [text |-> t, mtime |-> n]]
  BY DEF Rewrite
<1>2. n = now + 1 /\ n \in 0..MaxClock
  BY <1>1, TypeFacts, BoundAssumption DEF Stamp, TypeInv, TypeOK
<1> DEFINE f == [text |-> t, mtime |-> n]
<1>3. f # NoText /\ f.mtime = n
  <2>1. f \in Stored
    BY <1>2 DEF Stored
  <2> QED
    BY <2>1, NothingAssumption
<1>4. \A p \in File : file'[p] = IF p = q THEN f ELSE file[p]
  <2> HIDE DEF f
  <2>1. file' = [file EXCEPT ![q] = f]
    BY <1>1 DEF f
  <2> QED
    BY <2>1 DEF TypeInv, TypeOK
<1> HIDE DEF f
<1> QED
  BY <1>1, <1>2, <1>3, <1>4 DEF Older

LEMMA RemoveFiles ==
  ASSUME TypeInv, NEW q \in File, file' = [file EXCEPT ![q] = NoText]
  PROVE  \A p \in File : Older(p)
BY DEF Older, TypeInv, TypeOK

LEMMA StepOnFiles ==
  ASSUME TypeInv, ~Coarse, [Next]_vars
  PROVE  (now' = now \/ now' = now + 1) /\ \A p \in File : Older(p)
<1>1. CASE UNCHANGED <<file, now>>
  BY <1>1 DEF Older
<1>2. ASSUME NEW c \in Client, PutWrite(c)
      PROVE  now' = now + 1 /\ \A p \in File : Older(p)
  <2>1. req[c].path \in File /\ Pretty[req[c].body] \in Text
    <3>1. req[c].body \in Text
      BY <1>2, TypeFacts DEF PutWrite, Shape
    <3> QED
      BY <3>1, TypeFacts, TextAssumption
  <2> QED
    BY <1>2, <2>1, RewriteFiles DEF PutWrite
<1>3. ASSUME NEW c \in Client, DeleteRemove(c)
      PROVE  now' = now /\ \A p \in File : Older(p)
  <2>1. file' = [file EXCEPT ![req[c].path] = NoText] /\ now' = now
    BY <1>3 DEF DeleteRemove
  <2> QED
    BY <2>1, RemoveFiles, TypeFacts
<1>4. CASE ExternalEdit
  BY <1>4, RewriteFiles DEF ExternalEdit
<1>5. CASE ExternalRemove
  BY <1>5, RemoveFiles DEF ExternalRemove
<1>6. CASE Restart
  BY <1>1, <1>6 DEF Restart
<1>7. ASSUME NEW c \in Client, Ask(c) \/ Serve(c)
      PROVE  UNCHANGED <<file, now>> \/ PutWrite(c) \/ DeleteRemove(c)
  BY <1>7 DEF Ask, AskRead, AskList, AskWrite, Serve, ReadRaw, GetRead, GetStat, ListStat,
     ListEnd, Lookup, Load, StoreEntry, Refuse, Lock, Check, WriteFails
<1>8. CASE UNCHANGED vars
  BY <1>1, <1>8 DEF vars
<1> QED
  BY <1>1, <1>2, <1>3, <1>4, <1>5, <1>6, <1>7, <1>8 DEF Next

\* A key that is not of the future and is a file's after the step was its key before.
LEMMA KeyTells ==
  ASSUME TypeInv, NEW p \in File, Older(p), NEW i \in Info, i.mtime <= now,
         file'[p] # NoText, InfoOf(file'[p]) = i
  PROVE  file'[p] = file[p] /\ Present(p) /\ InfoOf(file[p]) = i
<1>1. now \in Nat
  BY BoundAssumption DEF TypeInv, TypeOK
<1>2. file'[p].mtime = i.mtime
  BY DEF InfoOf
<1>3. file'[p].mtime # now + 1
  BY <1>1, <1>2, BoundAssumption DEF Info
<1> QED
  BY <1>3 DEF Older, Present

\* A cache entry is as it was, gone, or just stored.
Stores(c, p) ==
  /\ req[c].pc = "store" /\ req[c].path = p
  /\ cache'[p] = [info |-> req[c].info, text |-> req[c].data]
  /\ UNCHANGED <<file, now>>

LEMMA StepOnEntry ==
  ASSUME TypeInv, [Next]_vars, NEW p \in Doc
  PROVE  cache'[p] = cache[p] \/ cache'[p] = NoText \/ \E c \in Client : Stores(c, p)
<1>1. CASE UNCHANGED cache
  BY <1>1
<1>2. CASE \E q : Forget(q)
  BY <1>2 DEF Forget
<1>3. ASSUME NEW c \in Client, StoreEntry(c)
      PROVE  cache'[p] = cache[p] \/ Stores(c, p)
  BY <1>3, TypeFacts DEF StoreEntry, Stores
<1>4. CASE Restart
  BY <1>4 DEF Restart
<1>5. CASE ExternalEdit \/ ExternalRemove \/ UNCHANGED vars
  BY <1>1, <1>5 DEF ExternalEdit, ExternalRemove, vars
<1>6. ASSUME NEW c \in Client, Ask(c) \/ Serve(c)
      PROVE  UNCHANGED cache \/ (\E q : Forget(q)) \/ StoreEntry(c)
  BY <1>6 DEF Ask, AskRead, AskList, AskWrite, Serve, ReadRaw, GetRead, GetStat, ListStat,
     ListEnd, Lookup, Load, Refuse, Lock, Check, WriteFails, PutWrite, DeleteRemove
<1> QED
  BY <1>1, <1>2, <1>3, <1>4, <1>5, <1>6 DEF Next

(***************************************************************************)
(* What a step does to a request: nothing, or what its own handler does.   *)
(***************************************************************************)
\* It is outside the listing's critical states after the step.
Apart(r) == r.op # "get" /\ r.pc \notin {"stat", "lookup", "load", "store"}

TakesKey(c) ==
  LET r == req'[c] IN
  /\ r.pc = "lookup" /\ r.op = req[c].op /\ req[c].pc = "walk" /\ r.path \in File
  /\ r.data = NoText /\ Present(r.path) /\ r.info = InfoOf(file[r.path])
  /\ UNCHANGED <<file, now>>

Misses(c) ==
  LET r == req'[c] IN
  /\ req[c].pc = "lookup" /\ r.op = req[c].op /\ r.path = req[c].path
  /\ r.info = req[c].info /\ r.data = req[c].data
  /\ r.pc = IF req[c].data = NoText THEN "load" ELSE "store"
  /\ UNCHANGED <<file, now>>

Loads(c) ==
  LET r == req'[c] IN
  /\ req[c].pc = "load" /\ r.pc = "store" /\ r.op = req[c].op /\ r.path = req[c].path
  /\ r.info = req[c].info /\ Present(r.path) /\ r.data = file[r.path].text
  /\ UNCHANGED <<file, now>>

LEMMA AnswerApart ==
  ASSUME TypeInv, NEW c \in Client, Answer(c)
  PROVE  Apart(req'[c])
BY TypeFacts DEF Answer, Requests, Idle, Begin, Apart

LEMMA UseEntryApart ==
  ASSUME TypeInv, NEW c \in Client, req[c].op # "get", NEW t, NEW d, UseEntry(c, t, d)
  PROVE  Apart(req'[c])
<1> DEFINE E == req[c].entries \cup {<<req[c].path, t>>}
           r == [req[c] EXCEPT !.pc = "walk", !.entries = E]
<1>1. req' = [req EXCEPT ![c] = r] /\ req[c].op = "list"
  BY DEF UseEntry
<1>2. r.pc = "walk" /\ r.op = req[c].op
  <2> HIDE DEF E
  <2> QED
    BY TypeFacts DEF Request
<1> HIDE DEF r
<1> QED
  BY <1>1, <1>2, TypeFacts DEF Requests, Apart

LEMMA AskApart ==
  ASSUME TypeInv, "get" \notin Reads, NEW c \in Client, Ask(c)
  PROVE  Apart(req'[c])
<1>1. CASE AskRead(c)
  BY <1>1, TypeFacts DEF AskRead, Requests, Begin, Apart
<1>2. CASE AskList(c)
  BY <1>2, TypeFacts DEF AskList, Requests, Begin, Apart
<1>3. CASE AskWrite(c)
  <2>1. PICK op, p, t, m : op # "get" /\ req' = [req EXCEPT ![c] = Begin(op, p, t, m, "lock")]
    BY <1>3 DEF AskWrite
  <2> QED
    BY <2>1, TypeFacts DEF Requests, Begin, Apart
<1> QED
  BY <1>1, <1>2, <1>3 DEF Ask

LEMMA ServeRequest ==
  ASSUME TypeInv, NEW c \in Client, Past(req[c]), Serve(c)
  PROVE  Apart(req'[c]) \/ TakesKey(c) \/ Misses(c) \/ Loads(c)
<1>1. req[c].op # "get" /\ req[c].pc # "stat"
  BY DEF Past
<1>2. CASE Answer(c)
  BY <1>2, AnswerApart
<1>3. CASE Goto(c, "check") \/ Goto(c, "write")
  BY <1>1, <1>3, TypeFacts DEF Goto, Requests, Request, Apart
<1>4. CASE ListStat(c)
  <2>1. PICK p \in req[c].todo :
          \/ /\ Present(p)
             /\ req' = [req EXCEPT ![c] =
                  [@ EXCEPT !.pc = "lookup", !.path = p, !.data = NoText,
                            !.info = InfoOf(file[p]), !.todo = req[c].todo \ {p}]]
          \/ Answer(c)
    BY <1>4 DEF ListStat
  <2> DEFINE i == InfoOf(file[p])
             T == req[c].todo \ {p}
             r == [req[c] EXCEPT !.pc = "lookup", !.path = p, !.data = NoText,
                                 !.info = i, !.todo = T]
  <2>2. CASE Present(p) /\ req' = [req EXCEPT ![c] = r]
    <3>1. req[c] \in Request /\ p \in File
      BY TypeFacts DEF File
    <3>2. r.pc = "lookup" /\ r.path = p /\ r.data = NoText /\ r.info = i /\ r.op = req[c].op
      <4> HIDE DEF i, T
      <4> QED
        BY <3>1 DEF Request
    <3>3. req'[c] = r
      <4> HIDE DEF r
      <4> QED
        BY <2>2, TypeFacts DEF Requests
    <3> HIDE DEF r
    <3> QED
      BY <1>4, <2>2, <3>1, <3>2, <3>3 DEF TakesKey, ListStat
  <2> QED
    BY <1>2, <2>1, <2>2
<1>5. CASE Lookup(c)
  <2>1. CASE UseEntry(c, cache[req[c].path].text, req[c].data)
    BY <1>1, <2>1, UseEntryApart
  <2>2. CASE Goto(c, IF req[c].data = NoText THEN "load" ELSE "store")
    <3> DEFINE pc == IF req[c].data = NoText THEN "load" ELSE "store"
    <3>1. req'[c] = [req[c] EXCEPT !.pc = pc]
      BY <2>2, TypeFacts DEF Goto, Requests
    <3> HIDE DEF pc
    <3>2. /\ req'[c].pc = pc /\ req'[c].op = req[c].op /\ req'[c].path = req[c].path
          /\ req'[c].info = req[c].info /\ req'[c].data = req[c].data
      BY <3>1, TypeFacts DEF Request
    <3> QED
      BY <1>5, <3>2 DEF Lookup, Misses, pc
  <2> QED
    BY <1>5, <2>1, <2>2 DEF Lookup
<1>6. CASE Load(c)
  <2> DEFINE d == file[req[c].path].text
             r == [req[c] EXCEPT !.pc = "store", !.data = d]
  <2>1. CASE Present(req[c].path) /\ req' = [req EXCEPT ![c] = r]
    <3>1. r.pc = "store" /\ r.op = req[c].op /\ r.path = req[c].path /\ r.info = req[c].info /\ r.data = d
      <4> HIDE DEF d
      <4> QED
        BY TypeFacts DEF Request
    <3>2. req'[c] = r
      <4> HIDE DEF r
      <4> QED
        BY <2>1, TypeFacts DEF Requests
    <3> HIDE DEF r
    <3> QED
      BY <1>6, <2>1, <3>1, <3>2 DEF Load, Loads
  <2> QED
    BY <1>2, <1>6, <2>1 DEF Load
<1>7. CASE StoreEntry(c)
  BY <1>1, <1>7, UseEntryApart DEF StoreEntry
<1> QED
  BY <1>1, <1>2, <1>3, <1>4, <1>5, <1>6, <1>7 DEF Serve, ReadRaw, Keep, GetRead, GetStat, ListEnd,
     Refuse, Lock, Check, PutWrite, DeleteRemove, WriteFails

LEMMA StepOnRequest ==
  ASSUME ListInv, "get" \notin Reads, [Next]_vars, NEW c \in Client
  PROVE  req'[c] = req[c] \/ Apart(req'[c]) \/ TakesKey(c) \/ Misses(c) \/ Loads(c)
<1>1. TypeInv /\ Past(req[c])
  BY DEF ListInv
<1>2. CASE Ask(c) \/ Serve(c)
  BY <1>1, <1>2, AskApart, ServeRequest
<1>3. ASSUME NEW d \in Client, d # c, Ask(d) \/ Serve(d)
      PROVE  req'[c] = req[c]
  BY <1>1, <1>3, OneMoves
<1>4. CASE Restart
  BY <1>4 DEF Restart, Idle, Begin, Apart
<1>5. CASE ExternalEdit \/ ExternalRemove \/ UNCHANGED vars
  BY <1>5 DEF ExternalEdit, ExternalRemove, vars
<1> QED
  BY <1>2, <1>3, <1>4, <1>5 DEF Next

(***************************************************************************)
(* The invariant holds at first and every step keeps it.                   *)
(***************************************************************************)
LEMMA InitListing == Init => ListInv
<1> SUFFICES ASSUME Init PROVE ListInv
  OBVIOUS
<1>1. TypeInv
  BY InitTyped
<1>2. FilesPast
  BY DEF Init, FilesPast, Present
<1>3. EntriesPast /\ CacheHonest
  BY DEF Init, EntriesPast, CacheHonest, Fresh
<1>4. \A c \in Client : Past(req[c]) /\ Loaded(req[c])
  BY DEF Init, Idle, Begin, Past, Loaded, Waiting
<1> QED
  BY <1>1, <1>2, <1>3, <1>4 DEF ListInv

LEMMA FilesPastKept ==
  ASSUME ListInv, ~Coarse, [Next]_vars
  PROVE  FilesPast'
<1>1. TypeInv /\ FilesPast /\ now \in Nat
  BY BoundAssumption DEF ListInv, TypeInv, TypeOK
<1>2. (now' = now \/ now' = now + 1) /\ \A p \in File : Older(p)
  BY <1>1, StepOnFiles
<1> SUFFICES ASSUME NEW p \in File, file'[p] # NoText
             PROVE  file'[p].mtime <= now'
  BY DEF FilesPast, Present
<1>3. CASE file'[p] = file[p]
  <2>1. file[p].mtime <= now /\ file[p].mtime \in Nat
    BY <1>1, <1>3, FileFacts, BoundAssumption DEF FilesPast, Present, Stored
  <2> QED
    BY <1>1, <1>2, <1>3, <2>1
<1>4. CASE file'[p].mtime = now + 1 /\ now' = now + 1
  BY <1>1, <1>4
<1> QED
  BY <1>2, <1>3, <1>4 DEF Older

LEMMA EntriesPastKept ==
  ASSUME ListInv, ~Coarse, [Next]_vars
  PROVE  EntriesPast'
<1>1. TypeInv /\ EntriesPast /\ now \in Nat /\ \A c \in Client : Past(req[c])
  BY BoundAssumption DEF ListInv, TypeInv, TypeOK
<1>2. now' = now \/ now' = now + 1
  BY <1>1, StepOnFiles
<1> SUFFICES ASSUME NEW p \in Doc, cache'[p] # NoText
             PROVE  cache'[p].info.mtime <= now'
  BY DEF EntriesPast
<1>3. CASE cache'[p] = cache[p]
  <2>1. cache[p] \in CacheEntry
    BY <1>1, <1>3 DEF TypeInv, TypeOK
  <2>2. cache[p].info.mtime <= now /\ cache[p].info.mtime \in Nat
    BY <1>1, <1>3, <2>1, BoundAssumption DEF EntriesPast, CacheEntry, Info
  <2> QED
    BY <1>1, <1>2, <1>3, <2>2
<1>4. ASSUME NEW c \in Client, Stores(c, p)
      PROVE  cache'[p].info.mtime <= now'
  BY <1>1, <1>4 DEF Stores, Past, Waiting
<1> QED
  BY <1>1, <1>3, <1>4, StepOnEntry

LEMMA CacheHonestKept ==
  ASSUME ListInv, ~Coarse, [Next]_vars
  PROVE  CacheHonest'
<1>1. TypeInv /\ EntriesPast /\ CacheHonest /\ \A c \in Client : Past(req[c]) /\ Loaded(req[c])
  BY DEF ListInv
<1> SUFFICES ASSUME NEW p \in Doc, file'[p] # NoText, cache'[p] # NoText,
                    cache'[p].info = InfoOf(file'[p])
             PROVE  cache'[p].text = file'[p].text
  BY DEF CacheHonest, Present, Fresh, InfoOf
<1>2. p \in File /\ Older(p)
  BY <1>1, StepOnFiles DEF File
<1>3. CASE cache'[p] = cache[p]
  <2>1. cache[p] \in CacheEntry
    BY <1>1, <1>3 DEF TypeInv, TypeOK
  <2>2. cache[p].info \in Info /\ cache[p].info.mtime <= now
    BY <1>1, <1>3, <2>1 DEF EntriesPast, CacheEntry
  <2>3. file'[p] = file[p] /\ Present(p) /\ InfoOf(file[p]) = cache[p].info
    BY <1>1, <1>2, <1>3, <2>2, KeyTells
  <2>4. cache[p].text = file[p].text
    BY <1>1, <1>3, <2>3 DEF CacheHonest, Fresh
  <2> QED
    BY <1>3, <2>3, <2>4
<1>4. ASSUME NEW c \in Client, Stores(c, p)
      PROVE  cache'[p].text = file'[p].text
  <2>1. file' = file /\ cache'[p].info = req[c].info /\ cache'[p].text = req[c].data
    BY <1>4 DEF Stores
  <2>2. req[c].pc = "store" /\ Present(req[c].path) /\ InfoOf(file[req[c].path]) = req[c].info
    BY <1>4, <2>1 DEF Stores, Present
  <2>3. req[c].data = file[p].text
    BY <1>1, <1>4, <2>2 DEF Loaded, Stores
  <2> QED
    BY <2>1, <2>3
<1> QED
  BY <1>1, <1>3, <1>4, StepOnEntry

\* One request after a step: the keys of the others age, its own is what it read.
LEMMA RequestKept ==
  ASSUME ListInv, ~Coarse, "get" \notin Reads, [Next]_vars, NEW c \in Client
  PROVE  Past(req[c])' /\ Loaded(req[c])'
<1>1. /\ TypeInv /\ FilesPast /\ Past(req[c]) /\ Loaded(req[c])
      /\ now \in Nat /\ Shape(req[c]) /\ req[c] \in Request
  BY BoundAssumption, TypeFacts DEF ListInv, TypeInv, TypeOK, Requests
<1>2. (now' = now \/ now' = now + 1) /\ \A p \in File : Older(p)
  BY <1>1, StepOnFiles
<1>3. CASE req'[c] = req[c]
  <2>1. req[c].pc \in Waiting => (req[c].info.mtime \in Nat /\ req[c].path \in File /\ req[c].info \in Info)
    BY <1>1, BoundAssumption DEF Shape, Waiting, Info, File
  <2>2. Past(req[c])'
    BY <1>1, <1>2, <1>3, <2>1 DEF Past
  <2>3. Loaded(req[c])'
    <3> SUFFICES ASSUME req[c].pc = "store", file'[req[c].path] # NoText,
                        InfoOf(file'[req[c].path]) = req[c].info
                 PROVE  req[c].data = file'[req[c].path].text
      BY <1>3 DEF Loaded, Present, InfoOf
    <3>1. req[c].info \in Info /\ req[c].path \in File /\ req[c].info.mtime <= now
      BY <1>1, <2>1 DEF Waiting, Past
    <3>2. /\ file'[req[c].path] = file[req[c].path] /\ Present(req[c].path)
          /\ InfoOf(file[req[c].path]) = req[c].info
      BY <1>1, <1>2, <3>1, KeyTells
    <3> QED
      BY <1>1, <3>2 DEF Loaded
  <2> QED
    BY <2>2, <2>3
<1>4. CASE Apart(req'[c])
  BY <1>4 DEF Apart, Past, Loaded, Waiting
<1>5. CASE TakesKey(c)
  <2>1. req'[c].info.mtime <= now
    BY <1>1, <1>5 DEF TakesKey, FilesPast, InfoOf
  <2>2. req'[c].op # "get"
    BY <1>1, <1>5 DEF TakesKey, Past
  <2> QED
    BY <1>5, <2>1, <2>2 DEF TakesKey, Past, Loaded, Waiting
<1>6. CASE Misses(c)
  <2>1. req[c].data = NoText /\ req[c].op # "get" /\ req[c].info.mtime <= now
    BY <1>1, <1>6 DEF Misses, Past, Waiting
  <2>2. req'[c].pc = "load" /\ now' = now
    BY <1>6, <2>1 DEF Misses
  <2> QED
    BY <1>6, <2>1, <2>2 DEF Misses, Past, Loaded, Waiting
<1>7. CASE Loads(c)
  <2>1. req[c].op # "get" /\ req[c].info.mtime <= now
    BY <1>1, <1>7 DEF Loads, Past, Waiting
  <2>2. Past(req[c])'
    BY <1>7, <2>1 DEF Loads, Past, Waiting
  <2>3. Loaded(req[c])'
    BY <1>7 DEF Loads, Loaded
  <2> QED
    BY <2>2, <2>3
<1> QED
  BY <1>3, <1>4, <1>5, <1>6, <1>7, StepOnRequest

LEMMA StepListing ==
  ASSUME ListInv, ~Coarse, "get" \notin Reads, [Next]_vars
  PROVE  ListInv'
<1>1. TypeInv'
  BY StepTyped DEF ListInv
<1>2. FilesPast' /\ EntriesPast' /\ CacheHonest'
  BY FilesPastKept, EntriesPastKept, CacheHonestKept
<1>3. \A c \in Client : (Past(req[c]) /\ Loaded(req[c]))'
  BY RequestKept
<1> QED
  BY <1>1, <1>2, <1>3 DEF ListInv

(***************************************************************************)
(* store.go:69-71 for every number of clients, files and edits from        *)
(* outside: an entry of the cache that has the size and the mtime of its   *)
(* file was computed from the file as it is, as long as only listings fill *)
(* the cache and the file system's clock tells writes apart.               *)
(***************************************************************************)
THEOREM CacheTrue ==
  (~Coarse /\ "get" \notin Reads) => (Spec => []CacheHonest)
<1>1. ASSUME ~Coarse, "get" \notin Reads
      PROVE  Spec => []CacheHonest
  <2>1. ListInv /\ [Next]_vars => ListInv'
    BY <1>1, StepListing
  <2>2. ListInv => CacheHonest
    BY DEF ListInv
  <2> QED
    BY <2>1, <2>2, InitListing, PTL DEF Spec
<1> QED
  BY <1>1

----------------------------------------------------------------------------
(* Where an entry of a listing comes from.                                 *)

\* c's request gets this entry in this step.
Collected(c) ==
  \A e \in req'[c].entries \ req[c].entries :
    LET p == e[1] IN
    (Present(p) /\ InfoOf(file[p]) = req[c].info) => e[2] = file[p].text

\* An entry made of the text t is right, if t is that of a file with the key.
LEMMA UseEntryCollects ==
  ASSUME TypeInv, NEW c \in Client, NEW t, NEW d, UseEntry(c, t, d),
         (Present(req[c].path) /\ InfoOf(file[req[c].path]) = req[c].info)
           => t = file[req[c].path].text
  PROVE  Collected(c)
<1>1. CASE Answer(c)
  BY <1>1, TypeFacts DEF Answer, Requests, Idle, Begin, Collected
<1>2. CASE req' = [req EXCEPT ![c] =
             [@ EXCEPT !.pc = "walk",
                       !.entries = req[c].entries \cup {<<req[c].path, t>>}]]
  <2> DEFINE E == req[c].entries \cup {<<req[c].path, t>>}
             r == [req[c] EXCEPT !.pc = "walk", !.entries = E]
  <2>1. r.entries = E
    <3> HIDE DEF E
    <3> QED
      BY TypeFacts DEF Request
  <2>2. req'[c] = r
    <3>1. req' = [req EXCEPT ![c] = r]
      BY <1>2
    <3> HIDE DEF r
    <3> QED
      BY <3>1, TypeFacts DEF Requests
  <2>3. \A e \in req'[c].entries \ req[c].entries : e = <<req[c].path, t>>
    <3> HIDE DEF r
    <3> QED
      BY <2>1, <2>2
  <2> QED
    BY <2>3 DEF Collected
<1> QED
  BY <1>1, <1>2 DEF UseEntry, Keep

\* Every other step leaves the entries of a request or clears them.
LEMMA OthersCollectNothing ==
  ASSUME TypeInv, [Next]_vars, NEW c \in Client, ~Lookup(c), ~StoreEntry(c)
  PROVE  req'[c].entries \subseteq req[c].entries
<1>1. CASE Answer(c) \/ Restart
  BY <1>1, TypeFacts DEF Answer, Restart, Requests, Idle, Begin
<1>2. CASE \E pc : Goto(c, pc)
  BY <1>2, TypeFacts DEF Goto, Requests, Request
<1>3. CASE Ask(c)
  <2>1. CASE AskRead(c)
    BY <1>3, <2>1, TypeFacts DEF AskRead, Requests, Begin
  <2>2. CASE AskList(c)
    BY <1>3, <2>2, TypeFacts DEF AskList, Requests, Begin
  <2>3. CASE AskWrite(c)
    <3>1. PICK op, p, t, m : req' = [req EXCEPT ![c] = Begin(op, p, t, m, "lock")]
      BY <2>3 DEF AskWrite
    <3> QED
      BY <3>1, TypeFacts DEF Requests, Begin
  <2> QED
    BY <1>3, <2>1, <2>2, <2>3 DEF Ask
<1>4. CASE GetRead(c) \/ Load(c)
  <2> DEFINE d == file[req[c].path].text
  <2>1. CASE \E pc : req' = [req EXCEPT ![c] = [req[c] EXCEPT !.pc = pc, !.data = d]]
    <3>1. PICK pc : req' = [req EXCEPT ![c] = [req[c] EXCEPT !.pc = pc, !.data = d]]
      BY <2>1
    <3> HIDE DEF d
    <3> QED
      BY <3>1, TypeFacts DEF Requests, Request
  <2> QED
    BY <1>1, <1>4, <2>1 DEF GetRead, Load
<1>5. CASE GetStat(c)
  <2> DEFINE i == InfoOf(file[req[c].path])
  <2>1. CASE req' = [req EXCEPT ![c] = [req[c] EXCEPT !.pc = "lookup", !.info = i]]
    <3> HIDE DEF i
    <3> QED
      BY <2>1, TypeFacts DEF Requests, Request
  <2> QED
    BY <1>1, <1>5, <2>1 DEF GetStat
<1>6. CASE ListStat(c)
  <2>1. PICK p \in req[c].todo :
          \/ req' = [req EXCEPT ![c] =
                  [@ EXCEPT !.pc = "lookup", !.path = p, !.data = NoText,
                            !.info = InfoOf(file[p]), !.todo = req[c].todo \ {p}]]
          \/ Answer(c)
    BY <1>6 DEF ListStat
  <2> DEFINE i == InfoOf(file[p])
             T == req[c].todo \ {p}
  <2>2. CASE req' = [req EXCEPT ![c] = [req[c] EXCEPT !.pc = "lookup", !.path = p, !.data = NoText,
                                                       !.info = i, !.todo = T]]
    <3> HIDE DEF i, T
    <3> QED
      BY <2>2, TypeFacts DEF Requests, Request
  <2> QED
    BY <1>1, <2>1, <2>2
<1>7. ASSUME NEW d \in Client, d # c, Ask(d) \/ Serve(d)
      PROVE  req'[c] = req[c]
  BY <1>7, OneMoves
<1>8. CASE ExternalEdit \/ ExternalRemove \/ UNCHANGED vars
  BY <1>8 DEF ExternalEdit, ExternalRemove, vars
<1>9. CASE Serve(c)
  BY <1>1, <1>2, <1>4, <1>5, <1>6, <1>9 DEF Serve, ReadRaw, Keep, ListEnd, Refuse, Lock, Check,
     PutWrite, DeleteRemove, WriteFails
<1> QED
  BY <1>1, <1>3, <1>7, <1>8, <1>9 DEF Next

LEMMA StepCollects ==
  ASSUME ListInv, [Next]_vars, NEW c \in Client
  PROVE  Collected(c)
<1>1. TypeInv /\ CacheHonest /\ Loaded(req[c])
  BY DEF ListInv
<1>2. CASE Lookup(c)
  <2>1. CASE Fresh(req[c].path, req[c].info) /\ UseEntry(c, cache[req[c].path].text, req[c].data)
    <3>1. req[c].path \in Doc
      BY <1>1, <1>2, TypeFacts DEF Lookup, Shape
    <3>2. (Present(req[c].path) /\ InfoOf(file[req[c].path]) = req[c].info)
             => cache[req[c].path].text = file[req[c].path].text
      BY <1>1, <2>1, <3>1 DEF CacheHonest
    <3> QED
      BY <1>1, <2>1, <3>2, UseEntryCollects
  <2>2. CASE \E pc : Goto(c, pc)
    BY <1>1, <2>2, TypeFacts DEF Goto, Requests, Request, Collected
  <2> QED
    BY <1>2, <2>1, <2>2 DEF Lookup
<1>3. CASE StoreEntry(c)
  BY <1>1, <1>3, UseEntryCollects DEF StoreEntry, Loaded
<1>4. CASE ~Lookup(c) /\ ~StoreEntry(c)
  BY <1>1, <1>4, OthersCollectNothing DEF Collected
<1> QED
  BY <1>2, <1>3, <1>4

(***************************************************************************)
(* store.go:234-281, 200-203 for every number of clients, files and edits  *)
(* from outside: what a listing collects of a file that nobody has changed *)
(* since the walk came to it is of its text, out of the cache or loaded.   *)
(***************************************************************************)
THEOREM ListingsTrue ==
  (~Coarse /\ "get" \notin Reads) => (Spec => ListFresh)
<1>1. ASSUME ~Coarse, "get" \notin Reads
      PROVE  Spec => ListFresh
  <2> DEFINE Fine == \A c \in Client : Collected(c)
  <2>1. ListInv /\ [Next]_vars => ListInv'
    BY <1>1, StepListing
  <2>2. ListInv /\ [Next]_vars => [Fine]_vars
    BY StepCollects
  <2>3. Spec => [][Fine]_vars
    <3> HIDE DEF Fine
    <3> QED
      BY <2>1, <2>2, InitListing, PTL DEF Spec
  <2> QED
    BY <2>3 DEF Collected, ListFresh
<1> QED
  BY <1>1
=============================================================================
