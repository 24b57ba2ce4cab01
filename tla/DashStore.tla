----------------------------- MODULE DashStore -----------------------------
(***************************************************************************)
(* The dashboard file store of dash/store.go and the requests of           *)
(* dash/server.go that reach it.  A document is one file; the server keeps *)
(* a cache of what it computed from each file, keyed by size and mtime.    *)
(* The mutex mu covers the whole of a PUT or DELETE after validation, and  *)
(* each single access to the cache; a GET or a List reads files without it *)
(* and takes it twice, to look an entry up and to store one.  Git, editors *)
(* and agents change the same files and know nothing of mu.                *)
(*                                                                         *)
(* A text stands for the bytes of a file, an ETag for their hash.  What    *)
(* the cache keeps (ETag, validity) is a function of the bytes, so an      *)
(* entry keeps the text.  resolvePath and the ReadFile or Stat after it    *)
(* are one step: a file that vanishes in between answers another status    *)
(* here, and changes nothing in either.                                    *)
(***************************************************************************)
EXTENDS Naturals

CONSTANTS
  Client,     \* those that call the API, each with one request at a time
  Doc,        \* the paths of dashboards, already lower-cased
  Theme,      \* the reserved path of the global theme
  Text,       \* what a file may contain
  Pretty,     \* prettyJSON, a function on the texts that are valid JSON
  Valid,      \* for every path, the texts its validator accepts
  Size,       \* the length of a text
  NoText,     \* no file, no cache entry, nothing read
  NoTag,      \* an absent If-Match header
  Star,       \* the header If-Match: *
  Reads,      \* the reading requests made, of "get", "raw" and "list"
  Outside,    \* whether git, editors and agents change files too
  Faults,     \* whether writing a file may fail
  Coarse,     \* whether two writes may get the same mtime
  MaxClock    \* bound on the clock

File == Doc \cup {Theme}

ASSUME TextAssumption ==
  /\ Pretty \in [Text -> Text]
  /\ \A t \in Text : Pretty[Pretty[t]] = Pretty[t]
  /\ Size \in [Text -> Nat]
  /\ Valid \in [File -> SUBSET Text]
  /\ NoText \notin Text \cup Client

ASSUME TagAssumption ==
  /\ Theme \notin Doc
  /\ NoTag \notin {<<"sha256", t>> : t \in Text}
  /\ Star \notin {<<"sha256", t>> : t \in Text}
  /\ NoTag # Star

ASSUME BoundAssumption ==
  /\ Reads \subseteq {"get", "raw", "list"}
  /\ {Outside, Faults, Coarse} \subseteq BOOLEAN
  /\ MaxClock \in Nat

VARIABLES
  file,    \* for every path the text and the mtime of its file
  cache,   \* Store.cache: for every dashboard the key and what it was given for
  mu,      \* the client whose request holds Store.mu, or NoText
  now,     \* the clock mtimes are taken from
  req,     \* the request each client has in flight
  tab      \* the document and ETag each client got last

vars == <<file, cache, mu, now, req, tab>>

----------------------------------------------------------------------------
etagOf(t) == <<"sha256", t>>

ETag == {etagOf(t) : t \in Text}

\* A file that is there, what os.Stat says of it, and a cache entry.
Info == [size : Nat, mtime : 0..MaxClock]
Stored == [text : Text, mtime : 0..MaxClock]
CacheEntry == [info : Info, text : Text]

InfoOf(f) == [size |-> Size[f.text], mtime |-> f.mtime]

Present(p) == file[p] # NoText

(***************************************************************************)
(* A request: what it is (op, path, body and the If-Match header), where   *)
(* it stands (pc), what it has read (data, info) and, for a List, the      *)
(* paths it has still to visit and the entries it has collected.           *)
(***************************************************************************)
PC == {"idle", "read", "stat", "walk", "lookup", "load", "store",
       "lock", "check", "write"}

Request ==
  [pc : PC, op : {"none", "get", "raw", "list", "put", "delete"},
   path : File, body : Text \cup {NoText}, match : ETag \cup {NoTag, Star},
   data : Text \cup {NoText}, info : Info \cup {NoText},
   todo : SUBSET Doc, entries : SUBSET (Doc \X Text)]

Begin(op, p, body, match, pc) ==
  [pc |-> pc, op |-> op, path |-> p, body |-> body, match |-> match,
   data |-> NoText, info |-> NoText, todo |-> {}, entries |-> {}]

Idle == Begin("none", Theme, NoText, NoTag, "idle")

\* What a client holds after an answer that carried a document or took one.
Tab == [path : File, doc : Text \cup {NoText}, etag : ETag \cup {NoTag},
        via : {"get", "raw", "put"}]

ASSUME NothingAssumption == NoText \notin Stored \cup Tab

Holds(c, p) == tab[c] # NoText /\ tab[c].path = p

Init ==
  /\ file \in [File -> {NoText} \cup [text : Text, mtime : {0}]]
  /\ cache = [p \in Doc |-> NoText]
  /\ mu = NoText
  /\ now = 0
  /\ req = [c \in Client |-> Idle]
  /\ tab = [c \in Client |-> NoText]

----------------------------------------------------------------------------
(* The ways a step ends.                                                   *)

\* An answer with an error, or one that leaves the client nothing to keep.
Answer(c) == req' = [req EXCEPT ![c] = Idle]

Goto(c, pc) == req' = [req EXCEPT ![c].pc = pc]

\* An answer whose document and ETag the client keeps.
Keep(c, p, doc, etag, via) ==
  /\ Answer(c)
  /\ tab' = [tab EXCEPT ![c] = [path |-> p, doc |-> doc, etag |-> etag, via |-> via]]

\* The mtime a write gets.
Stamp == {n \in now .. now + 1 : n <= MaxClock /\ (n = now => Coarse)}

Rewrite(p, t) ==
  \E n \in Stamp : /\ now' = n
                   /\ file' = [file EXCEPT ![p] = [text |-> t, mtime |-> n]]

\* delete(s.cache, clean); the theme is never cached.
Forget(p) == cache' = [q \in Doc |-> IF q = p THEN NoText ELSE cache[q]]

----------------------------------------------------------------------------
(* Reading.                                                                *)

AskRead(c) ==
  /\ req[c] = Idle
  /\ \/ /\ "get" \in Reads
        /\ \E p \in Doc : req' = [req EXCEPT ![c] = Begin("get", p, NoText, NoTag, "read")]
     \/ /\ "raw" \in Reads
        /\ \E p \in File : req' = [req EXCEPT ![c] = Begin("raw", p, NoText, NoTag, "read")]
  /\ UNCHANGED <<file, cache, mu, now, tab>>

\* GetRaw and GetTheme: the ETag is that of the bytes returned.  A missing
\* theme is an empty one without an ETag.
ReadRaw(c) ==
  LET p == req[c].path IN
  /\ req[c].pc = "read" /\ req[c].op = "raw"
  /\ \/ /\ Present(p)
        /\ Keep(c, p, file[p].text, etagOf(file[p].text), "raw")
     \/ /\ ~Present(p) /\ p = Theme
        /\ Keep(c, p, NoText, NoTag, "raw")
     \/ /\ ~Present(p) /\ p # Theme
        /\ Answer(c)
        /\ UNCHANGED tab
  /\ UNCHANGED <<file, cache, mu, now>>

\* Get: the bytes first, ...
GetRead(c) ==
  LET p == req[c].path IN
  /\ req[c].pc = "read" /\ req[c].op = "get"
  /\ \/ /\ Present(p)
        /\ req' = [req EXCEPT ![c] = [@ EXCEPT !.pc = "stat", !.data = file[p].text]]
     \/ /\ ~Present(p)
        /\ Answer(c)
  /\ UNCHANGED <<file, cache, mu, now, tab>>

\* ... then, in another system call, size and mtime.
GetStat(c) ==
  LET p == req[c].path IN
  /\ req[c].pc = "stat"
  /\ \/ /\ Present(p)
        /\ req' = [req EXCEPT ![c] = [@ EXCEPT !.pc = "lookup", !.info = InfoOf(file[p])]]
     \/ /\ ~Present(p)
        /\ Answer(c)
  /\ UNCHANGED <<file, cache, mu, now, tab>>

\* List: WalkDir reads the directory, ...
AskList(c) ==
  /\ "list" \in Reads
  /\ req[c] = Idle
  /\ req' = [req EXCEPT ![c] = [Begin("list", Theme, NoText, NoTag, "walk")
                                EXCEPT !.todo = {p \in Doc : Present(p)}]]
  /\ UNCHANGED <<file, cache, mu, now, tab>>

\* ... and takes size and mtime of each entry as it comes to it; one that
\* has gone fails the whole walk.
ListStat(c) ==
  /\ req[c].pc = "walk"
  /\ \E p \in req[c].todo :
       \/ /\ Present(p)
          /\ req' = [req EXCEPT ![c] =
               [@ EXCEPT !.pc = "lookup", !.path = p, !.data = NoText,
                         !.info = InfoOf(file[p]), !.todo = req[c].todo \ {p}]]
       \/ /\ ~Present(p)
          /\ Answer(c)
  /\ UNCHANGED <<file, cache, mu, now, tab>>

ListEnd(c) ==
  /\ req[c].pc = "walk" /\ req[c].todo = {}
  /\ Answer(c)
  /\ UNCHANGED <<file, cache, mu, now, tab>>

----------------------------------------------------------------------------
(* stat, called by Get with the bytes it has read and by List without.     *)

\* What the caller does with the entry it gets: t is what the entry's ETag
\* and validity were computed from, data the bytes in hand.
UseEntry(c, t, data) ==
  \/ /\ req[c].op = "get"
     /\ Keep(c, req[c].path, data, etagOf(t), "get")
  \/ /\ req[c].op = "list"
     /\ req' = [req EXCEPT ![c] =
          [@ EXCEPT !.pc = "walk",
                    !.entries = req[c].entries \cup {<<req[c].path, t>>}]]
     /\ UNCHANGED tab

\* Mutant: size and mtime are not compared.
Fresh_Cached(p, info) == cache[p] # NoText

Fresh(p, info) == cache[p] # NoText /\ cache[p].info = info

\* Mutant: a List stores what it has not read.
Lookup_NoLoad(c) ==
  LET r == req[c] IN
  /\ r.pc = "lookup" /\ mu = NoText
  /\ \/ /\ Fresh(r.path, r.info)
        /\ UseEntry(c, cache[r.path].text, r.data)
     \/ /\ ~Fresh(r.path, r.info)
        /\ Goto(c, "store")
        /\ UNCHANGED tab
  /\ UNCHANGED <<file, cache, mu, now>>

Lookup(c) ==
  LET r == req[c] IN
  /\ r.pc = "lookup" /\ mu = NoText
  /\ \/ /\ Fresh(r.path, r.info)
        /\ UseEntry(c, cache[r.path].text, r.data)
     \/ /\ ~Fresh(r.path, r.info)
        /\ Goto(c, IF r.data = NoText THEN "load" ELSE "store")
        /\ UNCHANGED tab
  /\ UNCHANGED <<file, cache, mu, now>>

Load(c) ==
  LET p == req[c].path IN
  /\ req[c].pc = "load"
  /\ \/ /\ Present(p)
        /\ req' = [req EXCEPT ![c] = [@ EXCEPT !.pc = "store", !.data = file[p].text]]
     \/ /\ ~Present(p)
        /\ Answer(c)
  /\ UNCHANGED <<file, cache, mu, now, tab>>

\* Mutant: the key is taken when the entry is stored.
StoreEntry_KeyNow(c) ==
  LET r == req[c] IN
  /\ r.pc = "store" /\ mu = NoText /\ Present(r.path)
  /\ cache' = [cache EXCEPT ![r.path] = [info |-> InfoOf(file[r.path]), text |-> r.data]]
  /\ UseEntry(c, r.data, r.data)
  /\ UNCHANGED <<file, mu, now>>

StoreEntry(c) ==
  LET r == req[c] IN
  /\ r.pc = "store" /\ mu = NoText
  /\ cache' = [cache EXCEPT ![r.path] = [info |-> r.info, text |-> r.data]]
  /\ UseEntry(c, r.data, r.data)
  /\ UNCHANGED <<file, mu, now>>

----------------------------------------------------------------------------
(* Writing: Put, PutTheme and Delete.                                      *)

\* A client sends no If-Match, the star, or the ETag it got last.
Headers(c, p) ==
  {NoTag, Star} \cup (IF Holds(c, p) THEN {tab[c].etag} ELSE {})

AskWrite(c) ==
  /\ req[c] = Idle
  /\ \/ \E p \in File, t \in Text : \E m \in Headers(c, p) :
          req' = [req EXCEPT ![c] = Begin("put", p, t, m, "lock")]
     \/ \E p \in Doc : \E m \in Headers(c, p) :
          req' = [req EXCEPT ![c] = Begin("delete", p, NoText, m, "lock")]
  /\ UNCHANGED <<file, cache, mu, now, tab>>

\* The body is validated before the mutex is taken.
Refuse(c) ==
  /\ req[c].pc = "lock" /\ req[c].op = "put"
  /\ req[c].body \notin Valid[req[c].path]
  /\ Answer(c)
  /\ UNCHANGED <<file, cache, mu, now, tab>>

\* Mutant: the write path takes no mutex.
Lock_NoMutex(c) ==
  /\ req[c].pc = "lock"
  /\ req[c].op = "put" => req[c].body \in Valid[req[c].path]
  /\ mu' = c
  /\ Goto(c, "check")
  /\ UNCHANGED <<file, cache, now, tab>>

Lock(c) ==
  /\ req[c].pc = "lock" /\ mu = NoText
  /\ req[c].op = "put" => req[c].body \in Valid[req[c].path]
  /\ mu' = c
  /\ Goto(c, "check")
  /\ UNCHANGED <<file, cache, now, tab>>

\* Mutant: an update of a dashboard that has been deleted creates it again.
PutAllowed_Revive(p, m) ==
  \/ m = Star
  \/ ~Present(p)
  \/ Present(p) /\ m = etagOf(file[p].text)

PutAllowed(p, m) ==
  \/ m = Star
  \/ ~Present(p) /\ m = NoTag
  \/ Present(p) /\ m = etagOf(file[p].text)

\* Mutant: the ETag of a DELETE is not compared.
DeleteAllowed_AnyTag(p, m) == Present(p)

DeleteAllowed(p, m) ==
  Present(p) /\ m \in {NoTag, Star, etagOf(file[p].text)}

Allowed(r) ==
  \/ r.op = "put" /\ PutAllowed(r.path, r.match)
  \/ r.op = "delete" /\ DeleteAllowed(r.path, r.match)

\* The switch of Put and PutTheme and the tests of Delete: 404, 409, 412 or
\* 428 releases the mutex, otherwise the file is about to change.
Check(c) ==
  /\ req[c].pc = "check"
  /\ \/ /\ Allowed(req[c])
        /\ Goto(c, "write")
        /\ UNCHANGED mu
     \/ /\ ~Allowed(req[c])
        /\ Answer(c)
        /\ mu' = NoText
  /\ UNCHANGED <<file, cache, now, tab>>

\* writeAtomic renames a finished file over the old one, whatever that has
\* become since Check; then the cache entry goes and the mutex is released.
\* The client may be gone before it gets its new ETag.
PutWrite(c) ==
  LET r == req[c] IN
  /\ r.pc = "write" /\ r.op = "put"
  /\ Rewrite(r.path, Pretty[r.body])
  /\ Forget(r.path)
  /\ \/ Keep(c, r.path, r.body, etagOf(Pretty[r.body]), "put")
     \/ Faults /\ Answer(c) /\ UNCHANGED tab
  /\ mu' = NoText

DeleteRemove(c) ==
  LET p == req[c].path IN
  /\ req[c].pc = "write" /\ req[c].op = "delete" /\ Present(p)
  /\ file' = [file EXCEPT ![p] = NoText]
  /\ Forget(p)
  /\ Answer(c)
  /\ mu' = NoText
  /\ UNCHANGED <<now, tab>>

\* The temporary file cannot be written, or os.Remove fails (someone else
\* has removed the file): nothing changes.
WriteFails(c) ==
  /\ req[c].pc = "write"
  /\ Faults \/ (req[c].op = "delete" /\ ~Present(req[c].path))
  /\ Answer(c)
  /\ mu' = NoText
  /\ UNCHANGED <<file, cache, now, tab>>

----------------------------------------------------------------------------
(* Everyone else who writes the files, and the server's restart.           *)

ExternalEdit ==
  /\ Outside
  /\ \E p \in File, t \in Text : Rewrite(p, t)
  /\ UNCHANGED <<cache, mu, req, tab>>

ExternalRemove ==
  /\ Outside
  /\ \E p \in File : Present(p) /\ file' = [file EXCEPT ![p] = NoText]
  /\ UNCHANGED <<cache, mu, now, req, tab>>

\* Files and what the clients hold survive; cache, mutex and requests do not.
Restart ==
  /\ Faults
  /\ cache' = [p \in Doc |-> NoText]
  /\ mu' = NoText
  /\ req' = [c \in Client |-> Idle]
  /\ UNCHANGED <<file, now, tab>>

----------------------------------------------------------------------------
Serve(c) ==
  \/ ReadRaw(c) \/ GetRead(c) \/ GetStat(c)
  \/ ListStat(c) \/ ListEnd(c)
  \/ Lookup(c) \/ Load(c) \/ StoreEntry(c)
  \/ Refuse(c) \/ Lock(c) \/ Check(c)
  \/ PutWrite(c) \/ DeleteRemove(c) \/ WriteFails(c)

Ask(c) == AskRead(c) \/ AskList(c) \/ AskWrite(c)

Next ==
  \/ \E c \in Client : Ask(c) \/ Serve(c)
  \/ ExternalEdit \/ ExternalRemove \/ Restart

Spec == Init /\ [][Next]_vars

----------------------------------------------------------------------------
TypeOK ==
  /\ file \in [File -> Stored \cup {NoText}]
  /\ cache \in [Doc -> CacheEntry \cup {NoText}]
  /\ mu \in Client \cup {NoText}
  /\ now \in 0..MaxClock
  /\ req \in [Client -> Request]
  /\ tab \in [Client -> Tab \cup {NoText}]

\* c's request changes a file in this step.
Writes(c) == req[c].pc = "write" /\ req'[c] = Idle /\ file' # file

(***************************************************************************)
(* store.go:343, "no blind overwrites": however two PUTs without If-Match  *)
(* race, each creates a file that was not there.  The check and the rename *)
(* are two steps with a Lock around them, so this is about mu.             *)
(***************************************************************************)
NoBlindOverwrite ==
  [][\A c \in Client :
       (Writes(c) /\ req[c].op = "put" /\ req[c].match = NoTag) => ~Present(req[c].path)]_vars

Conditional(c) == req[c].match \notin {NoTag, Star}

\* c's request replaces or removes the document that c itself got last.
ChangesWhatItHolds(c) ==
  /\ Present(req[c].path)
  /\ Pretty[file[req[c].path].text] = Pretty[tab[c].doc]

(***************************************************************************)
(* Optimistic concurrency (store.go:339-345, 403): a PUT or DELETE with    *)
(* the ETag of a download, of the theme or of an earlier PUT changes the   *)
(* very document its client saw, whatever other requests, JSON GETs and    *)
(* cache entries come between.  A saved document is never lost and a       *)
(* deleted one never comes back.                                           *)
(***************************************************************************)
RawNeverLost ==
  [][\A c \in Client :
       (Writes(c) /\ Conditional(c) /\ tab[c].via # "get") => ChangesWhatItHolds(c)]_vars

(***************************************************************************)
(* The same for every client, also those that read with the JSON GET: the  *)
(* promise of ConflictError (store.go:40-41).                              *)
(***************************************************************************)
NeverLost ==
  [][\A c \in Client : (Writes(c) /\ Conditional(c)) => ChangesWhatItHolds(c)]_vars

(***************************************************************************)
(* store.go:69-71: an entry whose size and mtime are the file's was        *)
(* computed from the file as it is.  Entries are stored after the file was *)
(* read, in a step of their own, by many requests at once.                 *)
(***************************************************************************)
CacheHonest ==
  \A p \in Doc :
    (Present(p) /\ Fresh(p, InfoOf(file[p]))) => cache[p].text = file[p].text

(***************************************************************************)
(* store.go:234-281, 200-203: an entry that a List collects, be it out of  *)
(* the cache or loaded, is that of the file as the walk found it: as long  *)
(* as nobody has changed the file since, of its text.  The walk, the       *)
(* lookup, the load and the store are steps of their own.                  *)
(***************************************************************************)
ListFresh ==
  [][\A c \in Client : \A e \in req'[c].entries \ req[c].entries :
       LET p == e[1] IN
       (Present(p) /\ InfoOf(file[p]) = req[c].info) => e[2] = file[p].text]_vars
=============================================================================
