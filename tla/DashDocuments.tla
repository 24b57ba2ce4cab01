--------------------------- MODULE DashDocuments ---------------------------
(***************************************************************************)
(* What the dashboard API promises those who write: documents that change  *)
(* in one step each, and only as a client asked.  A client creates a       *)
(* document that is not there, updates or deletes the one it holds, or     *)
(* says that it does not care.  How the text is formatted, cached and      *)
(* written to disk is not part of the promise.                             *)
(***************************************************************************)
CONSTANTS Client, File, Document, None

VARIABLES doc, held, ask

vars == <<doc, held, ask>>

Holding == [path : File, doc : Document \cup {None}]

\* new = None asks for the document to be deleted.
Change == [path : File, new : Document \cup {None}, how : {"create", "update", "force"}]

Init ==
  /\ doc \in [File -> Document \cup {None}]
  /\ held = [c \in Client |-> None]
  /\ ask = [c \in Client |-> None]

Learn(c) ==
  /\ ask[c] = None
  /\ UNCHANGED <<doc, ask>>
  /\ \E p \in File : held' = [held EXCEPT ![c] = [path |-> p, doc |-> doc[p]]]

\* A client that reads without a promise holds nothing it can rely on.
Forget(c) ==
  /\ ask[c] = None
  /\ UNCHANGED <<doc, ask>>
  /\ held' = [held EXCEPT ![c] = None]

\* The intersection spares TLC the enumeration of Change.
Ask(c) ==
  /\ ask[c] = None
  /\ UNCHANGED <<doc, held>>
  /\ \E r \in Change \cap {ask'[c]} :
       /\ r.how = "update" => held[c] # None /\ held[c].path = r.path
       /\ ask' = [ask EXCEPT ![c] = r]

Granted(c, r) ==
  \/ r.how = "create" /\ doc[r.path] = None
  \/ r.how = "update" /\ doc[r.path] # None /\ doc[r.path] = held[c].doc
  \/ r.how = "force"

Do(c) ==
  LET r == ask[c] IN
  /\ r # None /\ Granted(c, r)
  /\ doc' = [doc EXCEPT ![r.path] = r.new]
  /\ \/ UNCHANGED held   \* nothing to hold, or the client gets no answer
     \/ r.new # None /\ held' = [held EXCEPT ![c] = [path |-> r.path, doc |-> r.new]]
  /\ ask' = [ask EXCEPT ![c] = None]

\* A conflict, a fault, or a server that stops before it has answered.
Refuse ==
  /\ UNCHANGED <<doc, held>>
  /\ \E C \in SUBSET Client :
       ask' = [c \in Client |-> IF c \in C THEN None ELSE ask[c]]

Next == \/ Refuse
        \/ \E c \in Client : Learn(c) \/ Forget(c) \/ Ask(c) \/ Do(c)

Spec == Init /\ [][Next]_vars
=============================================================================
