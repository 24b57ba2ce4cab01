------------------------- MODULE DashStoreDocuments -------------------------
(***************************************************************************)
(* DashStore seen as DashDocuments: a document is a file's text without    *)
(* its formatting, and a request stands for the change it asks for.  An    *)
(* ETag from a JSON GET need not be that of the document it came with, so  *)
(* its client holds nothing, and a write with it counts as one that does   *)
(* not care.                                                               *)
(***************************************************************************)
EXTENDS DashStore

DocumentOf(t) == IF t = NoText THEN NoText ELSE Pretty[t]

docBar == [p \in File |-> IF Present(p) THEN Pretty[file[p].text] ELSE NoText]

HeldOf(t) ==
  IF t = NoText \/ t.via = "get" THEN NoText
  ELSE [path |-> t.path, doc |-> DocumentOf(t.doc)]

heldBar == [c \in Client |-> HeldOf(tab[c])]

How(r, t) ==
  IF \/ r.match = Star
     \/ r.op = "delete" /\ r.match = NoTag
     \/ r.match \notin {NoTag, Star} /\ t.via = "get"
  THEN "force"
  ELSE IF r.match = NoTag THEN "create" ELSE "update"

AskOf(r, t) ==
  IF r.op \in {"put", "delete"}
  THEN [path |-> r.path, new |-> DocumentOf(r.body), how |-> How(r, t)]
  ELSE NoText

askBar == [c \in Client |-> AskOf(req[c], tab[c])]

Documents ==
  INSTANCE DashDocuments
    WITH Document <- Text, None <- NoText,
         doc <- docBar, held <- heldBar, ask <- askBar

ASSUME NoChangeAssumption == NoText \notin Documents!Change \cup Documents!Holding

(***************************************************************************)
(* Put, PutTheme and Delete (store.go:350-487) take effect in one step and *)
(* only as asked, although each reads the file, decides and writes in      *)
(* steps of its own while others do the same.                              *)
(***************************************************************************)
ImplementsDocuments == Documents!Spec
=============================================================================
