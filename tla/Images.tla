------------------------------- MODULE Images -------------------------------
(***************************************************************************)
(* Images the panel owns in its bucket and the rows that show them           *)
(* (apps/panel/src/server/storage): avatars and logos, replaced and removed  *)
(* by managed-image.ts with the user, organization and admin functions, and  *)
(* the icons of eggs (server/eggs).  Requests interleave between two awaits; *)
(* a call may fail, a persist may take effect and be reported as failed, and *)
(* a request may come from a session or an editor that is out of date.      *)
(***************************************************************************)
CONSTANTS
  Accounts,   \* users and organizations: each has one managed image
  Eggs,       \* ids of eggs: each is minted once
  Objects,    \* keys in the bucket: each is minted once
  Handlers,   \* requests under way at once
  NoImage     \* null

ASSUME ImagesAssumption ==
  NoImage \notin Accounts \cup Eggs \cup Objects /\ Accounts \cap Eggs = {}

VARIABLES
  shown,     \* [Accounts \cup Eggs -> Objects or NoImage]: the URL of the row
  egg,       \* [Eggs -> "unborn" | "there" | "gone"]
  object,    \* [Objects -> "unborn" | "there" | "gone"]
  draft,     \* {<<egg, object>>}: icons uploaded in an editor, not yet saved
  handler,   \* [Handlers -> Handler]
  seen,      \* history: {<<owner, object>>}: what a page may still hold
  spoiled    \* history: owners whose row was written by what cannot be undone

imagesVars == <<shown, egg, object, draft, handler, seen, spoiled>>

Owners == Accounts \cup Eggs
Existence == {"unborn", "there", "gone"}
Handler == [does : {"none", "replace", "remove", "save", "fork", "delete"},
            at : {"idle", "put", "persist", "undo", "copy", "insert", "drop"},
            owner : Owners \cup {NoImage},
            prev : Objects \cup {NoImage}, next : Objects \cup {NoImage}]
NoHandler == [does |-> "none", at |-> "idle", owner |-> NoImage, prev |-> NoImage, next |-> NoImage]

ImagesInit ==
  /\ shown = [x \in Owners |-> NoImage]
  /\ egg = [e \in Eggs |-> "unborn"]
  /\ object = [o \in Objects |-> "unborn"]
  /\ draft = {} /\ seen = {} /\ spoiled = {}
  /\ handler = [h \in Handlers |-> NoHandler]

Does(h, what, at) == handler[h].does = what /\ handler[h].at = at
Opened(h, new) == handler[h] = NoHandler /\ handler' = [handler EXCEPT ![h] = new]
Continues(h, at) == handler' = [handler EXCEPT ![h].at = at]
Closed(h) == handler' = [handler EXCEPT ![h] = NoHandler]

Puts(o) == object[o] = "unborn" /\ object' = [object EXCEPT ![o] = "there"]

\* A best-effort delete: it may fail, and nobody is told.
Deletes(o) ==
  \/ object' = [x \in Objects |-> IF x = o THEN "gone" ELSE object[x]]
  \/ UNCHANGED object

\* The row shows o, and pages that were rendered may go on showing the last one.
Shows(x, o) ==
  /\ shown' = [shown EXCEPT ![x] = o]
  /\ seen' = seen \cup {<<x, shown[x]>>}

\* The image that the caller's session, or a read of the row, says is shown.
Known(x, o) == o = shown[x] \/ <<x, o>> \in seen

(***************************************************************************)
(* replaceManagedImage and the removal of an account's image.               *)
(***************************************************************************)
ReplaceImage(h, a, o) ==
  /\ Known(a, o)
  /\ Opened(h, [NoHandler EXCEPT !.does = "replace", !.at = "put", !.owner = a, !.prev = o])
  /\ UNCHANGED <<shown, egg, object, draft, seen, spoiled>>

PutImage(h, o) ==
  /\ Does(h, "replace", "put")
  /\ Puts(o)
  /\ handler' = [handler EXCEPT ![h].at = "persist", ![h].next = o]
  /\ UNCHANGED <<shown, egg, draft, seen, spoiled>>

RemoveImage(h, a, o) ==
  /\ Known(a, o)
  /\ Opened(h, [NoHandler EXCEPT !.does = "remove", !.at = "persist", !.owner = a, !.prev = o])
  /\ UNCHANGED <<shown, egg, object, draft, seen, spoiled>>

Persisting(h) == Does(h, "replace", "persist") \/ Does(h, "remove", "persist")

Persist(h) ==
  /\ Persisting(h)
  /\ Shows(handler[h].owner, handler[h].next)
  /\ Continues(h, "drop")
  /\ UNCHANGED <<egg, object, draft, spoiled>>

\* mutation: the previous image is dropped whatever happened
DropAnyway(h) == IF handler[h].does = "replace" THEN Continues(h, "drop") ELSE Closed(h)

\* An error: what was put is taken back; a removal just throws.
GiveUp(h) == IF handler[h].does = "replace" THEN Continues(h, "undo") ELSE Closed(h)

PersistFails(h) ==
  /\ Persisting(h)
  /\ GiveUp(h)
  /\ UNCHANGED <<shown, egg, object, draft, seen, spoiled>>

\* The row is written and the answer is lost.
PersistUnheard(h) ==
  /\ Persisting(h)
  /\ Shows(handler[h].owner, handler[h].next)
  /\ GiveUp(h)
  /\ spoiled' = spoiled \cup {handler[h].owner}
  /\ UNCHANGED <<egg, object, draft>>

UndoPut(h) ==
  /\ Does(h, "replace", "undo")
  /\ Deletes(handler[h].next)
  /\ Closed(h)
  /\ UNCHANGED <<shown, egg, draft, seen, spoiled>>

\* deleteOwnedObject, deleteEggIcon: the image that was there before.
DropPrevious(h) ==
  /\ handler[h].at = "drop"
  /\ Deletes(handler[h].prev)
  /\ Closed(h)
  /\ UNCHANGED <<shown, egg, draft, seen, spoiled>>

(***************************************************************************)
(* Eggs.  An icon is uploaded before its egg is saved, maybe before there is *)
(* one; a save carries the icon that the editor holds.                      *)
(***************************************************************************)
UploadEggIcon(e, o) ==
  /\ Puts(o)
  /\ draft' = draft \cup {<<e, o>>}
  /\ UNCHANGED <<shown, egg, handler, seen, spoiled>>

\* insertEgg, of an editor's input or an import (which has no icon).
CreateEgg(e, o) ==
  /\ egg[e] = "unborn" /\ \A h \in Handlers : handler[h].owner # e
  /\ o = NoImage \/ <<e, o>> \in draft
  /\ egg' = [egg EXCEPT ![e] = "there"]
  /\ Shows(e, o)
  /\ draft' = draft \ {<<e, o>>}
  /\ UNCHANGED <<object, handler, spoiled>>

\* updateEgg: findOwned, then the transaction, then the old icon.
UpdateEgg(h, e, o) ==
  /\ egg[e] = "there"
  /\ o = NoImage \/ <<e, o>> \in draft \/ Known(e, o)
  /\ Opened(h, [NoHandler EXCEPT !.does = "save", !.at = "persist", !.owner = e,
                                 !.prev = shown[e], !.next = o])
  /\ UNCHANGED <<shown, egg, object, draft, seen, spoiled>>

\* An icon that the editor got from the row, which has another one by now.
Outdated(e, o) == o # NoImage /\ o # shown[e] /\ <<e, o>> \notin draft

ApplyEdit(h) ==
  /\ Does(h, "save", "persist")
  /\ LET e == handler[h].owner  o == handler[h].next IN
     IF egg[e] = "there"
       THEN /\ Shows(e, o)
            /\ draft' = draft \ {<<e, o>>}
            /\ spoiled' = IF Outdated(e, o) THEN spoiled \cup {e} ELSE spoiled
            /\ IF handler[h].prev = o THEN Closed(h) ELSE Continues(h, "drop")
       ELSE Closed(h) /\ UNCHANGED <<shown, draft, seen, spoiled>>
  /\ UNCHANGED <<egg, object>>

DeleteEgg(h, e) ==
  /\ egg[e] = "there"
  /\ Opened(h, [NoHandler EXCEPT !.does = "delete", !.at = "persist", !.owner = e, !.prev = shown[e]])
  /\ UNCHANGED <<shown, egg, object, draft, seen, spoiled>>

RemoveEgg(h) ==
  /\ Does(h, "delete", "persist")
  /\ LET e == handler[h].owner IN
     IF egg[e] = "there"
       THEN egg' = [egg EXCEPT ![e] = "gone"] /\ Shows(e, NoImage) /\ Continues(h, "drop")
       ELSE Closed(h) /\ UNCHANGED <<shown, egg, seen>>
  /\ UNCHANGED <<object, draft, spoiled>>

\* forkEgg: the source's icon is copied, if it can be, and the copy inserted.
ForkEgg(h, e, copy) ==
  /\ egg[e] = "there" /\ egg[copy] = "unborn" /\ \A q \in Handlers : handler[q].owner # copy
  /\ Opened(h, [NoHandler EXCEPT !.does = "fork", !.owner = copy, !.prev = shown[e],
                                 !.at = IF shown[e] = NoImage THEN "insert" ELSE "copy"])
  /\ UNCHANGED <<shown, egg, object, draft, seen, spoiled>>

CopyIcon(h, o) ==
  /\ Does(h, "fork", "copy")
  /\ object[handler[h].prev] = "there"
  /\ Puts(o)
  /\ handler' = [handler EXCEPT ![h].at = "insert", ![h].next = o]
  /\ UNCHANGED <<shown, egg, draft, seen, spoiled>>

CopyFails(h) ==
  /\ Does(h, "fork", "copy")
  /\ Continues(h, "insert")
  /\ UNCHANGED <<shown, egg, object, draft, seen, spoiled>>

InsertFork(h) ==
  /\ Does(h, "fork", "insert")
  /\ egg' = [egg EXCEPT ![handler[h].owner] = "there"]
  /\ Shows(handler[h].owner, handler[h].next)
  /\ Closed(h)
  /\ UNCHANGED <<object, draft, spoiled>>

\* The panel dies, or a call that is not best-effort throws.
HandlerEnds(h) ==
  /\ handler[h] # NoHandler
  /\ Closed(h)
  /\ UNCHANGED <<shown, egg, object, draft, seen, spoiled>>

ImagesNext ==
  \/ \E h \in Handlers :
       \/ \E a \in Accounts, o \in Objects \cup {NoImage} : ReplaceImage(h, a, o) \/ RemoveImage(h, a, o)
       \/ \E o \in Objects : PutImage(h, o) \/ CopyIcon(h, o)
       \/ \E e \in Eggs : \/ DeleteEgg(h, e) \/ \E copy \in Eggs : ForkEgg(h, e, copy)
                          \/ \E o \in Objects \cup {NoImage} : UpdateEgg(h, e, o)
       \/ Persist(h) \/ PersistFails(h) \/ PersistUnheard(h) \/ UndoPut(h) \/ DropPrevious(h)
       \/ ApplyEdit(h) \/ RemoveEgg(h) \/ CopyFails(h) \/ InsertFork(h) \/ HandlerEnds(h)
  \/ \E e \in Eggs : \/ \E o \in Objects : UploadEggIcon(e, o)
                     \/ \E o \in Objects \cup {NoImage} : CreateEgg(e, o)

ImagesSpec == ImagesInit /\ [][ImagesNext]_imagesVars

ImagesTypeOK ==
  /\ shown \in [Owners -> Objects \cup {NoImage}]
  /\ egg \in [Eggs -> Existence]
  /\ object \in [Objects -> Existence]
  /\ draft \subseteq Eggs \X Objects
  /\ handler \in [Handlers -> Handler]
  /\ seen \subseteq Owners \X (Objects \cup {NoImage})
  /\ spoiled \subseteq Owners

(***************************************************************************)
(* No broken image (managed-image.ts:39-46, icon.ts:34-41, service.ts:298:   *)
(* "deleting the old object can't strand another egg"): however requests     *)
(* interleave and whatever fails, what a row shows is in the bucket, unless  *)
(* a persist was reported as failed or an outdated editor was saved.        *)
(***************************************************************************)
ShownImageExists ==
  \A x \in Owners \ spoiled : shown[x] # NoImage => object[shown[x]] = "there"
=============================================================================
