---------------------------- MODULE EditsProofs ----------------------------
(***************************************************************************)
(* Theorems about what concurrent edits leave, in Images and RedisKeys, for  *)
(* any rows, objects, requests, keys and browsers.                          *)
(***************************************************************************)
EXTENDS Images, RedisKeys, TLAPS

(***************************************************************************)
(* Images.                                                                  *)
(***************************************************************************)
\* What a request may still delete, and the new object it alone knows of.
MayDrop(t) == t.does # "fork"
Holds(t) == t.next # NoImage /\ ((t.does = "replace" /\ t.at = "persist") \/ t.does = "fork")

\* The steps that each kind of request has, and what it has put by then.
HandlerFits(t) ==
  \/ t = NoHandler
  \/ /\ t.does = "replace" /\ t.owner \in Accounts
     /\ t.at \in {"put", "persist", "undo", "drop"} /\ (t.at = "put" <=> t.next = NoImage)
  \/ t.does = "remove" /\ t.owner \in Accounts /\ t.at \in {"persist", "drop"} /\ t.next = NoImage
  \/ t.does \in {"save", "delete"} /\ t.owner \in Eggs /\ t.at \in {"persist", "drop"}
  \/ /\ t.does = "fork" /\ t.owner \in Eggs
     /\ t.at \in {"copy", "insert"} /\ (t.at = "copy" => t.next = NoImage)
HandlersFit == \A h \in Handlers : HandlerFits(handler[h])

\* An object is tied to a row that shows it, that a browser saw show it, whose
\* draft has it or that a request of it works with.  An object has one such row.
Uses(t, x, o) == t.owner = x /\ (t.next = o \/ (MayDrop(t) /\ t.prev = o))
Tied(x, o) ==
  shown[x] = o \/ <<x, o>> \in seen \/ <<x, o>> \in draft \/ \E h \in Handlers : Uses(handler[h], x, o)
OneOwner == \A o \in Objects : \A x, y \in Owners : Tied(x, o) /\ Tied(y, o) => x = y
UnbornUntied == \A o \in Objects : object[o] = "unborn" => \A x \in Owners : ~Tied(x, o)

\* An object that no row shows yet and no request deletes: an uploaded icon that
\* waits for its egg to be saved, and what a request put and has not tied to a row.
Clean(o) ==
  /\ object[o] = "there"
  /\ \A y \in Owners : shown[y] # o /\ <<y, o>> \notin seen
  /\ \A q \in Handlers : MayDrop(handler[q]) => handler[q].prev # o
DraftClean == \A x \in Eggs, o \in Objects : <<x, o>> \in draft => Clean(o)
HeldClean ==
  \A h \in Handlers : Holds(handler[h]) =>
    /\ Clean(handler[h].next)
    /\ \A y \in Owners : <<y, handler[h].next>> \notin draft
    /\ \A q \in Handlers \ {h} : handler[q].next # handler[h].next

\* What a request is about to delete is not shown, unless the row is spoiled.
SafeDrop(t) ==
  t.owner \notin spoiled =>
    /\ (t.at = "drop" /\ t.prev # NoImage) => shown[t.owner] # t.prev
    /\ t.at = "undo" => shown[t.owner] # t.next
DropsSafe == \A h \in Handlers : SafeDrop(handler[h])
ImagesInv ==
  /\ ImagesTypeOK /\ HandlersFit /\ OneOwner /\ UnbornUntied /\ DraftClean /\ HeldClean
  /\ DropsSafe /\ ShownImageExists

\* Ties are to one owner, and what a request took from the bucket is not shown
\* on a row that is not spoiled, is no icon of a draft and no other's next.
LEMMA DoomedUnshown ==
  ASSUME ImagesInv, NEW h \in Handlers, NEW o \in Objects,
         \/ handler[h].at = "drop" /\ handler[h].prev = o
         \/ Does(h, "replace", "undo") /\ handler[h].next = o
  PROVE  /\ \A x \in Owners \ spoiled : shown[x] # o
         /\ \A e \in Eggs : <<e, o>> \notin draft
         /\ \A q \in Handlers : Holds(handler[q]) => handler[q].next # o
<1>1. /\ HandlerFits(handler[h]) /\ SafeDrop(handler[h]) /\ handler[h] \in Handler
      /\ handler[h] # NoHandler
  BY DEF ImagesInv, ImagesTypeOK, HandlersFit, DropsSafe, NoHandler, Does
<1>2. Uses(handler[h], handler[h].owner, o) /\ handler[h].owner \in Owners
  BY <1>1 DEF HandlerFits, Uses, MayDrop, Does, Owners
<1>3. ~Holds(handler[h]) /\ (handler[h].at = "undo" => handler[h].owner \in Accounts)
  BY <1>1 DEF HandlerFits, Holds, Does
<1>4. Tied(handler[h].owner, o)
  BY <1>2 DEF Tied
<1>5. \A x \in Owners \ spoiled : shown[x] # o
  BY <1>1, <1>2, <1>4, ImagesAssumption DEF SafeDrop, Tied, ImagesInv, OneOwner, Does
<1>6. ASSUME NEW e \in Eggs, <<e, o>> \in draft  PROVE FALSE
  <2>1. Clean(o) /\ Tied(e, o) /\ e \in Owners
    BY <1>6 DEF ImagesInv, DraftClean, Tied, Owners
  <2>2. handler[h].owner = e
    BY <1>2, <1>4, <2>1 DEF ImagesInv, OneOwner
  <2> QED BY <1>1, <1>3, <2>1, <2>2, ImagesAssumption DEF HandlerFits, Clean, MayDrop, Does
<1>7. ASSUME NEW q \in Handlers, Holds(handler[q])  PROVE handler[q].next # o
  BY <1>1, <1>3, <1>7 DEF ImagesInv, HeldClean, Clean, HandlerFits, MayDrop, Does
<1> QED BY <1>5, <1>6, <1>7

\* A request that ends, whether it deletes its object or leaves it.
LEMMA EndKeeps ==
  ASSUME ImagesInv, NEW h \in Handlers, Closed(h), UNCHANGED <<shown, egg, draft, seen, spoiled>>,
         \/ UNCHANGED object
         \/ handler[h].at = "drop" /\ Deletes(handler[h].prev)
         \/ Does(h, "replace", "undo") /\ Deletes(handler[h].next)
  PROVE  ImagesInv'
<1> USE DEF Closed
<1>1. handler' \in [Handlers -> Handler] /\ \A q \in Handlers : handler'[q] \in {handler[q], NoHandler}
  BY DEF ImagesInv, ImagesTypeOK, Handler, NoHandler
<1>2. object' \in [Objects -> Existence] /\ \A o \in Objects : object'[o] \in {object[o], "gone"}
  BY DEF ImagesInv, ImagesTypeOK, Deletes, Existence
<1>3. ImagesTypeOK' /\ HandlersFit'
  BY <1>1, <1>2 DEF ImagesInv, ImagesTypeOK, HandlersFit, HandlerFits, Owners, Handler, NoHandler
<1>4. ~MayDrop(NoHandler) \/ NoHandler.prev = NoImage
  BY DEF NoHandler
<1>5. ASSUME NEW x \in Owners, NEW o \in Objects, Tied(x, o)'  PROVE Tied(x, o)
  BY <1>1, <1>5, ImagesAssumption DEF Tied, Uses, NoHandler, Owners
<1>6. OneOwner' /\ UnbornUntied'
  BY <1>2, <1>5 DEF ImagesInv, OneOwner, UnbornUntied, Owners
<1>7. ASSUME NEW o \in Objects, object'[o] # object[o]
      PROVE  /\ \A x \in Owners \ spoiled : shown[x] # o
             /\ \A e \in Eggs : <<e, o>> \notin draft
             /\ \A q \in Handlers : Holds(handler[q]) => handler[q].next # o
  BY <1>7, DoomedUnshown DEF Deletes
<1>8. ASSUME NEW o \in Objects, object'[o] = object[o], Clean(o)  PROVE Clean(o)'
  BY <1>1, <1>4, <1>8, ImagesAssumption DEF Clean
<1>9. DraftClean'
  BY <1>7, <1>8 DEF ImagesInv, DraftClean
<1>10. HeldClean'
  <2> SUFFICES ASSUME NEW q \in Handlers, Holds(handler'[q])
               PROVE  /\ Clean(handler[q].next)'
                      /\ \A y \in Owners : <<y, handler[q].next>> \notin draft
                      /\ \A p \in Handlers \ {q} : handler'[p].next # handler[q].next
                      /\ handler'[q] = handler[q]
    BY DEF HeldClean, Owners
  <2>1. handler'[q] = handler[q] /\ Holds(handler[q]) /\ handler[q].next \in Objects
    BY <1>1 DEF Holds, NoHandler, Handler
  <2> QED BY <1>1, <1>7, <1>8, <2>1 DEF ImagesInv, HeldClean, NoHandler, Owners, Holds
<1>11. DropsSafe'
  BY <1>1 DEF ImagesInv, DropsSafe, SafeDrop, NoHandler
<1>12. ShownImageExists'
  BY <1>3, <1>7 DEF ImagesInv, ImagesTypeOK, ShownImageExists, Owners
<1> QED BY <1>3, <1>6, <1>9, <1>10, <1>11, <1>12 DEF ImagesInv

\* A request begins: it takes what its owner's row shows or has shown, and a
\* save the icon of a draft.
LEMMA OpenKeeps ==
  ASSUME ImagesInv, NEW h \in Handlers, NEW t \in Handler, Opened(h, t), HandlerFits(t),
         t.owner \in Owners, t.at \notin {"drop", "undo"}, ~Holds(t),
         MayDrop(t) => Known(t.owner, t.prev),
         t.next = NoImage \/ Known(t.owner, t.next) \/ <<t.owner, t.next>> \in draft,
         UNCHANGED <<shown, egg, object, draft, seen, spoiled>>
  PROVE  ImagesInv'
<1> USE DEF Opened
<1>1. handler' \in [Handlers -> Handler] /\ \A q \in Handlers : handler'[q] = IF q = h THEN t ELSE handler[q]
  BY DEF ImagesInv, ImagesTypeOK
<1>2. ImagesTypeOK' /\ HandlersFit'
  BY <1>1 DEF ImagesInv, ImagesTypeOK, HandlersFit, HandlerFits, Owners, Handler, NoHandler
<1>3. ASSUME NEW x \in Owners, NEW o \in Objects, Tied(x, o)'  PROVE Tied(x, o)
  BY <1>1, <1>3, ImagesAssumption DEF Tied, Uses, Known, Owners
<1>4. OneOwner' /\ UnbornUntied'
  BY <1>3 DEF ImagesInv, OneOwner, UnbornUntied, Owners
<1>5. ASSUME NEW o \in Objects, Clean(o)  PROVE Clean(o)'
  BY <1>1, <1>5 DEF Clean, Known, Owners
<1>6. DraftClean'
  BY <1>5 DEF ImagesInv, DraftClean
<1>7. HeldClean'
  <2> SUFFICES ASSUME NEW q \in Handlers, Holds(handler'[q])
               PROVE  /\ Clean(handler[q].next)'
                      /\ \A y \in Owners : <<y, handler'[q].next>> \notin draft
                      /\ \A p \in Handlers \ {q} : handler'[p].next # handler'[q].next
    BY DEF HeldClean, Owners
  <2>1. handler'[q] = handler[q] /\ Holds(handler[q]) /\ q # h /\ handler[q].next \in Objects
    BY <1>1, <1>2 DEF Holds, Handler, ImagesTypeOK
  <2>2. Clean(handler[q].next) /\ \A y \in Owners : <<y, handler[q].next>> \notin draft
    BY <2>1 DEF ImagesInv, HeldClean, Owners
  <2>3. t.next # handler[q].next
    BY <2>1, <2>2, ImagesAssumption DEF Clean, Known, Owners
  <2> QED BY <1>1, <1>5, <2>1, <2>2, <2>3 DEF ImagesInv, HeldClean
<1>8. DropsSafe'
  BY <1>1 DEF ImagesInv, DropsSafe, SafeDrop
<1>9. ShownImageExists'
  BY DEF ImagesInv, ShownImageExists, Owners
<1> QED BY <1>2, <1>4, <1>6, <1>7, <1>8, <1>9 DEF ImagesInv

\* A row shows an image, and what its page had may be held by others.
LEMMA ShowKeeps ==
  ASSUME ImagesInv, NEW x \in Owners, NEW o \in Objects \cup {NoImage}, Shows(x, o),
         draft' = draft \ {<<x, o>>}, UNCHANGED object, egg' \in [Eggs -> Existence],
         spoiled \subseteq spoiled', spoiled' \subseteq Owners, o # NoImage => Tied(x, o),
         handler' \in [Handlers -> Handler], HandlersFit',
         \A q \in Handlers :
           /\ handler'[q] \in {handler[q], NoHandler, [handler[q] EXCEPT !.at = "drop"],
                               [handler[q] EXCEPT !.at = "undo"]}
           /\ Holds(handler'[q]) => handler[q].next # o
           /\ handler'[q].owner \notin spoiled' /\ handler'[q].at # handler[q].at /\ handler'[q] # NoHandler
                => /\ handler'[q].at = "drop" /\ handler[q].owner = x
                   /\ handler[q].prev = NoImage \/ handler[q].prev # o,
         x \in spoiled' \/ o = NoImage \/ o = shown[x] \/
           (Clean(o) /\ \A q \in Handlers : handler'[q].at = "undo" => handler[q].next # o)
  PROVE  ImagesInv'
<1> USE DEF Shows
<1>1. ImagesTypeOK'
  BY DEF ImagesInv, ImagesTypeOK, Owners
<1>2. shown' = [y \in Owners |-> IF y = x THEN o ELSE shown[y]]
  BY DEF ImagesInv, ImagesTypeOK
<1>20. ASSUME NEW q \in Handlers
       PROVE  \/ handler'[q] = NoHandler
              \/ /\ handler'[q].does = handler[q].does /\ handler'[q].owner = handler[q].owner
                 /\ handler'[q].prev = handler[q].prev /\ handler'[q].next = handler[q].next
  <2>1. handler[q] \in Handler
    BY DEF ImagesInv, ImagesTypeOK
  <2> QED BY <2>1 DEF Handler
<1>21. /\ NoHandler.prev = NoImage /\ NoHandler.next = NoImage
         /\ NoHandler.owner = NoImage /\ NoHandler.at = "idle"
  BY DEF NoHandler
<1>22. \A q \in Handlers : /\ MayDrop(handler'[q]) => handler'[q].prev \in {handler[q].prev, NoImage}
                           /\ MayDrop(handler'[q]) /\ handler'[q].prev # NoImage => MayDrop(handler[q])
                           /\ handler'[q].next \in {handler[q].next, NoImage}
                           /\ handler'[q].owner \in {handler[q].owner, NoImage}
  BY <1>20, <1>21 DEF MayDrop
<1>3. ASSUME NEW y \in Owners, NEW p \in Objects, Tied(y, p)'  PROVE Tied(y, p)
  BY <1>2, <1>22, <1>20, <1>21, <1>3, ImagesAssumption DEF Tied, Uses, Owners
<1>4. OneOwner' /\ UnbornUntied'
  BY <1>3 DEF ImagesInv, OneOwner, UnbornUntied, Owners
<1>5. ASSUME NEW p \in Objects, Clean(p), p # o  PROVE Clean(p)'
  BY <1>2, <1>22, <1>5, ImagesAssumption DEF Clean, Owners
<1>6. DraftClean'
  <2> SUFFICES ASSUME NEW e \in Eggs, NEW p \in Objects, <<e, p>> \in draft'  PROVE Clean(p)'
    BY DEF DraftClean
  <2>1. <<e, p>> \in draft /\ Clean(p) /\ Tied(e, p) /\ e \in Owners
    BY DEF ImagesInv, DraftClean, Tied, Owners
  <2>2. p # o
    BY <2>1, ImagesAssumption DEF ImagesInv, OneOwner
  <2> QED BY <1>5, <2>1, <2>2
<1>7. HeldClean'
  <2> SUFFICES ASSUME NEW q \in Handlers, Holds(handler'[q])
               PROVE  /\ Clean(handler[q].next)'
                      /\ \A y \in Owners : <<y, handler'[q].next>> \notin draft'
                      /\ \A p \in Handlers \ {q} : handler'[p].next # handler'[q].next
    BY DEF HeldClean, Owners
  <2>1. HandlerFits(handler'[q])
    BY DEF HandlersFit
  <2>2. handler'[q] = handler[q] /\ Holds(handler[q]) /\ handler[q].next \in Objects /\ handler[q].next # o
    BY <2>1 DEF Holds, NoHandler, HandlerFits, ImagesInv, ImagesTypeOK, Handler
  <2>3. Clean(handler[q].next)'
    BY <1>5, <2>2 DEF ImagesInv, HeldClean
  <2> QED BY <1>22, <2>2, <2>3 DEF ImagesInv, HeldClean, Holds
<1>8. DropsSafe'
  <2> SUFFICES ASSUME NEW q \in Handlers, handler'[q].owner \notin spoiled',
                      handler'[q].at = "undo" \/ (handler'[q].at = "drop" /\ handler'[q].prev # NoImage)
               PROVE  /\ handler'[q].at = "drop" => shown'[handler'[q].owner] # handler'[q].prev
                      /\ handler'[q].at = "undo" => shown'[handler'[q].owner] # handler'[q].next
    BY DEF DropsSafe, SafeDrop
  <2>1. /\ HandlerFits(handler'[q]) /\ handler'[q] # NoHandler /\ handler'[q].owner = handler[q].owner
        /\ handler'[q].prev = handler[q].prev /\ handler'[q].next = handler[q].next
        /\ handler[q].owner \in Owners /\ handler[q].owner \notin spoiled
        /\ handler'[q].at = "undo" => handler'[q].next # NoImage
        /\ handler'[q].at = "drop" => MayDrop(handler[q])
    <3>1. HandlerFits(handler'[q]) /\ handler'[q] # NoHandler
      BY <1>21 DEF HandlersFit
    <3> QED BY <1>20, <3>1 DEF HandlerFits, Owners, MayDrop
  <2>2. CASE handler'[q].at # handler[q].at
    BY <1>2, <2>1, <2>2
  <2>3. CASE handler'[q].at = handler[q].at
    <3>1. SafeDrop(handler[q])
      BY DEF ImagesInv, DropsSafe
    <3> QED BY <1>2, <2>1, <2>3, <3>1 DEF SafeDrop, Clean
  <2> QED BY <2>2, <2>3
<1>9. ShownImageExists'
  <2>1. ASSUME NEW y \in Owners \ spoiled', shown'[y] # NoImage  PROVE object[shown'[y]] = "there"
    BY <1>2, <2>1 DEF ImagesInv, ShownImageExists, Clean
  <2> QED BY <2>1 DEF ShownImageExists, Owners
<1> QED BY <1>1, <1>4, <1>6, <1>7, <1>8, <1>9 DEF ImagesInv

\* An object is minted, for a request or for the icon of a draft: nobody was
\* tied to it.
LEMMA PutKeeps ==
  ASSUME ImagesInv, NEW h \in Handlers, NEW o \in Objects, PutImage(h, o) \/ CopyIcon(h, o)
  PROVE  ImagesInv'
<1> USE ImagesAssumption DEF ImagesInv, ImagesTypeOK, Owners, Existence, Handler, NoHandler, HandlersFit,
        HandlerFits, PutImage, CopyIcon, Does, Puts
<1>1. ImagesTypeOK' /\ HandlersFit'
  OBVIOUS
<1>2. OneOwner' /\ UnbornUntied'
  BY DEF OneOwner, UnbornUntied, Tied, Uses, MayDrop
<1>3. DraftClean'
  BY DEF DraftClean, Clean, MayDrop
<1>4. HeldClean'
  BY DEF HeldClean, Clean, Holds, UnbornUntied, Tied, Uses, MayDrop
<1>5. DropsSafe'
  BY DEF DropsSafe, SafeDrop
<1>6. ShownImageExists'
  BY DEF ShownImageExists
<1> QED BY <1>1, <1>2, <1>3, <1>4, <1>5, <1>6

LEMMA UploadKeeps ==
  ASSUME ImagesInv, NEW e \in Eggs, NEW o \in Objects, UploadEggIcon(e, o)
  PROVE  ImagesInv'
<1> USE DEF ImagesInv, UploadEggIcon, Puts
<1>1. ImagesTypeOK' /\ HandlersFit'
  BY DEF ImagesTypeOK, Existence, HandlersFit, HandlerFits
<1>2. \A x \in Owners : ~Tied(x, o)
  BY DEF UnbornUntied
<1>3. OneOwner' /\ UnbornUntied'
  BY <1>2 DEF OneOwner, UnbornUntied, Tied, Uses, Owners, ImagesTypeOK
<1>4. ASSUME NEW p \in Objects, Clean(p)  PROVE Clean(p)' /\ p # o
  BY <1>4 DEF Clean, ImagesTypeOK, Owners
<1>5. Clean(o)'
  <2>1. \A q \in Handlers : MayDrop(handler[q]) => handler[q].prev # o
    <3> SUFFICES ASSUME NEW q \in Handlers, MayDrop(handler[q]), handler[q].prev = o  PROVE FALSE
      OBVIOUS
    <3>1. HandlerFits(handler[q])
      BY DEF HandlersFit
    <3>2. handler[q].owner \in Owners
      BY <3>1, ImagesAssumption DEF HandlerFits, Owners, NoHandler
    <3> QED BY <1>2, <3>2 DEF Tied, Uses
  <2> QED BY <1>2, <2>1 DEF Clean, Tied, Owners, ImagesTypeOK
<1>6. DraftClean'
  BY <1>4, <1>5 DEF DraftClean
<1>7. HeldClean'
  BY <1>4 DEF HeldClean, Holds, Owners, ImagesTypeOK, Handler
<1>8. DropsSafe' /\ ShownImageExists'
  BY DEF DropsSafe, SafeDrop, ShownImageExists, Owners, ImagesTypeOK
<1> QED BY <1>1, <1>3, <1>6, <1>7, <1>8

\* A persist that failed takes back what was put, and a fork goes on without a copy.
LEMMA FailKeeps ==
  ASSUME ImagesInv, NEW h \in Handlers, PersistFails(h) \/ CopyFails(h)
  PROVE  ImagesInv'
<1> USE DEF PersistFails, CopyFails, Persisting, GiveUp, Does
<1>1. CASE Closed(h)
  BY <1>1, EndKeeps
<1>2. CASE ~Closed(h)
  <2> DEFINE at == IF handler[h].does = "replace" THEN "undo" ELSE "insert"
  <2>1. /\ handler' = [handler EXCEPT ![h].at = at] /\ handler[h] \in Handler /\ HandlerFits(handler[h])
        /\ handler[h].does = "fork" => handler[h].next = NoImage
        /\ handler[h].does = "replace" => Holds(handler[h])
        /\ handler[h].does \in {"replace", "fork"} /\ handler[h].owner \in Owners
        /\ handler[h].at \in {"persist", "copy"}
    BY <1>2 DEF ImagesInv, ImagesTypeOK, HandlersFit, HandlerFits, NoHandler, Holds, Continues, Owners
  <2>2. PICK t \in Handler : t = [handler[h] EXCEPT !.at = at]
    BY <2>1 DEF Handler
  <2>3. /\ t.does = handler[h].does /\ t.owner = handler[h].owner /\ t.prev = handler[h].prev
        /\ t.next = handler[h].next /\ t.at = at
    BY <2>1, <2>2 DEF Handler
  <2>4. \A q \in Handlers : handler'[q] = IF q = h THEN t ELSE handler[q]
    BY <2>1, <2>2 DEF ImagesInv, ImagesTypeOK
  <2>5. HandlerFits(t) /\ ~Holds(t)
    BY <2>1, <2>3 DEF HandlerFits, Holds, NoHandler
  <2>6. ImagesTypeOK' /\ HandlersFit'
    BY <2>1, <2>2, <2>4, <2>5 DEF ImagesInv, ImagesTypeOK, HandlersFit, HandlerFits, NoHandler
  <2>7. OneOwner' /\ UnbornUntied'
    BY <2>3, <2>4 DEF ImagesInv, OneOwner, UnbornUntied, Tied, Uses, MayDrop, Owners
  <2>8. ASSUME NEW p \in Objects, Clean(p)  PROVE Clean(p)'
    BY <2>3, <2>4, <2>8 DEF Clean, MayDrop, Owners
  <2>9. DraftClean'
    BY <2>8 DEF ImagesInv, DraftClean
  <2>10. HeldClean'
    <3> SUFFICES ASSUME NEW q \in Handlers, Holds(handler'[q])
                 PROVE  /\ Clean(handler[q].next)'
                        /\ \A y \in Owners : <<y, handler'[q].next>> \notin draft
                        /\ \A p \in Handlers \ {q} : handler'[p].next # handler'[q].next
      BY DEF HeldClean, Owners
    <3>1. handler'[q] = handler[q] /\ Holds(handler[q]) /\ handler[q].next \in Objects
      BY <2>4, <2>5, <2>6 DEF Holds, Handler, ImagesTypeOK
    <3> QED BY <2>3, <2>4, <2>8, <3>1 DEF ImagesInv, HeldClean
  <2>11. DropsSafe'
    <3>1. SafeDrop(t)
      <4>1. handler[h].does = "replace" => Clean(handler[h].next)
        BY <2>1 DEF ImagesInv, HeldClean
      <4> QED BY <2>1, <2>3, <4>1 DEF SafeDrop, Clean
    <3> QED BY <2>4, <3>1 DEF ImagesInv, DropsSafe, SafeDrop
  <2> QED BY <2>6, <2>7, <2>9, <2>10, <2>11 DEF ImagesInv, ShownImageExists, Owners
<1> QED BY <1>1, <1>2

\* What a request put, or copied, is shown, or nothing is.
LEMMA PersistKeeps ==
  ASSUME ImagesInv, NEW h \in Handlers, Persist(h) \/ PersistUnheard(h) \/ InsertFork(h)
  PROVE  ImagesInv'
<1> USE DEF Persist, PersistUnheard, Persisting, InsertFork, Does
<1>1. HandlerFits(handler[h]) /\ handler[h] \in Handler
  BY DEF ImagesInv, ImagesTypeOK, HandlersFit
<1>2. PICK x \in Owners, o \in Objects \cup {NoImage} : x = handler[h].owner /\ o = handler[h].next
  BY <1>1 DEF HandlerFits, NoHandler, Handler, Owners
<1>3. o # NoImage => /\ Holds(handler[h]) /\ Clean(o)
                     /\ \A q \in Handlers \ {h} : handler[q].next # o
                     /\ \A y \in Owners : <<y, o>> \notin draft
  <2>1. o # NoImage => Holds(handler[h])
    BY <1>1, <1>2 DEF HandlerFits, NoHandler, Holds
  <2> QED BY <1>2, <2>1 DEF ImagesInv, HeldClean
<1>4. draft = draft \ {<<x, o>>}
  BY <1>2, <1>3, ImagesAssumption DEF ImagesInv, ImagesTypeOK
<1>5. /\ spoiled \subseteq spoiled' /\ spoiled' \subseteq Owners /\ (PersistUnheard(h) => x \in spoiled')
      /\ Shows(x, o) /\ draft' = draft /\ UNCHANGED object /\ egg' \in [Eggs -> Existence]
  BY <1>2 DEF ImagesInv, ImagesTypeOK, Existence
<1>6. o # NoImage => Tied(x, o)
  BY <1>2 DEF Tied, Uses
<1>7. PICK t : /\ t \in {NoHandler, [handler[h] EXCEPT !.at = "drop"], [handler[h] EXCEPT !.at = "undo"]}
               /\ handler' = [handler EXCEPT ![h] = t]
               /\ t = [handler[h] EXCEPT !.at = "drop"] => handler[h].does # "fork"
               /\ t = [handler[h] EXCEPT !.at = "undo"] => handler[h].does = "replace" /\ PersistUnheard(h)
  <2>1. CASE Closed(h)
    BY <1>1, <2>1 DEF Closed, NoHandler, Handler
  <2>2. CASE ~Closed(h)
    BY <1>1, <2>2 DEF Continues, GiveUp, Handler
  <2> QED BY <2>1, <2>2
<1>8. t \in Handler /\ HandlerFits(t) /\ ~Holds(t) /\ (t # NoHandler => t.owner = x /\ t.next = o)
  BY <1>1, <1>2, <1>7 DEF HandlerFits, Holds, Handler, NoHandler, Owners
<1>9. \A q \in Handlers : handler'[q] = IF q = h THEN t ELSE handler[q]
  BY <1>7 DEF ImagesInv, ImagesTypeOK
<1>10. handler' \in [Handlers -> Handler] /\ HandlersFit'
  BY <1>7, <1>8, <1>9 DEF ImagesInv, ImagesTypeOK, HandlersFit, HandlerFits, NoHandler
<1>11. t # NoHandler /\ t.owner \notin spoiled'
         => t.at = "drop" /\ (handler[h].prev = NoImage \/ handler[h].prev # o)
  <2>1. t # NoHandler /\ t.owner \notin spoiled' => t.at = "drop" /\ MayDrop(handler[h])
    BY <1>1, <1>5, <1>7, <1>8 DEF MayDrop, Handler
  <2> QED BY <1>3, <2>1 DEF Clean
<1>12. \A q \in Handlers : Holds(handler'[q]) => handler[q].next # o
  BY <1>3, <1>8, <1>9 DEF Holds
<1>13. x \notin spoiled' => t.at # "undo"
  BY <1>5, <1>7, <1>8, <1>11 DEF NoHandler
<1>14. x \in spoiled' \/ o = NoImage \/ o = shown[x] \/
         (Clean(o) /\ \A q \in Handlers : handler'[q].at = "undo" => handler[q].next # o)
  BY <1>3, <1>9, <1>13
<1>15. \A q \in Handlers :
         /\ handler'[q] \in {handler[q], NoHandler, [handler[q] EXCEPT !.at = "drop"],
                             [handler[q] EXCEPT !.at = "undo"]}
         /\ handler'[q].owner \notin spoiled' /\ handler'[q].at # handler[q].at /\ handler'[q] # NoHandler
              => /\ handler'[q].at = "drop" /\ handler[q].owner = x
                 /\ handler[q].prev = NoImage \/ handler[q].prev # o
  BY <1>2, <1>7, <1>9, <1>11
<1> QED BY <1>4, <1>5, <1>6, <1>10, <1>12, <1>14, <1>15, ShowKeeps

\* No request that takes back what it put did so with the icon of a draft.
LEMMA DraftShows ==
  ASSUME ImagesInv, NEW e \in Eggs, NEW o \in Objects, <<e, o>> \in draft,
         \A q \in Handlers : handler'[q].at = "undo" => handler'[q] = handler[q], HandlersFit'
  PROVE  Clean(o) /\ \A q \in Handlers : handler'[q].at = "undo" => handler[q].next # o
<1>1. \A q \in Handlers : handler'[q].at = "undo" => Does(q, "replace", "undo")
  BY DEF HandlersFit, HandlerFits, NoHandler, Does
<1> QED BY <1>1, DoomedUnshown DEF ImagesInv, DraftClean

LEMMA EditKeeps ==
  ASSUME ImagesInv, NEW h \in Handlers, ApplyEdit(h) \/ RemoveEgg(h)
  PROVE  ImagesInv'
<1> USE DEF ApplyEdit, RemoveEgg, Does
<1>1. HandlerFits(handler[h]) /\ handler[h] \in Handler
  BY DEF ImagesInv, ImagesTypeOK, HandlersFit
<1>2. PICK e \in Eggs : e = handler[h].owner
  BY <1>1 DEF HandlerFits, NoHandler
<1>3. CASE egg[e] # "there"
  BY <1>2, <1>3, EndKeeps
<1>4. CASE egg[e] = "there"
  <2>1. PICK o \in Objects \cup {NoImage} : o = IF handler[h].does = "save" THEN handler[h].next ELSE NoImage
    BY <1>1 DEF Handler
  <2>2. /\ Shows(e, o) /\ draft' = draft \ {<<e, o>>} /\ UNCHANGED object /\ egg' \in [Eggs -> Existence]
        /\ spoiled \subseteq spoiled' /\ spoiled' \subseteq Owners
        /\ o # NoImage => e \in spoiled' \/ o = shown[e] \/ <<e, o>> \in draft
    BY <1>2, <1>4, <2>1, ImagesAssumption DEF Outdated, ImagesInv, ImagesTypeOK, Existence, Owners
  <2>3. o # NoImage => Tied(e, o) /\ handler[h].next = o
    BY <1>2, <2>1 DEF Tied, Uses
  <2>4. PICK t : /\ t \in {NoHandler, [handler[h] EXCEPT !.at = "drop"]} /\ handler' = [handler EXCEPT ![h] = t]
                 /\ t # NoHandler => handler[h].prev = NoImage \/ handler[h].prev # o
    BY <1>1, <1>2, <1>4, <2>1 DEF Continues, Closed, Handler
  <2>5. /\ t \in Handler /\ HandlerFits(t) /\ ~Holds(t) /\ ~Holds(handler[h]) /\ t.at # "undo"
        /\ t # NoHandler => t.owner = e /\ t.at = "drop"
    BY <1>1, <1>2, <2>4 DEF HandlerFits, Holds, Handler, NoHandler, Owners
  <2>6. \A q \in Handlers : handler'[q] = IF q = h THEN t ELSE handler[q]
    BY <2>4 DEF ImagesInv, ImagesTypeOK
  <2>7. handler' \in [Handlers -> Handler] /\ HandlersFit'
    BY <2>4, <2>5, <2>6 DEF ImagesInv, ImagesTypeOK, HandlersFit, HandlerFits, NoHandler
  <2>8. \A q \in Handlers : Holds(handler'[q]) => handler[q].next # o
    BY <2>3, <2>5, <2>6 DEF Holds, ImagesInv, HeldClean
  <2>9. e \in spoiled' \/ o = NoImage \/ o = shown[e] \/
          (Clean(o) /\ \A q \in Handlers : handler'[q].at = "undo" => handler[q].next # o)
    BY <2>2, <2>5, <2>6, <2>7, DraftShows
  <2>10. \A q \in Handlers :
           /\ handler'[q] \in {handler[q], NoHandler, [handler[q] EXCEPT !.at = "drop"],
                               [handler[q] EXCEPT !.at = "undo"]}
           /\ handler'[q].owner \notin spoiled' /\ handler'[q].at # handler[q].at /\ handler'[q] # NoHandler
                => /\ handler'[q].at = "drop" /\ handler[q].owner = e
                   /\ handler[q].prev = NoImage \/ handler[q].prev # o
    BY <1>2, <2>4, <2>5, <2>6
  <2> QED BY <2>2, <2>3, <2>7, <2>8, <2>9, <2>10, ShowKeeps DEF Owners
<1> QED BY <1>3, <1>4

LEMMA CreateKeeps ==
  ASSUME ImagesInv, NEW e \in Eggs, NEW o \in Objects \cup {NoImage}, CreateEgg(e, o)
  PROVE  ImagesInv'
<1> USE DEF CreateEgg
<1>1. /\ handler' \in [Handlers -> Handler] /\ HandlersFit' /\ egg' \in [Eggs -> Existence]
      /\ spoiled \subseteq spoiled' /\ spoiled' \subseteq Owners /\ e \in Owners
      /\ o # NoImage => Tied(e, o) /\ <<e, o>> \in draft
  BY DEF ImagesInv, ImagesTypeOK, HandlersFit, HandlerFits, Existence, Owners, Tied
<1>2. \A q \in Handlers : Holds(handler'[q]) => handler[q].next # o
  BY <1>1 DEF Holds, ImagesInv, HeldClean
<1>3. e \in spoiled' \/ o = NoImage \/ o = shown[e] \/
        (Clean(o) /\ \A q \in Handlers : handler'[q].at = "undo" => handler[q].next # o)
  BY <1>1, DraftShows
<1> QED BY <1>1, <1>2, <1>3, ShowKeeps

LEMMA ImagesStep ==
  ASSUME ImagesInv, [ImagesNext]_imagesVars
  PROVE  ImagesInv'
<1> USE DEF Does
<1>1. ASSUME NEW h \in Handlers  PROVE HandlerFits(handler[h]) /\ handler[h] \in Handler
  BY DEF ImagesInv, ImagesTypeOK, HandlersFit
<1>2. ASSUME NEW h \in Handlers, NEW a \in Accounts, NEW o \in Objects \cup {NoImage},
             ReplaceImage(h, a, o) \/ RemoveImage(h, a, o)
      PROVE  ImagesInv'
  <2>1. PICK t : t \in {[does |-> "replace", at |-> "put", owner |-> a, prev |-> o, next |-> NoImage],
                        [does |-> "remove", at |-> "persist", owner |-> a, prev |-> o, next |-> NoImage]}
                 /\ Opened(h, t)
    BY <1>2 DEF NoHandler, ReplaceImage, RemoveImage, Opened
  <2>2. t \in Handler /\ HandlerFits(t) /\ ~Holds(t)
    BY <2>1, ImagesAssumption DEF Handler, HandlerFits, Holds, Owners
  <2> QED BY <1>2, <2>1, <2>2, OpenKeeps DEF ReplaceImage, RemoveImage, Owners
<1>3. ASSUME NEW h \in Handlers, NEW e \in Eggs, DeleteEgg(h, e)  PROVE ImagesInv'
  <2>0. PICK t : t = [NoHandler EXCEPT !.does = "delete", !.at = "persist", !.owner = e, !.prev = shown[e]]
    OBVIOUS
  <2>1. t = [does |-> "delete", at |-> "persist", owner |-> e, prev |-> shown[e], next |-> NoImage]
    BY <2>0 DEF NoHandler
  <2>2. t \in Handler /\ HandlerFits(t) /\ ~Holds(t)
    BY <2>1, ImagesAssumption DEF Handler, HandlerFits, Holds, Owners, ImagesInv, ImagesTypeOK
  <2>3. Opened(h, t)
    BY <1>3, <2>0 DEF DeleteEgg
  <2> QED BY <1>3, <2>1, <2>2, <2>3, OpenKeeps DEF DeleteEgg, Owners, Known
<1>4. ASSUME NEW h \in Handlers, NEW e \in Eggs, NEW o \in Objects \cup {NoImage}, UpdateEgg(h, e, o)
      PROVE  ImagesInv'
  <2>0. PICK t : t = [NoHandler EXCEPT !.does = "save", !.at = "persist", !.owner = e,
                                       !.prev = shown[e], !.next = o]
    OBVIOUS
  <2>1. t = [does |-> "save", at |-> "persist", owner |-> e, prev |-> shown[e], next |-> o]
    BY <2>0 DEF NoHandler
  <2>2. t \in Handler /\ HandlerFits(t) /\ ~Holds(t)
    BY <2>1, ImagesAssumption DEF Handler, HandlerFits, Holds, Owners, ImagesInv, ImagesTypeOK
  <2>3. Opened(h, t)
    BY <1>4, <2>0 DEF UpdateEgg
  <2> QED BY <1>4, <2>1, <2>2, <2>3, OpenKeeps DEF UpdateEgg, Owners, Known
<1>5. ASSUME NEW h \in Handlers, NEW e \in Eggs, NEW copy \in Eggs, ForkEgg(h, e, copy)  PROVE ImagesInv'
  <2>0. PICK t : t = [NoHandler EXCEPT !.does = "fork", !.owner = copy, !.prev = shown[e],
                                       !.at = IF shown[e] = NoImage THEN "insert" ELSE "copy"]
    OBVIOUS
  <2>1. t = [does |-> "fork", at |-> IF shown[e] = NoImage THEN "insert" ELSE "copy",
             owner |-> copy, prev |-> shown[e], next |-> NoImage]
    BY <2>0 DEF NoHandler
  <2>2. t \in Handler /\ HandlerFits(t) /\ ~Holds(t) /\ ~MayDrop(t)
    BY <2>1, ImagesAssumption DEF Handler, HandlerFits, Holds, MayDrop, Owners, ImagesInv, ImagesTypeOK
  <2>3. Opened(h, t)
    BY <1>5, <2>0 DEF ForkEgg
  <2> QED BY <1>5, <2>1, <2>2, <2>3, OpenKeeps DEF ForkEgg, Owners
<1>6. ASSUME NEW h \in Handlers, UndoPut(h) \/ DropPrevious(h) \/ HandlerEnds(h)  PROVE ImagesInv'
  BY <1>6, EndKeeps DEF UndoPut, DropPrevious, HandlerEnds
<1>7. CASE UNCHANGED imagesVars
  BY <1>7 DEF imagesVars, ImagesInv, ImagesTypeOK, HandlersFit, HandlerFits, OneOwner, UnbornUntied, DraftClean,
     HeldClean, DropsSafe, ShownImageExists, Tied, Uses, Clean, Holds, SafeDrop, Owners
<1> QED
  BY <1>2, <1>3, <1>4, <1>5, <1>6, <1>7, PutKeeps, UploadKeeps, FailKeeps, PersistKeeps, EditKeeps, CreateKeeps
  DEF ImagesNext

LEMMA ImagesInitInv == ImagesInit => ImagesInv
BY ImagesAssumption DEF ImagesInit, ImagesInv, ImagesTypeOK, HandlersFit, HandlerFits, OneOwner, UnbornUntied,
   DraftClean, HeldClean, DropsSafe, ShownImageExists, Tied, Uses, Holds, SafeDrop, Owners, Existence, Handler,
   NoHandler

\* Rows, drafts and the bucket are well typed, and a request is at a step of its
\* handler with the objects it has put or read by then.
THEOREM ImagesTypeCorrect == ImagesSpec => []ImagesTypeOK
BY ImagesInitInv, ImagesStep, PTL DEF ImagesSpec, ImagesInv

\* However uploads, removals, saves, forks and deletions interleave and whatever
\* fails, over any number of accounts and eggs, the object a row shows is in the
\* bucket: it is deleted only by a request of its own row, after that row was written
\* without it.  Not so once a persist took effect and was reported as failed, or an
\* editor that was out of date was saved.
THEOREM ShownImageExistsCorrect == ImagesSpec => []ShownImageExists
BY ImagesInitInv, ImagesStep, PTL DEF ImagesSpec, ImagesInv

(***************************************************************************)
(* RedisKeys.                                                               *)
(***************************************************************************)
\* A save between its DEL and its EXPIRE; one that has succeeded; a value to which
\* a save that another request ran across has written.
Replaces(t) == op[t].at \in {"write", "expire"}
Heard(s) == saved[s].state = "ok" \/ \E t \in Tabs : op[t].save = {s} /\ op[t].at = "ok"
Spoilt(v) == v.parts \cap disturbed # {}

\* What a request carries, and the submission that a save is.
OpFits(o) ==
  \/ o.do = "none" /\ o.at = "idle" /\ o.save = {}
  \/ /\ o.do = "set" /\ o.at \in {"del", "write", "expire", "ok", "failed"} /\ o.key \in Keys
     /\ \E s \in Saves : /\ o.save = {s} /\ saved[s].state = "sent"
                         /\ saved[s].type \in Types /\ saved[s].ttl = o.ttl
     /\ o.at = "expire" => o.ttl >= 0
  \/ /\ o.do \in {"delete", "rename", "ttl", "flush"} /\ o.at \in {"run", "ok", "failed"} /\ o.save = {}
     /\ o.do # "flush" => o.key \in Keys
     /\ o.do = "rename" => o.newKey \in Keys
OpsFit == \A t \in Tabs : OpFits(op[t])

\* A save is of one tab.
OneTab == \A t, u \in Tabs : op[t].save \cap op[u].save # {} => t = u

\* A save is in a value only after it has written, and in that of its key until
\* it has set the expiry, unless another request ran across it.
PartsWritten ==
  \A k \in Dbs \X Keys : \A s \in value[k].parts :
    /\ saved[s].state # "unborn"
    /\ \A t \in Tabs : s \in op[t].save =>
         /\ op[t].at \notin {"del", "write"}
         /\ op[t].at = "expire" => KeyOf(t) = k \/ s \in disturbed

\* A key holds nothing that no save has put there.
Filled == \A k \in Dbs \X Keys : value[k].parts = {} => value[k] = NoValue

\* Two saves that replace the same key are disturbed.
Rivals ==
  \A t, u \in Tabs :
    t # u /\ Replaces(t) /\ Replaces(u) /\ KeyOf(t) = KeyOf(u) => op[t].save \subseteq disturbed

\* Between its DEL and its EXPIRE a save finds its own value, or none, or one
\* that was spoilt.
OwnValue ==
  \A t \in Tabs : Replaces(t) =>
    LET v == value[KeyOf(t)] IN
      \/ v = NoValue \/ Spoilt(v)
      \/ op[t].at = "expire" /\ v.parts = op[t].save /\ ~v.expires

\* A value that was not spoilt is all of one save, with its type and, once it has
\* answered, its expiry.
KeptOf(v, s) ==
  v.parts = {s} /\ v.type = saved[s].type /\ (Heard(s) => v.expires = (saved[s].ttl > 0))
AsAsked ==
  \A k \in Dbs \X Keys : value[k] = NoValue \/ Spoilt(value[k]) \/ \E s \in Saves : KeptOf(value[k], s)

RedisInv ==
  /\ RedisTypeOK /\ OpsFit /\ OneTab /\ PartsWritten /\ Filled /\ Rivals /\ OwnValue /\ AsAsked

LEMMA GoesToFields ==
  ASSUME op \in [Tabs -> Op], NEW t \in Tabs, NEW at \in {"del", "write", "expire", "run", "ok", "failed"},
         GoesTo(t, at)
  PROVE  /\ op' \in [Tabs -> Op]
         /\ \A u \in Tabs : /\ op'[u].do = op[u].do /\ op'[u].db = op[u].db /\ op'[u].key = op[u].key
                            /\ op'[u].newKey = op[u].newKey /\ op'[u].ttl = op[u].ttl
                             /\ op'[u].save = op[u].save
                            /\ op'[u].at = IF u = t THEN at ELSE op[u].at
         /\ \A u \in Tabs : KeyOf(u)' = KeyOf(u)
<1>1. op' = [op EXCEPT ![t].at = at]
  BY DEF GoesTo
<1>2. op' \in [Tabs -> Op]
  BY <1>1 DEF Op
<1>3. \A u \in Tabs : /\ op'[u].do = op[u].do /\ op'[u].db = op[u].db /\ op'[u].key = op[u].key
                     /\ op'[u].newKey = op[u].newKey /\ op'[u].ttl = op[u].ttl
                           /\ op'[u].save = op[u].save
                     /\ op'[u].at = IF u = t THEN at ELSE op[u].at
  BY <1>1 DEF Op
<1>4. \A u \in Tabs : KeyOf(u)' = KeyOf(u)
  BY <1>3 DEF KeyOf
<1> QED
  BY <1>2, <1>3, <1>4

LEMMA FitsUnlessSet ==
  ASSUME NEW t \in Tabs, OpsFit, RedisTypeOK
  PROVE  /\ op[t].do # "set" => op[t].save = {}
         /\ op[t].at \in {"del", "write", "expire"} => op[t].do = "set"
         /\ op[t].at \in {"del", "write", "expire"} => op[t].save # {}
         /\ op[t].save # {} =>
               \E s \in Saves : /\ op[t].save = {s} /\ saved[s].state = "sent"
                                /\ saved[s].type \in Types /\ saved[s].ttl = op[t].ttl
         /\ op[t].save # {} => op[t].do = "set" /\ op[t].key \in Keys
         /\ op[t].do # "none" /\ op[t].do # "flush" => KeyOf(t) \in Dbs \X Keys
         /\ op[t].at = "expire" => op[t].ttl >= 0
         /\ op[t].do = "rename" => <<op[t].db, op[t].newKey>> \in Dbs \X Keys
<1> OpFits(op[t])
  BY DEF OpsFit
<1> op[t] \in Op
  BY DEF RedisTypeOK
<1> QED
  BY DEF OpFits, KeyOf, Op

LEMMA ReplacingAre ==
  ASSUME RedisTypeOK
  PROVE  /\ \A k, s : s \in Replacing(k) <=> \E u \in Tabs : KeyOf(u) = k /\ Replaces(u) /\ s \in op[u].save
         /\ \A k : Replacing(k) \subseteq Saves
<1>1. \A k, s : s \in Replacing(k) <=> \E u \in Tabs : KeyOf(u) = k /\ Replaces(u) /\ s \in op[u].save
  BY DEF Replacing, Replaces
<1>2. \A u \in Tabs : op[u].save \subseteq Saves
  BY DEF RedisTypeOK, Op
<1> QED
  BY <1>1, <1>2

LEMMA NoValueFields ==
  NoValue \in Value /\ NoValue.type = "none" /\ NoValue.parts = {} /\ NoValue.expires = FALSE
  BY DEF NoValue, Value

\* A value that stays or goes.
LEMMA GoneOrSame ==
  ASSUME RedisInv, disturbed \subseteq disturbed',
         \A k \in Dbs \X Keys : value'[k] = value[k] \/ value'[k] = NoValue,
         \A s \in Saves : saved[s].state # "unborn" =>
            /\ saved'[s].state # "unborn" /\ saved'[s].type = saved[s].type /\ saved'[s].ttl = saved[s].ttl
            /\ Heard(s)' => Heard(s),
         \A u \in Tabs :
            \/ op'[u].save = op[u].save /\ (op[u].save # {} => KeyOf(u)' = KeyOf(u))
            \/ op'[u].at \notin {"write", "expire"} /\ \A s \in op'[u].save : saved[s].state = "unborn",
         \A u \in Tabs : op'[u].at \in {"del", "write", "expire"} =>
            \/ op'[u].at = op[u].at
            \/ op'[u].at = "write" /\ op[u].at = "del" /\ value'[KeyOf(u)] = NoValue
            \/ op'[u].at = "del" /\ \A s \in op'[u].save : saved[s].state = "unborn"
  PROVE  PartsWritten' /\ Filled' /\ OwnValue' /\ AsAsked'
<1>0. RedisTypeOK /\ OpsFit /\ PartsWritten /\ Filled /\ OwnValue /\ AsAsked
  BY DEF RedisInv
<1>1. \A u \in Tabs : /\ op[u].at \in {"del", "write", "expire"} => op[u].save # {}
                      /\ op[u].save # {} => KeyOf(u) \in Dbs \X Keys
                      /\ \A s \in op[u].save : saved[s].state = "sent"
  <2> SUFFICES ASSUME NEW u \in Tabs
               PROVE  /\ op[u].at \in {"del", "write", "expire"} => op[u].save # {}
                      /\ op[u].save # {} => KeyOf(u) \in Dbs \X Keys
                      /\ \A s \in op[u].save : saved[s].state = "sent"
    OBVIOUS
  <2>1. op[u].save # {} => op[u].do = "set" /\ op[u].key \in Keys
    BY <1>0, FitsUnlessSet
  <2>2. op[u].at \in {"del", "write", "expire"} => op[u].save # {}
    BY <1>0, FitsUnlessSet
  <2>3. op[u].do # "none" /\ op[u].do # "flush" => KeyOf(u) \in Dbs \X Keys
    BY <1>0, FitsUnlessSet
  <2>4. op[u].save # {} => \E s \in Saves : op[u].save = {s} /\ saved[s].state = "sent"
    BY <1>0, FitsUnlessSet
  <2> QED
    BY <2>1, <2>2, <2>3, <2>4
<1>2. PartsWritten'
  <2> SUFFICES ASSUME NEW k \in Dbs \X Keys, NEW s \in value'[k].parts
               PROVE  /\ saved'[s].state # "unborn"
                      /\ \A u \in Tabs : s \in op'[u].save =>
                           /\ op'[u].at \notin {"del", "write"}
                           /\ op'[u].at = "expire" => KeyOf(u)' = k \/ s \in disturbed'
    BY DEF PartsWritten
  <2>1. value'[k] = value[k] /\ s \in value[k].parts /\ s \in Saves
    <3>1. value'[k] = value[k] /\ value[k] \in Value
      BY <1>0, NoValueFields DEF RedisTypeOK
    <3> QED
      BY <3>1 DEF Value, NoValue
  <2>2. /\ saved[s].state # "unborn"
        /\ \A u \in Tabs : s \in op[u].save =>
             /\ op[u].at \notin {"del", "write"}
             /\ op[u].at = "expire" => KeyOf(u) = k \/ s \in disturbed
    BY <1>0, <2>1 DEF PartsWritten
  <2>3. saved'[s].state # "unborn"
    BY <2>1, <2>2
  <2>4. ASSUME NEW u \in Tabs, s \in op'[u].save
        PROVE  /\ op'[u].at \notin {"del", "write"}
               /\ op'[u].at = "expire" => KeyOf(u)' = k \/ s \in disturbed'
    <3>1. op'[u].save = op[u].save /\ KeyOf(u)' = KeyOf(u)
      BY <2>2, <2>4
    <3> QED
      BY <2>2, <2>4, <3>1
  <2> QED
    BY <2>3, <2>4
<1>3. Filled'
  BY <1>0, NoValueFields DEF Filled, NoValue
<1>4. OwnValue'
  <2> SUFFICES ASSUME NEW u \in Tabs, op'[u].at \in {"write", "expire"}
               PROVE  LET v == value'[KeyOf(u)'] IN
                        \/ v = NoValue \/ v.parts \cap disturbed' # {}
                        \/ op'[u].at = "expire" /\ v.parts = op'[u].save /\ ~v.expires
    BY DEF OwnValue, Replaces, Spoilt, NoValue
  <2>1. op'[u].save = op[u].save /\ KeyOf(u)' = KeyOf(u) /\ KeyOf(u) \in Dbs \X Keys
    BY <1>1
  <2>2. CASE value'[KeyOf(u)] = NoValue
    BY <2>1, <2>2
  <2>3. CASE value'[KeyOf(u)] = value[KeyOf(u)] /\ op'[u].at = op[u].at
    <3>1. LET v == value[KeyOf(u)] IN
            \/ v = NoValue \/ v.parts \cap disturbed # {}
            \/ op[u].at = "expire" /\ v.parts = op[u].save /\ ~v.expires
      BY <1>0, <2>3 DEF OwnValue, Replaces, Spoilt
    <3> QED
      BY <2>1, <2>3, <3>1
  <2> QED
    BY <2>1, <2>2, <2>3
<1>5. AsAsked'
  <2> SUFFICES ASSUME NEW k \in Dbs \X Keys, value'[k] # NoValue, value'[k].parts \cap disturbed' = {}
               PROVE  \E s \in Saves : KeptOf(value[k], s)'
    BY DEF AsAsked, Spoilt, KeptOf, NoValue
  <2>1. value'[k] = value[k] /\ value[k] # NoValue /\ value[k].parts \cap disturbed = {}
    OBVIOUS
  <2>2. PICK s \in Saves : KeptOf(value[k], s)
    BY <1>0, <2>1 DEF AsAsked, Spoilt
  <2>3. saved[s].state # "unborn"
    BY <1>0, <2>2 DEF PartsWritten, KeptOf
  <2>4. KeptOf(value[k], s)'
    BY <2>1, <2>2, <2>3 DEF KeptOf
  <2> QED
    BY <2>4
<1> QED
  BY <1>2, <1>3, <1>4, <1>5

LEMMA StillFits ==
  ASSUME RedisInv, NEW t \in Tabs, NEW at, GoesTo(t, at), UNCHANGED saved,
         at \in {"del", "write", "expire", "run", "ok", "failed"},
         op[t].do # "none",
         op[t].do = "set" => at # "run" /\ (at = "expire" => op[t].ttl >= 0),
         op[t].do # "set" => at \in {"run", "ok", "failed"}
  PROVE  OpsFit' /\ OneTab'
<1>1. op' \in [Tabs -> Op]
      /\ \A u \in Tabs : /\ op'[u].do = op[u].do /\ op'[u].db = op[u].db /\ op'[u].key = op[u].key
                         /\ op'[u].newKey = op[u].newKey /\ op'[u].ttl = op[u].ttl
                           /\ op'[u].save = op[u].save
                         /\ op'[u].at = IF u = t THEN at ELSE op[u].at
  BY GoesToFields DEF RedisInv, RedisTypeOK
<1>2. OpsFit'
  <2> SUFFICES ASSUME NEW u \in Tabs PROVE OpFits(op[u])'
    BY DEF OpsFit
  <2>1. OpFits(op[u])
    BY DEF RedisInv, OpsFit
  <2> QED
    BY <1>1, <2>1 DEF OpFits
<1>3. OneTab'
  BY <1>1 DEF RedisInv, OneTab
<1> QED
  BY <1>2, <1>3

LEMMA SetDelKeeps ==
  ASSUME RedisInv, NEW t \in Tabs, SetDel(t)
  PROVE  RedisInv'
<1>0. RedisTypeOK /\ OpsFit /\ OneTab /\ PartsWritten /\ Filled /\ Rivals /\ OwnValue /\ AsAsked
  BY DEF RedisInv
<1>1. GoesTo(t, "write") /\ UNCHANGED <<tab, saved>>
  BY DEF SetDel
<1>2. /\ op' \in [Tabs -> Op]
      /\ \A u \in Tabs : op'[u].save = op[u].save /\ op'[u].at = IF u = t THEN "write" ELSE op[u].at
      /\ \A u \in Tabs : KeyOf(u)' = KeyOf(u)
  BY <1>0, <1>1, GoesToFields DEF RedisTypeOK
<1>3. op[t].do # "none" /\ (op[t].save # {} => op[t].do = "set" /\ KeyOf(t) \in Dbs \X Keys)
  <2>1. OpFits(op[t])
    BY <1>0 DEF OpsFit
  <2> QED
    BY <1>0, <2>1, FitsUnlessSet DEF SetDel, OpFits
<1>4. /\ value' \in [Dbs \X Keys -> Value]
      /\ \A j \in Dbs \X Keys : value'[j] = IF j = KeyOf(t) THEN NoValue ELSE value[j]
  BY <1>0, NoValueFields DEF SetDel, RedisTypeOK
<1>5. disturbed \subseteq disturbed' /\ disturbed' \subseteq Saves
  <2>1. op[t].save \subseteq Saves
    BY <1>0 DEF RedisTypeOK, Op
  <2> QED
    BY <1>0, <2>1, ReplacingAre DEF SetDel, Disturbs, RedisTypeOK
<1>6. \A s \in Saves : Heard(s)' => Heard(s)
  BY <1>1, <1>2 DEF Heard
<1>7. RedisTypeOK'
  BY <1>0, <1>1, <1>2, <1>4, <1>5 DEF RedisTypeOK
<1>8. OpsFit' /\ OneTab'
  <2>1. op[t].at = "del" => op[t].do = "set"
    BY <1>0, FitsUnlessSet
  <2> QED
    BY <1>1, <1>3, <2>1, StillFits DEF SetDel
<1>9. PartsWritten' /\ Filled' /\ OwnValue' /\ AsAsked'
  <2>1. \A u \in Tabs : op'[u].at \in {"del", "write", "expire"} =>
          \/ op'[u].at = op[u].at
          \/ op'[u].at = "write" /\ op[u].at = "del" /\ value'[KeyOf(u)] = NoValue
    BY <1>0, <1>2, <1>3, <1>4, FitsUnlessSet DEF SetDel
  <2>2. \A k \in Dbs \X Keys : value'[k] = value[k] \/ value'[k] = NoValue
    BY <1>4
  <2> QED
    BY <1>1, <1>2, <1>5, <1>6, <2>1, <2>2, GoneOrSame
<1>10. Rivals'
  <2> SUFFICES ASSUME NEW u \in Tabs, NEW w \in Tabs, u # w,
                      op'[u].at \in {"write", "expire"}, op'[w].at \in {"write", "expire"},
                       KeyOf(u) = KeyOf(w)
               PROVE  op[u].save \subseteq disturbed'
    BY <1>2 DEF Rivals, Replaces
  <2>1. CASE u # t /\ w # t
    BY <1>0, <1>2, <1>5, <2>1 DEF Rivals, Replaces
  <2>2. CASE u = t
    <3>1. Replaces(w) /\ op[w].save \subseteq Replacing(KeyOf(t))
      BY <1>0, <1>2, <2>2, ReplacingAre DEF Replaces
    <3>2. op[w].save # {}
      BY <1>0, <3>1, FitsUnlessSet DEF Replaces
    <3> QED
      BY <2>2, <3>1, <3>2 DEF SetDel, Disturbs
  <2>3. CASE w = t
    <3>1. op[u].save \subseteq Replacing(KeyOf(t))
      BY <1>0, <1>2, <2>3, ReplacingAre DEF Replaces
    <3> QED
      BY <2>3, <3>1 DEF SetDel, Disturbs
  <2> QED
    BY <2>1, <2>2, <2>3
<1> QED
  BY <1>7, <1>8, <1>9, <1>10 DEF RedisInv

LEMMA DeleteKeyKeeps ==
  ASSUME RedisInv, NEW t \in Tabs, DeleteKey(t)
  PROVE  RedisInv'
<1>0. RedisTypeOK /\ OpsFit /\ OneTab /\ PartsWritten /\ Filled /\ Rivals /\ OwnValue /\ AsAsked
  BY DEF RedisInv
<1>1. GoesTo(t, "ok") /\ UNCHANGED <<tab, saved>>
  BY DEF DeleteKey
<1>2. /\ op' \in [Tabs -> Op]
      /\ \A u \in Tabs : op'[u].save = op[u].save /\ op'[u].at = IF u = t THEN "ok" ELSE op[u].at
      /\ \A u \in Tabs : KeyOf(u)' = KeyOf(u)
  BY <1>0, <1>1, GoesToFields DEF RedisTypeOK
<1>3. op[t].do # "none" /\ (op[t].save # {} => op[t].do = "set" /\ KeyOf(t) \in Dbs \X Keys)
  <2>1. OpFits(op[t])
    BY <1>0 DEF OpsFit
  <2> QED
    BY <1>0, <2>1, FitsUnlessSet DEF DeleteKey, OpFits
<1>4. /\ value' \in [Dbs \X Keys -> Value]
      /\ \A j \in Dbs \X Keys : value'[j] = IF j = KeyOf(t) THEN NoValue ELSE value[j]
  BY <1>0, NoValueFields DEF DeleteKey, RedisTypeOK
<1>5. disturbed \subseteq disturbed' /\ disturbed' \subseteq Saves
  <2>1. op[t].save \subseteq Saves
    BY <1>0 DEF RedisTypeOK, Op
  <2> QED
    BY <1>0, <2>1, ReplacingAre DEF DeleteKey, Disturbs, RedisTypeOK
<1>6. \A s \in Saves : Heard(s)' => Heard(s)
  <2>1. op[t].save = {}
    BY <1>0, FitsUnlessSet DEF DeleteKey
  <2> QED
    BY <1>1, <1>2, <2>1 DEF Heard
<1>7. RedisTypeOK'
  BY <1>0, <1>1, <1>2, <1>4, <1>5 DEF RedisTypeOK
<1>8. OpsFit' /\ OneTab'
  <2>1. op[t].at = "del" => op[t].do = "set"
    BY <1>0, FitsUnlessSet
  <2> QED
    BY <1>1, <1>3, <2>1, StillFits DEF DeleteKey
<1>9. PartsWritten' /\ Filled' /\ OwnValue' /\ AsAsked'
  <2>1. \A u \in Tabs : op'[u].at \in {"del", "write", "expire"} =>
          \/ op'[u].at = op[u].at
          \/ op'[u].at = "write" /\ op[u].at = "del" /\ value'[KeyOf(u)] = NoValue
    BY <1>2
  <2>2. \A k \in Dbs \X Keys : value'[k] = value[k] \/ value'[k] = NoValue
    BY <1>4
  <2> QED
    BY <1>1, <1>2, <1>5, <1>6, <2>1, <2>2, GoneOrSame
<1>10. Rivals'
  BY <1>0, <1>2, <1>5 DEF Rivals, Replaces
<1> QED
  BY <1>7, <1>8, <1>9, <1>10 DEF RedisInv

LEMMA FlushDBKeeps ==
  ASSUME RedisInv, NEW t \in Tabs, FlushDB(t)
  PROVE  RedisInv'
<1>0. RedisTypeOK /\ OpsFit /\ OneTab /\ PartsWritten /\ Filled /\ Rivals /\ OwnValue /\ AsAsked
  BY DEF RedisInv
<1>1. GoesTo(t, "ok") /\ UNCHANGED <<tab, saved>>
  BY DEF FlushDB
<1>2. /\ op' \in [Tabs -> Op]
      /\ \A u \in Tabs : op'[u].save = op[u].save /\ op'[u].at = IF u = t THEN "ok" ELSE op[u].at
      /\ \A u \in Tabs : KeyOf(u)' = KeyOf(u)
  BY <1>0, <1>1, GoesToFields DEF RedisTypeOK
<1>3. op[t].do # "none" /\ (op[t].save # {} => op[t].do = "set" /\ KeyOf(t) \in Dbs \X Keys)
  <2>1. OpFits(op[t])
    BY <1>0 DEF OpsFit
  <2> QED
    BY <1>0, <2>1, FitsUnlessSet DEF FlushDB, OpFits
<1>4. /\ value' \in [Dbs \X Keys -> Value]
      /\ \A j \in Dbs \X Keys : value'[j] = IF j[1] = op[t].db THEN NoValue ELSE value[j]
  BY <1>0, NoValueFields DEF FlushDB, RedisTypeOK
<1>5. disturbed \subseteq disturbed' /\ disturbed' \subseteq Saves
  <2>1. op[t].save \subseteq Saves
    BY <1>0 DEF RedisTypeOK, Op
  <2>2. UNION {Replacing(<<op[t].db, k>>) : k \in Keys} \subseteq Saves
    <3>1. \A k : Replacing(k) \subseteq Saves
      BY <1>0, ReplacingAre
    <3> SUFFICES ASSUME NEW k \in Keys, NEW s \in Replacing(<<op[t].db, k>>) PROVE s \in Saves
      OBVIOUS
    <3> QED
      BY <3>1
  <2> QED
    BY <1>0, <2>1, <2>2, ReplacingAre DEF FlushDB, Disturbs, RedisTypeOK
<1>6. \A s \in Saves : Heard(s)' => Heard(s)
  <2>1. op[t].save = {}
    BY <1>0, FitsUnlessSet DEF FlushDB
  <2> QED
    BY <1>1, <1>2, <2>1 DEF Heard
<1>7. RedisTypeOK'
  BY <1>0, <1>1, <1>2, <1>4, <1>5 DEF RedisTypeOK
<1>8. OpsFit' /\ OneTab'
  <2>1. op[t].at = "del" => op[t].do = "set"
    BY <1>0, FitsUnlessSet
  <2> QED
    BY <1>1, <1>3, <2>1, StillFits DEF FlushDB
<1>9. PartsWritten' /\ Filled' /\ OwnValue' /\ AsAsked'
  <2>1. \A u \in Tabs : op'[u].at \in {"del", "write", "expire"} =>
          \/ op'[u].at = op[u].at
          \/ op'[u].at = "write" /\ op[u].at = "del" /\ value'[KeyOf(u)] = NoValue
    BY <1>2
  <2>2. \A k \in Dbs \X Keys : value'[k] = value[k] \/ value'[k] = NoValue
    BY <1>4
  <2> QED
    BY <1>1, <1>2, <1>5, <1>6, <2>1, <2>2, GoneOrSame
<1>10. Rivals'
  BY <1>0, <1>2, <1>5 DEF Rivals, Replaces
<1> QED
  BY <1>7, <1>8, <1>9, <1>10 DEF RedisInv

LEMMA FailsKeeps ==
  ASSUME RedisInv, NEW t \in Tabs, Fails(t)
  PROVE  RedisInv'
<1>0. RedisTypeOK /\ OpsFit /\ OneTab /\ PartsWritten /\ Filled /\ Rivals /\ OwnValue /\ AsAsked
  BY DEF RedisInv
<1>1. GoesTo(t, "failed") /\ UNCHANGED <<tab, saved>>
  BY DEF Fails
<1>2. /\ op' \in [Tabs -> Op]
      /\ \A u \in Tabs : op'[u].save = op[u].save /\ op'[u].at = IF u = t THEN "failed" ELSE op[u].at
      /\ \A u \in Tabs : KeyOf(u)' = KeyOf(u)
  BY <1>0, <1>1, GoesToFields DEF RedisTypeOK
<1>3. op[t].do # "none" /\ (op[t].save # {} => op[t].do = "set" /\ KeyOf(t) \in Dbs \X Keys)
  <2>1. OpFits(op[t])
    BY <1>0 DEF OpsFit
  <2> QED
    BY <1>0, <2>1, FitsUnlessSet DEF Fails, OpFits
<1>4. value' \in [Dbs \X Keys -> Value] /\ value' = value
  BY <1>0, NoValueFields DEF Fails, RedisTypeOK
<1>5. disturbed \subseteq disturbed' /\ disturbed' \subseteq Saves
  <2>1. op[t].save \subseteq Saves
    BY <1>0 DEF RedisTypeOK, Op
  <2> QED
    BY <1>0, <2>1, ReplacingAre DEF Fails, Disturbs, RedisTypeOK
<1>6. \A s \in Saves : Heard(s)' => Heard(s)
  BY <1>1, <1>2 DEF Heard
<1>7. RedisTypeOK'
  BY <1>0, <1>1, <1>2, <1>4, <1>5 DEF RedisTypeOK
<1>8. OpsFit' /\ OneTab'
  <2>1. op[t].at = "del" => op[t].do = "set"
    BY <1>0, FitsUnlessSet
  <2> QED
    BY <1>1, <1>3, <2>1, StillFits DEF Fails
<1>9. PartsWritten' /\ Filled' /\ OwnValue' /\ AsAsked'
  <2>1. \A u \in Tabs : op'[u].at \in {"del", "write", "expire"} =>
          \/ op'[u].at = op[u].at
          \/ op'[u].at = "write" /\ op[u].at = "del" /\ value'[KeyOf(u)] = NoValue
    BY <1>2
  <2>2. \A k \in Dbs \X Keys : value'[k] = value[k] \/ value'[k] = NoValue
    BY <1>4
  <2> QED
    BY <1>1, <1>2, <1>5, <1>6, <2>1, <2>2, GoneOrSame
<1>10. Rivals'
  BY <1>0, <1>2, <1>5 DEF Rivals, Replaces
<1> QED
  BY <1>7, <1>8, <1>9, <1>10 DEF RedisInv

\* The commands of a save: what it writes into and what it sets the expiry of is
\* its own value.
LEMMA SetWriteKeeps ==
  ASSUME RedisInv, NEW t \in Tabs, SetWrite(t)
  PROVE  RedisInv'
<1>0. RedisTypeOK /\ OpsFit /\ OneTab /\ PartsWritten /\ Filled /\ Rivals /\ OwnValue /\ AsAsked
  BY DEF RedisInv
<1>a. PICK at \in {"expire", "ok"} : at = IF op[t].ttl >= 0 THEN "expire" ELSE "ok"
  OBVIOUS
<1>1. GoesTo(t, at) /\ UNCHANGED <<tab, saved, disturbed>>
  BY <1>a DEF SetWrite
<1>2. /\ op' \in [Tabs -> Op]
      /\ \A u \in Tabs : op'[u].save = op[u].save /\ op'[u].at = IF u = t THEN at ELSE op[u].at
      /\ \A u \in Tabs : KeyOf(u)' = KeyOf(u)
  BY <1>0, <1>1, GoesToFields DEF RedisTypeOK
<1>3. op[t].do = "set" /\ KeyOf(t) \in Dbs \X Keys /\ op[t].at = "write" /\ op[t].ttl \in -1..1
  BY <1>0, FitsUnlessSet DEF SetWrite, RedisTypeOK, Op
<1>4. PICK s \in Saves : /\ op[t].save = {s} /\ saved[s].state = "sent"
                         /\ saved[s].type \in Types /\ saved[s].ttl = op[t].ttl
  BY <1>0, <1>3, FitsUnlessSet
<1>5. TypeOf(t) = saved[s].type
  BY <1>4 DEF TypeOf
<1> DEFINE w == Written(value[KeyOf(t)], saved[s].type, {s})
<1>6. /\ value' = [value EXCEPT ![KeyOf(t)] = w]
      /\ saved[s].type = "string" \/ value[KeyOf(t)].type \in {"none", saved[s].type}
  BY <1>4, <1>5 DEF SetWrite
<1>7. value[KeyOf(t)] = NoValue \/ Spoilt(value[KeyOf(t)])
  BY <1>0, <1>3 DEF OwnValue, Replaces
<1>8. /\ w \in Value /\ s \in w.parts /\ w # NoValue /\ w.parts \subseteq value[KeyOf(t)].parts \cup {s}
      /\ w.type = saved[s].type
      /\ \/ w.parts = {s} /\ w.expires = FALSE
         \/ Spoilt(w)
  <2>1. value[KeyOf(t)] \in Value
    BY <1>0, <1>3 DEF RedisTypeOK
  <2>2. CASE saved[s].type = "string"
    BY <1>4, <2>2 DEF Written, Value, NoValue
  <2>3. CASE saved[s].type # "string" /\ value[KeyOf(t)] = NoValue
    <3>1. w = [type |-> saved[s].type, parts |-> {s}, expires |-> FALSE]
      <4>1. w = [NoValue EXCEPT !.type = saved[s].type, !.parts = NoValue.parts \cup {s}]
        BY <2>3 DEF Written
      <4>2. NoValue.parts \cup {s} = {s}
        BY NoValueFields
      <4>3. w = [NoValue EXCEPT !.type = saved[s].type, !.parts = {s}]
        BY <4>1, <4>2
      <4> HIDE DEF w
      <4> QED
        BY <4>3 DEF NoValue
    <3> HIDE DEF w
    <3> QED
      BY <1>4, <3>1 DEF Value, NoValue
  <2>4. CASE saved[s].type # "string" /\ value[KeyOf(t)] # NoValue
    BY <1>4, <1>6, <1>7, <2>1, <2>4, RedisAssumption DEF Written, Value, NoValue, Spoilt
  <2> QED
    BY <2>2, <2>3, <2>4
<1> HIDE DEF w
<1>9. /\ value' \in [Dbs \X Keys -> Value]
      /\ \A j \in Dbs \X Keys : value'[j] = IF j = KeyOf(t) THEN w ELSE value[j]
  BY <1>0, <1>6, <1>8 DEF RedisTypeOK
<1>10. \A u \in Tabs : s \in op[u].save => u = t
  BY <1>0, <1>4 DEF OneTab
<1>11. RedisTypeOK'
  BY <1>0, <1>1, <1>2, <1>9 DEF RedisTypeOK
<1>12. OpsFit' /\ OneTab'
  BY <1>0, <1>1, <1>3, <1>a, StillFits
<1>13. PartsWritten'
  <2> SUFFICES ASSUME NEW k \in Dbs \X Keys, NEW p \in value'[k].parts
               PROVE  /\ saved[p].state # "unborn"
                      /\ \A u \in Tabs : p \in op[u].save =>
                           /\ op'[u].at \notin {"del", "write"}
                           /\ op'[u].at = "expire" => KeyOf(u) = k \/ p \in disturbed
    BY <1>1, <1>2 DEF PartsWritten
  <2>1. CASE p = s
    <3>1. \A j \in Dbs \X Keys : s \notin value[j].parts
      BY <1>0, <1>3, <1>4 DEF PartsWritten
    <3>2. k = KeyOf(t)
      BY <1>9, <2>1, <3>1
    <3> QED
      BY <1>2, <1>4, <1>10, <2>1, <3>2
  <2>2. CASE p # s
    <3>1. p \in value[k].parts
      BY <1>8, <1>9, <2>2
    <3> QED
      BY <1>0, <1>2, <1>4, <2>2, <3>1 DEF PartsWritten
  <2> QED
    BY <2>1, <2>2
<1>14. Filled'
  BY <1>0, <1>8, <1>9 DEF Filled, NoValue
<1>15. Rivals'
  BY <1>0, <1>1, <1>2, <1>3 DEF Rivals, Replaces
<1>16. OwnValue'
  <2> SUFFICES ASSUME NEW u \in Tabs, op'[u].at \in {"write", "expire"}
               PROVE  LET v == value'[KeyOf(u)] IN
                        \/ v = NoValue \/ Spoilt(v)
                        \/ op'[u].at = "expire" /\ v.parts = op[u].save /\ ~v.expires
    BY <1>1, <1>2 DEF OwnValue, Replaces, Spoilt, NoValue
  <2>1. KeyOf(u) \in Dbs \X Keys
    BY <1>0, <1>2, <1>3, FitsUnlessSet
  <2>2. CASE u = t
    BY <1>2, <1>3, <1>4, <1>8, <1>9, <2>2
  <2>3. CASE u # t /\ KeyOf(u) = KeyOf(t)
    <3>1. s \in disturbed
      BY <1>0, <1>2, <1>3, <1>4, <2>3 DEF Rivals, Replaces
    <3> QED
      BY <1>8, <1>9, <2>1, <2>3, <3>1 DEF Spoilt
  <2>4. CASE KeyOf(u) # KeyOf(t)
    <3>1. u # t /\ value'[KeyOf(u)] = value[KeyOf(u)]
      BY <1>9, <2>1, <2>4
    <3> QED
      BY <1>0, <1>2, <3>1 DEF OwnValue, Replaces
  <2> QED
    BY <2>2, <2>3, <2>4
<1>17. AsAsked'
  <2> SUFFICES ASSUME NEW k \in Dbs \X Keys, value'[k] # NoValue, ~Spoilt(value'[k])
               PROVE  \E p \in Saves : KeptOf(value[k], p)'
    BY <1>1 DEF AsAsked, Spoilt, KeptOf, NoValue
  <2>1. CASE k = KeyOf(t)
    <3>1. value'[k] = w /\ w.parts = {s} /\ w.expires = FALSE
      BY <1>8, <1>9, <2>1
    <3>2. Heard(s)' => ~(saved[s].ttl > 0)
      BY <1>1, <1>2, <1>3, <1>4, <1>10, <1>a DEF Heard
    <3> QED
      <4>1. value'[k].parts = {s} /\ value'[k].type = saved'[s].type
        BY <1>1, <1>8, <3>1
      <4>2. ASSUME Heard(s)' PROVE value'[k].expires = (saved'[s].ttl > 0)
        <5>1. ~(saved'[s].ttl > 0) /\ saved'[s].ttl \in Int
          BY <1>1, <1>3, <1>4, <3>2, <4>2
        <5>2. (saved'[s].ttl > 0) = FALSE
          BY <5>1
        <5> QED
          BY <3>1, <5>2, Zenon
      <4> QED
        BY <4>1, <4>2 DEF KeptOf
  <2>2. CASE k # KeyOf(t)
    <3>1. value'[k] = value[k]
      BY <1>9, <2>2
    <3>2. PICK p \in Saves : KeptOf(value[k], p)
      BY <1>0, <3>1 DEF AsAsked
    <3>3. p # s
      BY <1>0, <1>3, <1>4, <3>2 DEF PartsWritten, KeptOf
    <3>4. Heard(p)' => Heard(p)
      BY <1>1, <1>2, <1>4, <3>3 DEF Heard
    <3> QED
      BY <1>1, <3>1, <3>2, <3>4 DEF KeptOf
  <2> QED
    BY <2>1, <2>2
<1> QED
  BY <1>11, <1>12, <1>13, <1>14, <1>15, <1>16, <1>17 DEF RedisInv

LEMMA SetExpireKeeps ==
  ASSUME RedisInv, NEW t \in Tabs, SetExpire(t)
  PROVE  RedisInv'
<1>0. RedisTypeOK /\ OpsFit /\ OneTab /\ PartsWritten /\ Filled /\ Rivals /\ OwnValue /\ AsAsked
  BY DEF RedisInv
<1>1. GoesTo(t, "ok") /\ UNCHANGED <<tab, saved, disturbed>>
  BY DEF SetExpire
<1>2. /\ op' \in [Tabs -> Op]
      /\ \A u \in Tabs : op'[u].save = op[u].save /\ op'[u].at = IF u = t THEN "ok" ELSE op[u].at
      /\ \A u \in Tabs : KeyOf(u)' = KeyOf(u)
  BY <1>0, <1>1, GoesToFields DEF RedisTypeOK
<1>3. op[t].do = "set" /\ KeyOf(t) \in Dbs \X Keys /\ op[t].at = "expire" /\ op[t].ttl \in 0..1
  <2>1. op[t].at = "expire" /\ op[t].ttl \in -1..1
    BY <1>0 DEF SetExpire, RedisTypeOK, Op
  <2>2. op[t].do = "set" /\ op[t].ttl >= 0
    BY <1>0, <2>1, FitsUnlessSet
  <2>3. KeyOf(t) \in Dbs \X Keys
    BY <1>0, <2>2, FitsUnlessSet
  <2> QED
    BY <2>1, <2>2, <2>3
<1>4. PICK s \in Saves : /\ op[t].save = {s} /\ saved[s].state = "sent"
                         /\ saved[s].type \in Types /\ saved[s].ttl = op[t].ttl
  BY <1>0, <1>3, FitsUnlessSet
<1> DEFINE v == value[KeyOf(t)]
           x == Expiring(v, op[t].ttl)
<1>5. value' = [value EXCEPT ![KeyOf(t)] = x]
  BY DEF SetExpire
<1>6. v \in Value
  BY <1>0, <1>3 DEF RedisTypeOK
<1>7. v = NoValue \/ Spoilt(v) \/ v.parts = {s}
  BY <1>0, <1>3, <1>4 DEF OwnValue, Replaces
<1>8. /\ x \in Value
      /\ \/ x = NoValue
         \/ op[t].ttl = 1 /\ v # NoValue /\ x.parts = v.parts /\ x.type = v.type /\ x.expires = TRUE
  <2>1. CASE v = NoValue \/ op[t].ttl = 0
    BY <2>1, NoValueFields DEF Expiring
  <2>2. CASE v # NoValue /\ op[t].ttl = 1
    <3>1. x = [v EXCEPT !.expires = TRUE] /\ v \in [type : Types, parts : SUBSET Saves, expires : BOOLEAN]
      BY <1>6, <2>2 DEF Expiring, Value
    <3> HIDE DEF x, v
    <3> QED
      BY <2>2, <3>1 DEF Value
  <2>3. op[t].ttl = 0 \/ op[t].ttl = 1
    BY <1>3
  <2> HIDE DEF x, v
  <2> QED
    BY <2>1, <2>2, <2>3
<1> HIDE DEF x
<1>9. /\ value' \in [Dbs \X Keys -> Value]
      /\ \A j \in Dbs \X Keys : value'[j] = IF j = KeyOf(t) THEN x ELSE value[j]
  BY <1>0, <1>5, <1>8 DEF RedisTypeOK
<1>10. \A u \in Tabs : s \in op[u].save => u = t
  BY <1>0, <1>4 DEF OneTab
<1>11. RedisTypeOK'
  BY <1>0, <1>1, <1>2, <1>9 DEF RedisTypeOK
<1>12. OpsFit' /\ OneTab'
  BY <1>0, <1>1, <1>3, StillFits
<1>13. PartsWritten'
  <2> SUFFICES ASSUME NEW k \in Dbs \X Keys, NEW p \in value'[k].parts
               PROVE  /\ saved[p].state # "unborn"
                      /\ \A u \in Tabs : p \in op[u].save =>
                           /\ op'[u].at \notin {"del", "write"}
                           /\ op'[u].at = "expire" => KeyOf(u) = k \/ p \in disturbed
    BY <1>1, <1>2 DEF PartsWritten
  <2>1. p \in value[k].parts
    BY <1>8, <1>9, NoValueFields
  <2> QED
    BY <1>0, <1>2, <2>1 DEF PartsWritten
<1>14. Filled'
  <2>1. v.parts = {} => v = NoValue
    BY <1>0, <1>3 DEF Filled
  <2> QED
    BY <1>0, <1>8, <1>9, <2>1 DEF Filled, NoValue
<1>15. Rivals'
  BY <1>0, <1>1, <1>2 DEF Rivals, Replaces
<1>16. OwnValue'
  <2> SUFFICES ASSUME NEW u \in Tabs, u # t, op[u].at \in {"write", "expire"}
               PROVE  LET y == value'[KeyOf(u)] IN
                        \/ y = NoValue \/ Spoilt(y)
                        \/ op[u].at = "expire" /\ y.parts = op[u].save /\ ~y.expires
    BY <1>1, <1>2 DEF OwnValue, Replaces, Spoilt, NoValue
  <2>1. KeyOf(u) \in Dbs \X Keys
    BY <1>0, FitsUnlessSet
  <2>2. CASE KeyOf(u) = KeyOf(t)
    <3>1. s \in disturbed
      BY <1>0, <1>3, <1>4, <2>2 DEF Rivals, Replaces
    <3>2. v = NoValue \/ Spoilt(v)
      BY <1>7, <3>1 DEF Spoilt
    <3>3. value'[KeyOf(u)] = x
      BY <1>9, <2>1, <2>2
    <3> QED
      BY <1>8, <3>2, <3>3 DEF Spoilt
  <2>3. CASE KeyOf(u) # KeyOf(t)
    <3>1. value'[KeyOf(u)] = value[KeyOf(u)]
      BY <1>9, <2>1, <2>3
    <3> QED
      BY <1>0, <3>1 DEF OwnValue, Replaces
  <2> QED
    BY <2>2, <2>3
<1>17. AsAsked'
  <2> SUFFICES ASSUME NEW k \in Dbs \X Keys, value'[k] # NoValue, ~Spoilt(value'[k])
               PROVE  \E p \in Saves : KeptOf(value[k], p)'
    BY <1>1 DEF AsAsked, Spoilt, KeptOf, NoValue
  <2>1. value[k] # NoValue /\ ~Spoilt(value[k])
    BY <1>8, <1>9 DEF Spoilt
  <2>2. PICK p \in Saves : KeptOf(value[k], p)
    BY <1>0, <2>1 DEF AsAsked
  <2>3. CASE k = KeyOf(t)
    <3>1. v.parts = {s} /\ p = s
      BY <1>7, <2>1, <2>2, <2>3 DEF KeptOf
    <3>2. value'[k] = x /\ x.parts = {s} /\ x.type = v.type /\ x.expires = TRUE /\ op[t].ttl = 1
      BY <1>8, <1>9, <2>3, <3>1
    <3> QED
      <4>1. value'[k].parts = {s} /\ value'[k].type = saved'[s].type
        BY <1>1, <2>2, <2>3, <3>1, <3>2 DEF KeptOf
      <4>2. value'[k].expires = (saved'[s].ttl > 0)
        <5>1. saved'[s].ttl > 0
          BY <1>1, <1>4, <3>2
        <5> QED
          BY <3>2, <5>1
      <4> QED
        BY <4>1, <4>2 DEF KeptOf
  <2>4. CASE k # KeyOf(t)
    <3>1. value'[k] = value[k]
      BY <1>9, <2>4
    <3>2. p # s
      BY <1>0, <1>3, <1>4, <2>1, <2>2, <2>4 DEF PartsWritten, KeptOf, Spoilt
    <3>3. Heard(p)' => Heard(p)
      BY <1>1, <1>2, <1>4, <3>2 DEF Heard
    <3> QED
      BY <1>1, <2>2, <3>1, <3>3 DEF KeptOf
  <2> QED
    BY <2>3, <2>4
<1> QED
  BY <1>11, <1>12, <1>13, <1>14, <1>15, <1>16, <1>17 DEF RedisInv
LEMMA RenameKeyKeeps ==
ASSUME RedisInv, NEW t \in Tabs, RenameKey(t)
PROVE  RedisInv'
<1>0. RedisTypeOK /\ OpsFit /\ OneTab /\ PartsWritten /\ Filled /\ Rivals /\ OwnValue /\ AsAsked
  BY DEF RedisInv
<1>1. GoesTo(t, "ok") /\ UNCHANGED <<tab, saved>> /\ op[t].do = "rename"
  BY DEF RenameKey
<1>2. /\ op' \in [Tabs -> Op]
      /\ \A u \in Tabs : op'[u].save = op[u].save /\ op'[u].at = IF u = t THEN "ok" ELSE op[u].at
      /\ \A u \in Tabs : KeyOf(u)' = KeyOf(u)
  BY <1>0, <1>1, GoesToFields DEF RedisTypeOK
<1> DEFINE n == <<op[t].db, op[t].newKey>>
           k == KeyOf(t)
<1>3. op[t].save = {} /\ k \in Dbs \X Keys /\ n \in Dbs \X Keys
  BY <1>0, <1>1, FitsUnlessSet
<1>4. /\ value' = [value EXCEPT ![n] = value[k], ![k] = NoValue] /\ value[k] # NoValue
      /\ disturbed' = disturbed \cup (Replacing(k) \cup Replacing(n)
                                      \cup IF Replacing(n) = {} THEN {} ELSE value[k].parts)
  BY DEF RenameKey, Disturbs
<1> HIDE DEF n, k
<1>5. /\ value' \in [Dbs \X Keys -> Value]
      /\ \A j \in Dbs \X Keys : value'[j] = IF j = k THEN NoValue ELSE IF j = n THEN value[k] ELSE value[j]
  BY <1>0, <1>3, <1>4, NoValueFields DEF RedisTypeOK
<1>6. value[k].parts \subseteq Saves /\ value[k].parts # {}
  <2>1. value[k] \in Value /\ value[k].parts # {}
    BY <1>0, <1>3, <1>4 DEF RedisTypeOK, Filled
  <2> QED
    BY <2>1 DEF Value, NoValue
<1>7. /\ disturbed \subseteq disturbed' /\ disturbed' \subseteq Saves
      /\ Replacing(k) \subseteq disturbed'
      /\ Replacing(n) # {} => value[k].parts \subseteq disturbed'
  BY <1>0, <1>4, <1>6, ReplacingAre DEF RedisTypeOK
<1>8. \A s \in Saves : Heard(s)' => Heard(s)
  BY <1>1, <1>2, <1>3 DEF Heard
<1>9. \A u \in Tabs : Replaces(u) => op[u].save # {} /\ KeyOf(u) \in Dbs \X Keys
                                    /\ op[u].save \subseteq Replacing(KeyOf(u))
  BY <1>0, FitsUnlessSet, ReplacingAre DEF Replaces
<1>10. RedisTypeOK'
  BY <1>0, <1>1, <1>2, <1>5, <1>7 DEF RedisTypeOK
<1>11. OpsFit' /\ OneTab'
  BY <1>1, StillFits
<1>12. PartsWritten'
  <2> SUFFICES ASSUME NEW j \in Dbs \X Keys, NEW p \in value'[j].parts
               PROVE  /\ saved[p].state # "unborn"
                      /\ \A u \in Tabs : p \in op[u].save =>
                           /\ op'[u].at \notin {"del", "write"}
                           /\ op'[u].at = "expire" => KeyOf(u) = j \/ p \in disturbed'
    BY <1>1, <1>2 DEF PartsWritten
  <2>1. PICK i \in Dbs \X Keys : p \in value[i].parts /\ (i = j \/ i = k)
    BY <1>3, <1>5, NoValueFields
  <2>2. /\ saved[p].state # "unborn"
        /\ \A u \in Tabs : p \in op[u].save =>
             /\ op[u].at \notin {"del", "write"}
             /\ op[u].at = "expire" => KeyOf(u) = i \/ p \in disturbed
    BY <1>0, <2>1 DEF PartsWritten
  <2>3. \A u \in Tabs : p \in op[u].save /\ op[u].at = "expire" => KeyOf(u) = j \/ p \in disturbed'
    BY <1>7, <1>9, <2>1, <2>2 DEF Replaces
  <2> QED
    BY <1>2, <2>2, <2>3
<1>13. Filled'
  BY <1>0, <1>3, <1>5, NoValueFields DEF Filled, NoValue
<1>14. Rivals'
  BY <1>0, <1>2, <1>7 DEF Rivals, Replaces
<1>15. OwnValue'
  <2> SUFFICES ASSUME NEW u \in Tabs, op[u].at \in {"write", "expire"}
               PROVE  LET v == value'[KeyOf(u)] IN
                        \/ v = NoValue \/ v.parts \cap disturbed' # {}
                        \/ op[u].at = "expire" /\ v.parts = op[u].save /\ ~v.expires
    BY <1>1, <1>2 DEF OwnValue, Replaces, Spoilt, NoValue
  <2>1. KeyOf(u) \in Dbs \X Keys /\ Replacing(KeyOf(u)) # {}
    BY <1>9 DEF Replaces
  <2>2. CASE KeyOf(u) = k
    BY <1>5, <2>1, <2>2
  <2>3. CASE KeyOf(u) # k /\ KeyOf(u) = n
    BY <1>5, <1>6, <1>7, <2>1, <2>3
  <2>4. CASE KeyOf(u) # k /\ KeyOf(u) # n
    <3>1. value'[KeyOf(u)] = value[KeyOf(u)]
      BY <1>5, <2>1, <2>4
    <3> QED
      BY <1>0, <1>7, <3>1 DEF OwnValue, Replaces, Spoilt
  <2> QED
    BY <2>2, <2>3, <2>4
<1>16. AsAsked'
  <2> SUFFICES ASSUME NEW j \in Dbs \X Keys, value'[j] # NoValue, value'[j].parts \cap disturbed' = {}
               PROVE  \E p \in Saves : KeptOf(value[j], p)'
    BY DEF AsAsked, Spoilt, KeptOf, NoValue
  <2>1. PICK i \in Dbs \X Keys : value'[j] = value[i]
    BY <1>3, <1>5
  <2>2. PICK p \in Saves : KeptOf(value[i], p)
    BY <1>0, <1>7, <2>1 DEF AsAsked, Spoilt
  <2>3. KeptOf(value[j], p)'
    BY <1>1, <1>8, <2>1, <2>2 DEF KeptOf
  <2> QED
    BY <2>3
<1> QED
  BY <1>10, <1>11, <1>12, <1>13, <1>14, <1>15, <1>16 DEF RedisInv

LEMMA SetTTLKeeps ==
  ASSUME RedisInv, NEW t \in Tabs, SetTTL(t)
  PROVE  RedisInv'
<1>0. RedisTypeOK /\ OpsFit /\ OneTab /\ PartsWritten /\ Filled /\ Rivals /\ OwnValue /\ AsAsked
  BY DEF RedisInv
<1>1. GoesTo(t, "ok") /\ UNCHANGED <<tab, saved>> /\ op[t].do = "ttl"
  BY DEF SetTTL
<1>2. /\ op' \in [Tabs -> Op]
      /\ \A u \in Tabs : op'[u].save = op[u].save /\ op'[u].at = IF u = t THEN "ok" ELSE op[u].at
      /\ \A u \in Tabs : KeyOf(u)' = KeyOf(u)
  BY <1>0, <1>1, GoesToFields DEF RedisTypeOK
<1> DEFINE k == KeyOf(t)
           v == value[k]
           x == IF op[t].ttl < 0 THEN [v EXCEPT !.expires = FALSE] ELSE Expiring(v, op[t].ttl)
<1>3. op[t].save = {} /\ k \in Dbs \X Keys
  BY <1>0, <1>1, FitsUnlessSet
<1>4. value' = [value EXCEPT ![k] = x] /\ disturbed' = disturbed \cup (Replacing(k) \cup v.parts)
  BY DEF SetTTL, Disturbs
<1>5. v \in Value /\ (v.parts = {} => v = NoValue)
  BY <1>0, <1>3 DEF RedisTypeOK, Filled
<1> HIDE DEF k, v
<1>6. x \in Value /\ (x = NoValue \/ (v # NoValue /\ x.parts = v.parts))
  <2>1. CASE v = NoValue
    <3>1. [NoValue EXCEPT !.expires = FALSE] = NoValue
      <4>1. NoValue \in [type : {"none"}, parts : {{}}, expires : BOOLEAN] /\ NoValue.expires = FALSE
        BY DEF NoValue
      <4> QED
        BY <4>1
    <3> QED
      BY <2>1, <3>1, NoValueFields DEF Expiring
  <2>2. CASE v # NoValue
    <3>1. v \in [type : Types, parts : SUBSET Saves, expires : BOOLEAN]
      BY <1>5, <2>2 DEF Value
    <3>2. x = [v EXCEPT !.expires = FALSE] \/ x = [v EXCEPT !.expires = TRUE] \/ x = NoValue
      BY DEF Expiring
    <3> HIDE DEF x
    <3>3. CASE x = NoValue
      BY <3>3, NoValueFields
    <3>4. CASE x = [v EXCEPT !.expires = FALSE]
      BY <2>2, <3>1, <3>4 DEF Value
    <3>5. CASE x = [v EXCEPT !.expires = TRUE]
      BY <2>2, <3>1, <3>5 DEF Value
    <3> QED
      BY <3>2, <3>3, <3>4, <3>5
  <2> HIDE DEF x
  <2> QED
    BY <2>1, <2>2
<1> HIDE DEF x
<1>7. value' \in [Dbs \X Keys -> Value] /\ \A j \in Dbs \X Keys : value'[j] = IF j = k THEN x ELSE value[j]
  BY <1>0, <1>4, <1>6 DEF RedisTypeOK
<1>8. v.parts \subseteq Saves
  BY <1>5 DEF Value, NoValue
<1>9. /\ disturbed \subseteq disturbed' /\ disturbed' \subseteq Saves /\ v.parts \subseteq disturbed'
      /\ x = NoValue \/ x.parts \cap disturbed' # {}
  BY <1>0, <1>4, <1>5, <1>6, <1>8, ReplacingAre DEF RedisTypeOK
<1>10. RedisTypeOK'
  BY <1>0, <1>1, <1>2, <1>7, <1>9 DEF RedisTypeOK
<1>11. OpsFit' /\ OneTab'
  BY <1>1, StillFits
<1>12. PartsWritten'
  <2> SUFFICES ASSUME NEW j \in Dbs \X Keys, NEW p \in value'[j].parts
               PROVE  /\ saved[p].state # "unborn"
                      /\ \A u \in Tabs : p \in op[u].save =>
                           /\ op'[u].at \notin {"del", "write"}
                           /\ op'[u].at = "expire" => KeyOf(u) = j \/ p \in disturbed'
    BY <1>1, <1>2 DEF PartsWritten
  <2>1. p \in value[j].parts
    BY <1>6, <1>7, NoValueFields DEF v
  <2> QED
    BY <1>0, <1>2, <1>9, <2>1 DEF PartsWritten
<1>13. Filled'
  BY <1>0, <1>5, <1>6, <1>7 DEF Filled, NoValue
<1>14. Rivals'
  BY <1>0, <1>2, <1>9 DEF Rivals, Replaces
<1>15. OwnValue'
  <2> SUFFICES ASSUME NEW u \in Tabs, op[u].at \in {"write", "expire"}
               PROVE  LET y == value'[KeyOf(u)] IN
                        \/ y = NoValue \/ y.parts \cap disturbed' # {}
                        \/ op[u].at = "expire" /\ y.parts = op[u].save /\ ~y.expires
    BY <1>1, <1>2 DEF OwnValue, Replaces, Spoilt, NoValue
  <2>1. KeyOf(u) \in Dbs \X Keys
    BY <1>0, FitsUnlessSet
  <2>2. CASE KeyOf(u) = k
    BY <1>7, <1>9, <2>1, <2>2
  <2>3. CASE KeyOf(u) # k
    <3>1. value'[KeyOf(u)] = value[KeyOf(u)]
      BY <1>7, <2>1, <2>3
    <3> QED
      BY <1>0, <1>9, <3>1 DEF OwnValue, Replaces, Spoilt
  <2> QED
    BY <2>2, <2>3
<1>16. AsAsked'
  <2> SUFFICES ASSUME NEW j \in Dbs \X Keys, value'[j] # NoValue, value'[j].parts \cap disturbed' = {}
               PROVE  \E p \in Saves : KeptOf(value[j], p)'
    BY DEF AsAsked, Spoilt, KeptOf, NoValue
  <2>1. value'[j] = value[j]
    BY <1>7, <1>9
  <2>2. PICK p \in Saves : KeptOf(value[j], p)
    BY <1>0, <1>9, <2>1 DEF AsAsked, Spoilt
  <2>3. Heard(p)' => Heard(p)
    BY <1>1, <1>2, <1>3 DEF Heard
  <2>4. KeptOf(value[j], p)'
    BY <1>1, <2>1, <2>2, <2>3 DEF KeptOf
  <2> QED
    BY <2>4
<1> QED
  BY <1>10, <1>11, <1>12, <1>13, <1>14, <1>15, <1>16 DEF RedisInv
\* What only the component does.
LEMMA TabKeeps ==
ASSUME RedisInv, tab' \in [Tabs -> Tab], UNCHANGED <<value, op, saved, disturbed>>
PROVE  RedisInv'
<1>1. RedisTypeOK'
  BY DEF RedisInv, RedisTypeOK
<1>2. OpsFit' /\ OneTab' /\ PartsWritten' /\ Filled'
  BY DEF RedisInv, OpsFit, OpFits, OneTab, PartsWritten, Filled, KeyOf, NoValue
<1>3. Rivals' /\ OwnValue'
  BY DEF RedisInv, Rivals, OwnValue, Replaces, Spoilt, KeyOf, NoValue
<1>4. AsAsked'
  BY DEF RedisInv, AsAsked, KeptOf, Heard, Spoilt, NoValue
<1> QED
  BY <1>1, <1>2, <1>3, <1>4 DEF RedisInv

LEMMA FreshTabFits == \A db \in Dbs : FreshTab(db) \in Tab
  BY DEF FreshTab, Tab

LEMMA ChangeDbKeeps ==
  ASSUME RedisInv, NEW t \in Tabs, NEW db \in Dbs, ChangeDb(t, db)
  PROVE  RedisInv'
<1>1. tab \in [Tabs -> Tab] /\ tab[t] \in Tab
  BY DEF RedisInv, RedisTypeOK
<1>2. [tab[t] EXCEPT !.db = db, !.due = TRUE] \in Tab
  BY <1>1 DEF Tab
<1>3. /\ tab' = [tab EXCEPT ![t] =
                  IF OnList(t) THEN [tab[t] EXCEPT !.db = db, !.due = TRUE] ELSE FreshTab(db)]
      /\ UNCHANGED <<value, op, saved, disturbed>>
  BY DEF ChangeDb
<1>4. tab' \in [Tabs -> Tab]
  BY <1>1, <1>2, <1>3, FreshTabFits
<1> QED
  BY <1>3, <1>4, TabKeeps

LEMMA LoadedKeeps ==
  ASSUME RedisInv, NEW t \in Tabs, NEW db \in Dbs, Loaded(t, db)
  PROVE  RedisInv'
<1>1. tab \in [Tabs -> Tab]
  BY DEF RedisInv, RedisTypeOK
<1>2. PICK keys \in {{}, {k \in {db} \X Keys : value[k] # NoValue}} :
        tab' = [tab EXCEPT ![t].keys = keys, ![t].loads = @ \ {db}]
  BY DEF Loaded
<1>3. keys \in SUBSET (Dbs \X Keys)
  OBVIOUS
<1>4. tab' \in [Tabs -> Tab]
  <2>1. tab[t] \in Tab
    BY <1>1
  <2>2. [tab[t] EXCEPT !.keys = keys, !.loads = @ \ {db}] \in Tab
    BY <1>3, <2>1 DEF Tab
  <2>3. tab' = [tab EXCEPT ![t] = [tab[t] EXCEPT !.keys = keys, !.loads = @ \ {db}]]
    BY <1>1, <1>2, <2>1 DEF Tab
  <2> QED
    BY <1>1, <2>2, <2>3
<1>5. UNCHANGED <<value, op, saved, disturbed>>
  BY DEF Loaded
<1> QED
  BY <1>4, <1>5, TabKeeps

LEMMA BackKeeps ==
  ASSUME RedisInv, NEW t \in Tabs, Back(t)
  PROVE  RedisInv'
<1>1. tab \in [Tabs -> Tab] /\ tab[t] \in Tab
  BY DEF RedisInv, RedisTypeOK
<1>2. ListAgain(tab[t]) \in Tab
  BY <1>1, FreshTabFits DEF ListAgain, Tab
<1>3. tab' \in [Tabs -> Tab] /\ UNCHANGED <<value, op, saved, disturbed>>
  BY <1>1, <1>2 DEF Back
<1> QED
  BY <1>3, TabKeeps

LEMMA LoadKeeps ==
  ASSUME RedisInv, NEW t \in Tabs, Load(t)
  PROVE  RedisInv'
<1>1. tab \in [Tabs -> Tab] /\ tab[t] \in Tab
  BY DEF RedisInv, RedisTypeOK
<1>2. tab' \in [Tabs -> Tab]
  BY <1>1 DEF Load, Tab
<1>3. UNCHANGED <<value, op, saved, disturbed>>
  BY DEF Load
<1> QED
  BY <1>2, <1>3, TabKeeps

\* A step of which the parts of the value and the commands of the saves know
\* nothing.
LEMMA QuietOps ==
  ASSUME RedisInv, RedisTypeOK', OpsFit', UNCHANGED <<value, disturbed>>,
         \A s \in Saves : saved[s].state # "unborn" =>
            /\ saved'[s].state # "unborn" /\ saved'[s].type = saved[s].type /\ saved'[s].ttl = saved[s].ttl
            /\ Heard(s)' => Heard(s),
         \A u \in Tabs :
            \/ op'[u].save = op[u].save /\ op'[u].at = op[u].at /\ KeyOf(u)' = KeyOf(u)
            \/ op'[u].at \notin {"del", "write", "expire"} /\ op'[u].save = {}
            \/ op'[u].at = "del" /\ \A s \in op'[u].save :
                 saved[s].state = "unborn" /\ \A w \in Tabs \ {u} : s \notin op[w].save,
         \A u, w \in Tabs : op'[u].save # op[u].save /\ op'[w].save # op[w].save => u = w
  PROVE  RedisInv'
<1>1. PartsWritten' /\ Filled' /\ OwnValue' /\ AsAsked'
  BY GoneOrSame
<1>2. OneTab'
  BY DEF RedisInv, OneTab
<1>3. Rivals'
  BY DEF RedisInv, Rivals, Replaces
<1> QED
  BY <1>1, <1>2, <1>3 DEF RedisInv
LEMMA OpenKeyKeeps ==
ASSUME RedisInv, NEW t \in Tabs, NEW k \in Dbs \X Keys, Open(t, k)
PROVE  RedisInv'
<1>1. tab \in [Tabs -> Tab] /\ op \in [Tabs -> Op] /\ k[2] \in Keys
  BY DEF RedisInv, RedisTypeOK
<1>2. tab' \in [Tabs -> Tab]
  <2>1. [tab[t] EXCEPT !.selectedKey = k[2], !.keys = {}, !.due = FALSE, !.loads = {}] \in Tab
    <3>1. tab[t] \in Tab /\ [tab[t] EXCEPT !.selectedKey = k[2], !.keys = {}] \in Tab
      BY <1>1 DEF Tab
    <3>3. PICK v \in Tab : v = [tab[t] EXCEPT !.selectedKey = k[2], !.keys = {}]
      BY <3>1
    <3>4. [v EXCEPT !.due = FALSE, !.loads = {}] \in Tab
      BY DEF Tab
    <3> QED
      BY <3>3, <3>4
  <2> QED
    BY <1>1, <2>1 DEF Open
<1>3. op' = [op EXCEPT ![t].mounted = FALSE] /\ UNCHANGED <<value, saved, disturbed>>
  BY DEF Open
<1>4. /\ op' \in [Tabs -> Op]
      /\ \A u \in Tabs : /\ op'[u].do = op[u].do /\ op'[u].at = op[u].at /\ op'[u].db = op[u].db
                         /\ op'[u].key = op[u].key /\ op'[u].newKey = op[u].newKey
                         /\ op'[u].ttl = op[u].ttl
                           /\ op'[u].save = op[u].save
  <2>1. PICK o : o = [op[t] EXCEPT !.mounted = FALSE]
    OBVIOUS
  <2>2. /\ o \in Op /\ o.do = op[t].do /\ o.at = op[t].at /\ o.db = op[t].db /\ o.key = op[t].key
        /\ o.newKey = op[t].newKey /\ o.ttl = op[t].ttl /\ o.save = op[t].save
    BY <1>1, <2>1 DEF Op
  <2>3. op' = [op EXCEPT ![t] = o]
    BY <1>3, <2>1
  <2> QED
    BY <1>1, <2>2, <2>3
<1>5. RedisTypeOK'
  BY <1>2, <1>3, <1>4 DEF RedisInv, RedisTypeOK
<1>6. OpsFit'
  BY <1>3, <1>4 DEF RedisInv, OpsFit, OpFits
<1>7. \A u \in Tabs : KeyOf(u)' = KeyOf(u)
  BY <1>4 DEF KeyOf
<1>8. \A s \in Saves : Heard(s)' => Heard(s)
  BY <1>3, <1>4 DEF Heard
<1> QED
  BY <1>3, <1>4, <1>5, <1>6, <1>7, <1>8, QuietOps

\* A request that is no save.
LEMMA SendsKeeps ==
  ASSUME RedisInv, NEW t \in Tabs, NEW o \in Op, Sends(t, o), UNCHANGED <<value, tab, saved, disturbed>>,
         o.do \in {"delete", "rename", "ttl", "flush"}, o.at = "run", o.save = {},
         o.do # "flush" => o.key \in Keys,
         o.do = "rename" => o.newKey \in Keys
  PROVE  RedisInv'
<1>1. tab[t] \in Tab /\ op \in [Tabs -> Op]
  BY DEF RedisInv, RedisTypeOK
<1> DEFINE new == [o EXCEPT !.db = tab[t].db, !.fromList = OnList(t), !.mounted = OnList(t)]
<1>2. op[t].do = "none" /\ op' = [op EXCEPT ![t] = new]
  BY DEF Sends
<1>3. /\ new \in Op /\ new.do = o.do /\ new.at = "run" /\ new.save = {}
      /\ new.key = o.key /\ new.newKey = o.newKey
  BY <1>1 DEF Op, Tab, OnList
<1> HIDE DEF new
<1>4. op' \in [Tabs -> Op] /\ \A u \in Tabs : op'[u] = IF u = t THEN new ELSE op[u]
  BY <1>1, <1>2, <1>3
<1>5. RedisTypeOK'
  BY <1>4 DEF RedisInv, RedisTypeOK
<1>6. OpsFit'
  BY <1>3, <1>4 DEF RedisInv, OpsFit, OpFits
<1>7. \A u \in Tabs \ {t} : KeyOf(u)' = KeyOf(u)
  BY <1>4 DEF KeyOf
<1>8. \A s \in Saves : Heard(s)' => Heard(s)
  BY <1>3, <1>4 DEF Heard
<1>9. op[t].save = {}
  BY <1>2, FitsUnlessSet DEF RedisInv
<1> QED
  BY <1>3, <1>4, <1>5, <1>6, <1>7, <1>8, <1>9, QuietOps

LEMMA IdleFits ==
  ASSUME NEW db \in Dbs
  PROVE  Idle(db) = [do |-> "none", at |-> "idle", db |-> db, key |-> NoKey, newKey |-> NoKey, ttl |-> -1,
                     save |-> {}, fromList |-> FALSE, mounted |-> FALSE]
         /\ Idle(db) \in Op
  BY DEF Idle, Op

LEMMA DeleteKeeps ==
  ASSUME RedisInv, NEW t \in Tabs, NEW key \in Keys, Delete(t, key)
  PROVE  RedisInv'
<1>1. tab[t].db \in Dbs
  BY DEF RedisInv, RedisTypeOK, Tab
<1>i. PICK i : i = Idle(tab[t].db)
  OBVIOUS
<1>j. i = [do |-> "none", at |-> "idle", db |-> tab[t].db, key |-> NoKey, newKey |-> NoKey, ttl |-> -1,
           save |-> {}, fromList |-> FALSE, mounted |-> FALSE] /\ i \in Op
  BY <1>1, <1>i, IdleFits
<1>2. PICK o : o = [i EXCEPT !.do = "delete", !.at = "run", !.key = key]
  OBVIOUS
<1>3. o \in Op /\ o.do = "delete" /\ o.at = "run" /\ o.save = {} /\ o.key = key
  BY <1>1, <1>2, <1>j DEF Op
<1>4. Sends(t, o) /\ UNCHANGED <<value, tab, saved, disturbed>>
  BY <1>2, <1>i, Zenon DEF Delete
<1> QED
  BY <1>3, <1>4, SendsKeeps

LEMMA RenameDialogKeeps ==
  ASSUME RedisInv, NEW t \in Tabs, NEW key \in Keys, RenameDialog(t, key)
  PROVE  RedisInv'
<1>1. tab[t].db \in Dbs /\ tab[t].selectedKey \in Keys
  BY DEF RedisInv, RedisTypeOK, Tab, RenameDialog, OnList
<1>i. PICK i : i = Idle(tab[t].db)
  OBVIOUS
<1>j. i = [do |-> "none", at |-> "idle", db |-> tab[t].db, key |-> NoKey, newKey |-> NoKey, ttl |-> -1,
           save |-> {}, fromList |-> FALSE, mounted |-> FALSE] /\ i \in Op
  BY <1>1, <1>i, IdleFits
<1>2. PICK o : o = [i EXCEPT !.do = "rename", !.at = "run", !.key = tab[t].selectedKey,
                                           !.newKey = key]
  OBVIOUS
<1>3. /\ o \in Op /\ o.do = "rename" /\ o.at = "run" /\ o.save = {}
      /\ o.key = tab[t].selectedKey /\ o.newKey = key
  BY <1>1, <1>2, <1>j DEF Op
<1>4. Sends(t, o) /\ UNCHANGED <<value, tab, saved, disturbed>>
  BY <1>2, <1>i, Zenon DEF RenameDialog
<1> QED
  BY <1>1, <1>3, <1>4, SendsKeeps

LEMMA TtlKeeps ==
  ASSUME RedisInv, NEW t \in Tabs, NEW ttl \in -1..1, Ttl(t, ttl)
  PROVE  RedisInv'
<1>1. tab[t].db \in Dbs /\ tab[t].selectedKey \in Keys
  BY DEF RedisInv, RedisTypeOK, Tab, Ttl, OnList
<1>i. PICK i : i = Idle(tab[t].db)
  OBVIOUS
<1>j. i = [do |-> "none", at |-> "idle", db |-> tab[t].db, key |-> NoKey, newKey |-> NoKey, ttl |-> -1,
           save |-> {}, fromList |-> FALSE, mounted |-> FALSE] /\ i \in Op
  BY <1>1, <1>i, IdleFits
<1>2. PICK o : o = [i EXCEPT !.do = "ttl", !.at = "run", !.key = tab[t].selectedKey, !.ttl = ttl]
  OBVIOUS
<1>3. o \in Op /\ o.do = "ttl" /\ o.at = "run" /\ o.save = {} /\ o.key = tab[t].selectedKey
  BY <1>1, <1>2, <1>j DEF Op
<1>4. Sends(t, o) /\ UNCHANGED <<value, tab, saved, disturbed>>
  BY <1>2, <1>i, Zenon DEF Ttl
<1> QED
  BY <1>1, <1>3, <1>4, SendsKeeps

LEMMA FlushKeeps ==
  ASSUME RedisInv, NEW t \in Tabs, Flush(t)
  PROVE  RedisInv'
<1>1. tab[t].db \in Dbs
  BY DEF RedisInv, RedisTypeOK, Tab
<1>i. PICK i : i = Idle(tab[t].db)
  OBVIOUS
<1>j. i = [do |-> "none", at |-> "idle", db |-> tab[t].db, key |-> NoKey, newKey |-> NoKey, ttl |-> -1,
           save |-> {}, fromList |-> FALSE, mounted |-> FALSE] /\ i \in Op
  BY <1>1, <1>i, IdleFits
<1>2. PICK o : o = [i EXCEPT !.do = "flush", !.at = "run"]
  OBVIOUS
<1>3. o \in Op /\ o.do = "flush" /\ o.at = "run" /\ o.save = {}
  BY <1>1, <1>2, <1>j DEF Op
<1>4. Sends(t, o) /\ UNCHANGED <<value, tab, saved, disturbed>>
  BY <1>2, <1>i, Zenon DEF Flush
<1> QED
  BY <1>3, <1>4, SendsKeeps

\* A save that begins is in no value, and no other request carries it.
LEMMA SetKeeps ==
  ASSUME RedisInv, NEW t \in Tabs, NEW s \in Saves, NEW key \in Keys, NEW type \in Types, NEW ttl \in -1..1,
         Set(t, s, key, type, ttl)
  PROVE  RedisInv'
<1>1. tab[t] \in Tab /\ tab[t].db \in Dbs /\ op \in [Tabs -> Op] /\ saved \in [Saves -> Saved]
  BY DEF RedisInv, RedisTypeOK, Tab
<1>2. PICK i : i = Idle(tab[t].db)
  OBVIOUS
<1>3. i = [do |-> "none", at |-> "idle", db |-> tab[t].db, key |-> NoKey, newKey |-> NoKey, ttl |-> -1,
           save |-> {}, fromList |-> FALSE, mounted |-> FALSE] /\ i \in Op
  BY <1>1, <1>2, IdleFits
<1>4. PICK o : o = [i EXCEPT !.do = "set", !.at = "del", !.key = key, !.ttl = ttl, !.save = {s}]
  OBVIOUS
<1>5. o \in Op /\ o.do = "set" /\ o.at = "del" /\ o.save = {s} /\ o.key = key /\ o.ttl = ttl
  BY <1>3, <1>4 DEF Op
<1>6. Sends(t, o)
  BY <1>2, <1>4 DEF Set
<1>7. /\ saved[s].state = "unborn"
      /\ saved' = [saved EXCEPT ![s] = [type |-> type, ttl |-> ttl, state |-> "sent"]]
      /\ UNCHANGED <<value, tab, disturbed>>
  BY DEF Set
<1> DEFINE new == [o EXCEPT !.db = tab[t].db, !.fromList = OnList(t), !.mounted = OnList(t)]
<1>8. op[t].do = "none" /\ op' = [op EXCEPT ![t] = new]
  BY <1>6 DEF Sends
<1>9. new \in Op /\ new.do = "set" /\ new.at = "del" /\ new.save = {s} /\ new.key = key /\ new.ttl = ttl
  BY <1>1, <1>5 DEF Op, OnList
<1> HIDE DEF new
<1>10. op' \in [Tabs -> Op] /\ \A u \in Tabs : op'[u] = IF u = t THEN new ELSE op[u]
  BY <1>1, <1>8, <1>9
<1>11. /\ saved' \in [Saves -> Saved]
       /\ \A p \in Saves :
              saved'[p] = IF p = s THEN [type |-> type, ttl |-> ttl, state |-> "sent"] ELSE saved[p]
  BY <1>1, <1>7 DEF Saved
<1>12. \A u \in Tabs : s \notin op[u].save
  <2> SUFFICES ASSUME NEW u \in Tabs, s \in op[u].save PROVE FALSE
    OBVIOUS
  <2>1. OpFits(op[u])
    BY DEF RedisInv, OpsFit
  <2> QED
    BY <1>7, <2>1 DEF OpFits
<1>13. RedisTypeOK'
  BY <1>7, <1>10, <1>11 DEF RedisInv, RedisTypeOK
<1>14. OpsFit'
  <2> SUFFICES ASSUME NEW u \in Tabs PROVE OpFits(op[u])'
    BY DEF OpsFit
  <2>1. CASE u = t
    BY <1>9, <1>10, <1>11, <2>1 DEF OpFits
  <2>2. CASE u # t
    <3>1. OpFits(op[u])
      BY DEF RedisInv, OpsFit
    <3> QED
      BY <1>10, <1>11, <1>12, <2>2, <3>1 DEF OpFits
  <2> QED
    BY <2>1, <2>2
<1>15. \A u \in Tabs \ {t} : KeyOf(u)' = KeyOf(u)
  BY <1>10 DEF KeyOf
<1>16. \A p \in Saves \ {s} : Heard(p)' => Heard(p)
  BY <1>9, <1>10, <1>11 DEF Heard
<1>17. op[t].save = {}
  BY <1>8, FitsUnlessSet DEF RedisInv
<1> QED
  BY <1>7, <1>9, <1>10, <1>11, <1>12, <1>13, <1>14, <1>15, <1>16, <1>17, QuietOps

LEMMA AnswerKeeps ==
  ASSUME RedisInv, NEW t \in Tabs, Answer(t)
  PROVE  RedisInv'
<1>0. RedisTypeOK /\ OpsFit /\ OneTab
  BY DEF RedisInv
<1>1. PICK o : o = op[t]
  OBVIOUS
<1>2. o \in Op /\ o.db \in Dbs /\ o.at \in {"ok", "failed"}
  BY <1>0, <1>1 DEF RedisTypeOK, Op, Answer
<1>3. /\ op' = [op EXCEPT ![t] = Idle(o.db)]
      /\ saved' = [s \in Saves |-> IF s \in o.save THEN [saved[s] EXCEPT !.state = o.at] ELSE saved[s]]
      /\ tab' = CASE o.at = "ok" /\ o.fromList /\ o.mounted -> [tab EXCEPT ![t].loads = @ \cup {o.db}]
                  [] o.at = "ok" /\ ~o.fromList /\ o.do # "ttl" -> [tab EXCEPT ![t] = ListAgain(@)]
                  [] OTHER -> tab
      /\ UNCHANGED <<value, disturbed>>
  BY <1>1 DEF Answer
<1>4. PICK i : i = Idle(o.db)
  OBVIOUS
<1>5. i.do = "none" /\ i.at = "idle" /\ i.save = {} /\ i \in Op
  <2>1. i = [do |-> "none", at |-> "idle", db |-> o.db, key |-> NoKey, newKey |-> NoKey, ttl |-> -1,
             save |-> {}, fromList |-> FALSE, mounted |-> FALSE] /\ i \in Op
    BY <1>2, <1>4, IdleFits
  <2> QED
    BY <2>1
<1>6. op' \in [Tabs -> Op] /\ \A u \in Tabs : op'[u] = IF u = t THEN i ELSE op[u]
  BY <1>0, <1>3, <1>4, <1>5 DEF RedisTypeOK
<1>7. /\ saved' \in [Saves -> Saved]
      /\ \A s \in Saves : /\ saved'[s].type = saved[s].type /\ saved'[s].ttl = saved[s].ttl
                          /\ saved'[s].state = IF s \in o.save THEN o.at ELSE saved[s].state
  BY <1>0, <1>2, <1>3 DEF RedisTypeOK, Saved
<1>8. tab' \in [Tabs -> Tab]
  <2>1. tab \in [Tabs -> Tab]
    BY <1>0 DEF RedisTypeOK
  <2>2. [tab EXCEPT ![t].loads = @ \cup {o.db}] \in [Tabs -> Tab]
    BY <1>2, <2>1 DEF Tab
  <2>3. ListAgain(tab[t]) \in Tab
    BY <2>1, FreshTabFits DEF ListAgain, Tab
  <2>4. [tab EXCEPT ![t] = ListAgain(@)] \in [Tabs -> Tab]
    BY <2>1, <2>3
  <2> QED
    BY <1>3, <2>1, <2>2, <2>4
<1>9. RedisTypeOK'
  BY <1>0, <1>3, <1>6, <1>7, <1>8 DEF RedisTypeOK
<1>10. \A u \in Tabs \ {t} : op[u].save \cap o.save = {}
  BY <1>0, <1>1 DEF OneTab
<1>11. OpsFit'
  <2> SUFFICES ASSUME NEW u \in Tabs PROVE OpFits(op[u])'
    BY DEF OpsFit
  <2>1. CASE u = t
    BY <1>5, <1>6, <2>1 DEF OpFits
  <2>2. CASE u # t
    <3>1. OpFits(op[u]) /\ op'[u] = op[u] /\ op[u].save \cap o.save = {}
      BY <1>0, <1>6, <1>10, <2>2 DEF OpsFit
    <3>2. \A s \in op[u].save : s \in Saves => saved'[s].state = saved[s].state
      BY <1>7, <3>1
    <3> QED
      BY <1>7, <3>1, <3>2 DEF OpFits
  <2> QED
    BY <2>1, <2>2
<1>12. \A u \in Tabs \ {t} : KeyOf(u)' = KeyOf(u)
  BY <1>6 DEF KeyOf
<1>13. \A s \in Saves : Heard(s)' => Heard(s)
  <2>1. \A s \in o.save : o.save = {s}
    BY <1>0, <1>1, FitsUnlessSet
  <2> QED
    BY <1>1, <1>5, <1>6, <1>7, <2>1 DEF Heard
<1> QED
  BY <1>2, <1>3, <1>5, <1>6, <1>7, <1>9, <1>11, <1>12, <1>13, QuietOps

LEMMA KeyExpiresKeeps ==
  ASSUME RedisInv, NEW k \in Dbs \X Keys, KeyExpires(k)
  PROVE  RedisInv'
<1>1. UNCHANGED <<tab, op, saved, disturbed>> /\ value' = [value EXCEPT ![k] = NoValue]
  BY DEF KeyExpires
<1>2. value' \in [Dbs \X Keys -> Value] /\ \A j \in Dbs \X Keys : value'[j] = value[j] \/ value'[j] = NoValue
  BY <1>1, NoValueFields DEF RedisInv, RedisTypeOK
<1>3. (\A u \in Tabs : KeyOf(u)' = KeyOf(u)) /\ \A s \in Saves : Heard(s)' => Heard(s)
  BY <1>1 DEF KeyOf, Heard
<1>4. PartsWritten' /\ Filled' /\ OwnValue' /\ AsAsked'
  BY <1>1, <1>2, <1>3, GoneOrSame
<1>5. RedisTypeOK'
  BY <1>1, <1>2 DEF RedisInv, RedisTypeOK
<1>6. OpsFit' /\ OneTab' /\ Rivals'
  BY <1>1, <1>3 DEF RedisInv, OpsFit, OpFits, OneTab, Rivals, Replaces
<1> QED
  BY <1>4, <1>5, <1>6 DEF RedisInv
LEMMA RedisStep == RedisInv /\ [RedisNext]_redisVars => RedisInv'
<1> SUFFICES ASSUME RedisInv, [RedisNext]_redisVars PROVE RedisInv'
  OBVIOUS
<1>1. CASE UNCHANGED redisVars
  <2>1. tab' \in [Tabs -> Tab] /\ UNCHANGED <<value, op, saved, disturbed>>
    BY <1>1 DEF redisVars, RedisInv, RedisTypeOK
  <2> QED
    BY <2>1, TabKeeps
<1>2. CASE \E k \in Dbs \X Keys : KeyExpires(k)
  BY <1>2, KeyExpiresKeeps
<1>3. ASSUME NEW t \in Tabs,
             (\E db \in Dbs : ChangeDb(t, db) \/ Loaded(t, db)) \/ (\E k \in Dbs \X Keys : Open(t, k))
                             \/ Back(t) \/ Load(t)
      PROVE  RedisInv'
  BY <1>3, ChangeDbKeeps, LoadedKeeps, OpenKeyKeeps, BackKeeps, LoadKeeps
<1>4. ASSUME NEW t \in Tabs,
             \/ \E s \in Saves, key \in Keys, type \in Types, ttl \in -1..1 : Set(t, s, key, type, ttl)
             \/ \E key \in Keys : Delete(t, key) \/ RenameDialog(t, key)
             \/ \E ttl \in -1..1 : Ttl(t, ttl)
             \/ Flush(t) \/ Answer(t) \/ Fails(t)
      PROVE  RedisInv'
  BY <1>4, SetKeeps, DeleteKeeps, RenameDialogKeeps, TtlKeeps, FlushKeeps, AnswerKeeps, FailsKeeps
<1>5. ASSUME NEW t \in Tabs,
             \/ SetDel(t) \/ SetWrite(t) \/ SetExpire(t)
              \/ DeleteKey(t) \/ RenameKey(t) \/ SetTTL(t) \/ FlushDB(t)
      PROVE  RedisInv'
  BY <1>5, SetDelKeeps, SetWriteKeeps, SetExpireKeeps,
      DeleteKeyKeeps, RenameKeyKeeps, SetTTLKeeps, FlushDBKeeps
<1> QED
  BY <1>1, <1>2, <1>3, <1>4, <1>5 DEF RedisNext

LEMMA RedisInitInv == RedisInit => RedisInv
<1> SUFFICES ASSUME RedisInit PROVE RedisInv
  OBVIOUS
<1>1. PICK db \in Dbs : tab = [t \in Tabs |-> FreshTab(db)] /\ op = [t \in Tabs |-> Idle(db)]
  BY DEF RedisInit
<1>2. \A t \in Tabs : /\ op[t].do = "none" /\ op[t].at = "idle" /\ op[t].save = {} /\ op[t] \in Op
  BY <1>1, IdleFits
<1>3. \A k \in Dbs \X Keys : value[k] = NoValue
  BY DEF RedisInit
<1>4. RedisTypeOK
  BY <1>1, IdleFits, FreshTabFits, NoValueFields DEF RedisInit, RedisTypeOK, Saved
<1>5. OpsFit /\ OneTab
  BY <1>2 DEF OpsFit, OpFits, OneTab
<1>6. PartsWritten /\ Filled /\ AsAsked
  BY <1>3, NoValueFields DEF PartsWritten, Filled, AsAsked
<1>7. Rivals /\ OwnValue
  BY <1>2 DEF Rivals, OwnValue, Replaces
<1> QED
  BY <1>4, <1>5, <1>6, <1>7 DEF RedisInv

\* The keyspace, the requests under way and the browsers are well typed: a value has
\* the type and the expiry of some save, a request is at a step of its handler.
THEOREM RedisTypeCorrect == RedisSpec => []RedisTypeOK
<1>1. RedisInv => RedisTypeOK
  BY DEF RedisInv
<1> QED
  BY <1>1, RedisInitInv, RedisStep, PTL DEF RedisSpec

\* However many browsers save, rename, expire, delete and flush, a key that holds
\* something which no overlapping request spoilt holds exactly one save, with the
\* type it asked for and, once it was told ok, an expiry iff it asked for one: DEL,
\* write and EXPIRE are three round trips, and nothing comes between unnoticed.
THEOREM SavedAsAskedCorrect == RedisSpec => []SavedAsAsked
<1>1. RedisInv => SavedAsAsked
  BY DEF RedisInv, AsAsked, SavedAsAsked, KeptOf, Heard, Spoilt
<1> QED
  BY <1>1, RedisInitInv, RedisStep, PTL DEF RedisSpec
=============================================================================
