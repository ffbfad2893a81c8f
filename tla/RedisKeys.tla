----------------------------- MODULE RedisKeys -----------------------------
(***************************************************************************)
(* The keys of a Redis server and the browsers that edit them: the commands *)
(* that wings/redisbrowser sends, each by itself on the instance, for the    *)
(* requests of tabs whose component is redis-browser.tsx.  The pattern of    *)
(* the list is "*" and a page holds all keys, so there is nothing more to    *)
(* load; a scan runs when its page arrives.                                 *)
(***************************************************************************)
EXTENDS Integers

CONSTANTS
  Dbs,        \* the logical databases
  Keys,
  Types,      \* of a value: "string" and collections
  Tabs,       \* browsers that show the server
  Saves,      \* submissions of the editor, each of a new value
  NoKey

ASSUME RedisAssumption == "string" \in Types /\ "none" \notin Types /\ NoKey \notin Keys

VARIABLES
  value,      \* [Dbs \X Keys -> Value]
  tab,        \* [Tabs -> Tab]
  op,         \* [Tabs -> Op]: the mutation that a tab awaits
  saved,      \* history: [Saves -> Saved], what was asked and answered
  disturbed   \* history: saves that another request ran across

redisVars == <<value, tab, op, saved, disturbed>>

\* A value has the parts that saves wrote into it.
NoValue == [type |-> "none", parts |-> {}, expires |-> FALSE]
Value == [type : Types, parts : SUBSET Saves, expires : BOOLEAN] \cup {NoValue}

\* The list shows keys, each of the database it was loaded from.
Tab == [db : Dbs, selectedKey : Keys \cup {NoKey}, keys : SUBSET (Dbs \X Keys),
        due : BOOLEAN, loads : SUBSET Dbs]
Op == [do : {"none", "set", "delete", "rename", "ttl", "flush"},
       at : {"idle", "del", "write", "expire", "run", "ok", "failed"},
       db : Dbs, key : Keys \cup {NoKey}, newKey : Keys \cup {NoKey}, ttl : -1..1,
       save : SUBSET Saves, fromList : BOOLEAN, mounted : BOOLEAN]
Saved == [type : Types \cup {"none"}, ttl : -1..1, state : {"unborn", "sent", "ok", "failed"}]

RedisTypeOK ==
  /\ value \in [Dbs \X Keys -> Value]
  /\ tab \in [Tabs -> Tab]
  /\ op \in [Tabs -> Op]
  /\ saved \in [Saves -> Saved]
  /\ disturbed \in SUBSET Saves

FreshTab(db) == [db |-> db, selectedKey |-> NoKey, keys |-> {}, due |-> TRUE, loads |-> {}]
Idle(db) == [do |-> "none", at |-> "idle", db |-> db, key |-> NoKey, newKey |-> NoKey, ttl |-> -1,
             save |-> {}, fromList |-> FALSE, mounted |-> FALSE]

RedisInit ==
  /\ value = [k \in Dbs \X Keys |-> NoValue]
  /\ \E db \in Dbs : tab = [t \in Tabs |-> FreshTab(db)] /\ op = [t \in Tabs |-> Idle(db)]
  /\ saved = [s \in Saves |-> [type |-> "none", ttl |-> -1, state |-> "unborn"]]
  /\ disturbed = {}

(***************************************************************************)
(* The component.  The list is one component whatever the database; only     *)
(* the view of a key replaces it, and it is mounted anew after that.        *)
(***************************************************************************)
OnList(t) == tab[t].selectedKey = NoKey

\* changeDb.  The timer of the effect starts again.
ChangeDb(t, db) ==
  /\ db # tab[t].db
  /\ tab' = [tab EXCEPT ![t] = IF OnList(t) THEN [@ EXCEPT !.db = db, !.due = TRUE] ELSE FreshTab(db)]
  /\ UNCHANGED <<value, op, saved, disturbed>>

\* A row is opened by its name.
Open(t, k) ==
  /\ OnList(t) /\ k \in tab[t].keys
  /\ tab' = [tab EXCEPT ![t] = [@ EXCEPT !.selectedKey = k[2], !.keys = {}, !.due = FALSE, !.loads = {}]]
  /\ op' = [op EXCEPT ![t].mounted = FALSE]
  /\ UNCHANGED <<value, saved, disturbed>>

\* onBack: whatever key is open by then is closed.
ListAgain(v) == IF v.selectedKey = NoKey THEN v ELSE FreshTab(v.db)
Back(t) ==
  /\ ~OnList(t)
  /\ tab' = [tab EXCEPT ![t] = ListAgain(@)]
  /\ UNCHANGED <<value, op, saved, disturbed>>

\* The 300 ms have passed: load.
Load(t) ==
  /\ tab[t].due
  /\ tab' = [tab EXCEPT ![t].due = FALSE, ![t].loads = @ \cup {tab[t].db}]
  /\ UNCHANGED <<value, op, saved, disturbed>>

\* A page arrives, or the error that empties the list.
Loaded(t, db) ==
  /\ db \in tab[t].loads
  /\ \E keys \in {{}, {k \in {db} \X Keys : value[k] # NoValue}} :
        tab' = [tab EXCEPT ![t].keys = keys, ![t].loads = @ \ {db}]
  /\ UNCHANGED <<value, op, saved, disturbed>>

\* A dialog sends its request, with the database and key of that moment.
Sends(t, o) ==
  /\ op[t].do = "none"
  /\ op' = [op EXCEPT ![t] = [o EXCEPT !.db = tab[t].db, !.fromList = OnList(t), !.mounted = OnList(t)]]

Set(t, s, key, type, ttl) ==
  /\ OnList(t) /\ saved[s].state = "unborn"
  /\ Sends(t, [Idle(tab[t].db) EXCEPT !.do = "set", !.at = "del", !.key = key, !.ttl = ttl, !.save = {s}])
  /\ saved' = [saved EXCEPT ![s] = [type |-> type, ttl |-> ttl, state |-> "sent"]]
  /\ UNCHANGED <<value, tab, disturbed>>

\* Delete names a row of the list, or the open key.
Delete(t, key) ==
  /\ IF OnList(t) THEN \E k \in tab[t].keys : k[2] = key ELSE key = tab[t].selectedKey
  /\ Sends(t, [Idle(tab[t].db) EXCEPT !.do = "delete", !.at = "run", !.key = key])
  /\ UNCHANGED <<value, tab, saved, disturbed>>

RenameDialog(t, newKey) ==
  /\ ~OnList(t) /\ newKey # tab[t].selectedKey
  /\ Sends(t, [Idle(tab[t].db) EXCEPT !.do = "rename", !.at = "run", !.key = tab[t].selectedKey, !.newKey = newKey])
  /\ UNCHANGED <<value, tab, saved, disturbed>>

Ttl(t, ttl) ==
  /\ ~OnList(t)
  /\ Sends(t, [Idle(tab[t].db) EXCEPT !.do = "ttl", !.at = "run", !.key = tab[t].selectedKey, !.ttl = ttl])
  /\ UNCHANGED <<value, tab, saved, disturbed>>

Flush(t) ==
  /\ OnList(t)
  /\ Sends(t, [Idle(tab[t].db) EXCEPT !.do = "flush", !.at = "run"])
  /\ UNCHANGED <<value, tab, saved, disturbed>>

(***************************************************************************)
(* The daemon: the commands of a request, one after another.                *)
(***************************************************************************)
KeyOf(t) == <<op[t].db, op[t].key>>
GoesTo(t, at) == op' = [op EXCEPT ![t].at = at]

\* Saves of a key that have begun to replace it.
Replacing(k) == UNION {op[t].save : t \in {u \in Tabs : KeyOf(u) = k /\ op[u].at \in {"write", "expire"}}}
Disturbs(ss) == disturbed' = disturbed \cup ss

\* mutation: the old value is not removed
SetDelKept(t) ==
  LET k == KeyOf(t) IN
  /\ op[t].at = "del"
  /\ Disturbs(IF Replacing(k) = {} THEN {} ELSE Replacing(k) \cup op[t].save)
  /\ GoesTo(t, "write")
  /\ UNCHANGED <<value, tab, saved>>

\* SetKey: DEL, the value, EXPIRE.
SetDel(t) ==
  LET k == KeyOf(t) IN
  /\ op[t].at = "del"
  /\ value' = [value EXCEPT ![k] = NoValue]
  /\ Disturbs(IF Replacing(k) = {} THEN {} ELSE Replacing(k) \cup op[t].save)
  /\ GoesTo(t, "write")
  /\ UNCHANGED <<tab, saved>>

\* SET replaces; the commands of collections add, and refuse another type.
TypeOf(t) == saved[CHOOSE s \in op[t].save : TRUE].type
Written(v, type, save) ==
  IF type = "string" THEN [type |-> type, parts |-> save, expires |-> FALSE]
  ELSE [v EXCEPT !.type = type, !.parts = @ \cup save]
SetWrite(t) ==
  LET k == KeyOf(t) IN
  /\ op[t].at = "write"
  /\ TypeOf(t) = "string" \/ value[k].type \in {"none", TypeOf(t)}
  /\ value' = [value EXCEPT ![k] = Written(@, TypeOf(t), op[t].save)]
  /\ GoesTo(t, IF op[t].ttl >= 0 THEN "expire" ELSE "ok")
  /\ UNCHANGED <<tab, saved, disturbed>>

\* EXPIRE of a missing key does nothing, EXPIRE 0 removes the key.
Expiring(v, ttl) == IF v = NoValue \/ ttl = 0 THEN NoValue ELSE [v EXCEPT !.expires = TRUE]
SetExpire(t) ==
  /\ op[t].at = "expire"
  /\ value' = [value EXCEPT ![KeyOf(t)] = Expiring(@, op[t].ttl)]
  /\ GoesTo(t, "ok")
  /\ UNCHANGED <<tab, saved, disturbed>>

DeleteKey(t) ==
  /\ op[t].do = "delete" /\ op[t].at = "run"
  /\ value' = [value EXCEPT ![KeyOf(t)] = NoValue]
  /\ Disturbs(Replacing(KeyOf(t)))
  /\ GoesTo(t, "ok")
  /\ UNCHANGED <<tab, saved>>

\* RENAME fails without the key and replaces what has the new name.
RenameKey(t) ==
  LET k == KeyOf(t)
      n == <<op[t].db, op[t].newKey>>
  IN
  /\ op[t].do = "rename" /\ op[t].at = "run"
  /\ value[k] # NoValue
  /\ value' = [value EXCEPT ![n] = value[k], ![k] = NoValue]
  /\ Disturbs(Replacing(k) \cup Replacing(n) \cup IF Replacing(n) = {} THEN {} ELSE value[k].parts)
  /\ GoesTo(t, "ok")
  /\ UNCHANGED <<tab, saved>>

SetTTL(t) ==
  LET k == KeyOf(t) IN
  /\ op[t].do = "ttl" /\ op[t].at = "run"
  /\ value' = [value EXCEPT ![k] = IF op[t].ttl < 0 THEN [@ EXCEPT !.expires = FALSE] ELSE Expiring(@, op[t].ttl)]
  /\ Disturbs(Replacing(k) \cup value[k].parts)
  /\ GoesTo(t, "ok")
  /\ UNCHANGED <<tab, saved>>

FlushDB(t) ==
  /\ op[t].do = "flush" /\ op[t].at = "run"
  /\ value' = [k \in Dbs \X Keys |-> IF k[1] = op[t].db THEN NoValue ELSE value[k]]
  /\ Disturbs(UNION {Replacing(<<op[t].db, k>>) : k \in Keys})
  /\ GoesTo(t, "ok")
  /\ UNCHANGED <<tab, saved>>

\* The instance refuses, the connection breaks, the answer is lost.
Fails(t) ==
  /\ op[t].at \notin {"idle", "failed"}
  /\ GoesTo(t, "failed")
  /\ UNCHANGED <<value, tab, saved, disturbed>>

\* A time to live ends.
KeyExpires(k) ==
  /\ value[k].expires
  /\ value' = [value EXCEPT ![k] = NoValue]
  /\ UNCHANGED <<tab, op, saved, disturbed>>

\* The awaiting function goes on, in the closures of the moment it was called:
\* load of the list is bound to the database that was selected then.
Answer(t) ==
  LET o == op[t] IN
  /\ o.at \in {"ok", "failed"}
  /\ op' = [op EXCEPT ![t] = Idle(o.db)]
  /\ saved' = [s \in Saves |-> IF s \in o.save THEN [saved[s] EXCEPT !.state = o.at] ELSE saved[s]]
  /\ tab' = CASE o.at = "ok" /\ o.fromList /\ o.mounted -> [tab EXCEPT ![t].loads = @ \cup {o.db}]
              [] o.at = "ok" /\ ~o.fromList /\ o.do # "ttl" -> [tab EXCEPT ![t] = ListAgain(@)]
              [] OTHER -> tab
  /\ UNCHANGED <<value, disturbed>>

RedisNext ==
  \/ \E t \in Tabs :
       \/ \E db \in Dbs : ChangeDb(t, db) \/ Loaded(t, db)
       \/ \E k \in Dbs \X Keys : Open(t, k)
       \/ \E s \in Saves, key \in Keys, type \in Types, ttl \in -1..1 : Set(t, s, key, type, ttl)
       \/ \E key \in Keys : Delete(t, key) \/ RenameDialog(t, key)
       \/ \E ttl \in -1..1 : Ttl(t, ttl)
       \/ Back(t) \/ Load(t) \/ Flush(t) \/ Answer(t) \/ Fails(t)
       \/ SetDel(t) \/ SetWrite(t) \/ SetExpire(t)
       \/ DeleteKey(t) \/ RenameKey(t) \/ SetTTL(t) \/ FlushDB(t)
  \/ \E k \in Dbs \X Keys : KeyExpires(k)

RedisSpec == RedisInit /\ [][RedisNext]_redisVars

\* A value is what one save asked for, with the expiry that was asked if the
\* save was answered, unless another request ran across a save of it: what
\* SetKey's DEL, write and EXPIRE do for "fully replaces a key".
SavedAsAsked ==
  \A k \in Dbs \X Keys :
    LET v == value[k] IN
    \/ v = NoValue
    \/ v.parts \cap disturbed # {}
    \/ \E s \in Saves : /\ v.parts = {s} /\ v.type = saved[s].type
                        /\ saved[s].state = "ok" => v.expires = (saved[s].ttl > 0)

\* When nothing is to load, the list shows keys of the selected database only:
\* "Load the first page for a (db, pattern) - replaces the list".
ListIsOfDb ==
  \A t \in Tabs : ~tab[t].due /\ tab[t].loads = {} => tab[t].keys \subseteq {tab[t].db} \X Keys
=============================================================================
