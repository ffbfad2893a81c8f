----------------------------- MODULE MCServices -----------------------------
(***************************************************************************)
(* Small instances of Ports, Files, SftpSessions, Images, RedisKeys, Drives  *)
(* and ConfigFiles, which share nothing, for one run of TLC.  A behaviour is *)
(* about one of them, its focus.  It is cut off where a property has nothing *)
(* left to say: a ufw number out of date, a content that was torn, a row     *)
(* that was spoiled; and a port that was crossed lets no new request begin.  *)
(* Keys of the bucket, handlers and saves are used in order.                *)
(***************************************************************************)
EXTENDS Ports, Files, SftpSessions, Images, RedisKeys, Drives, ConfigFiles

CONSTANTS c1, o1, o2, h1, n0, t1, t2, v1, v2, k1, d1, seven, padded, inf

\* "7.0" is written back as 7: of a text by coerce, of a number of the file by the decoder.
MCPlain == [v \in Scalars |-> IF v = padded THEN seven ELSE v]
MCReread == MCPlain

VARIABLE focus

\* The parts other than F stay as they are.
Rest(F) ==
  /\ UNCHANGED focus
  /\ F = "ports" \/ UNCHANGED portsVars
  /\ F = "files" \/ UNCHANGED filesVars
  /\ F = "sftp" \/ UNCHANGED sftpVars
  /\ F \in {"avatars", "icons"} \/ UNCHANGED imagesVars
  /\ F \in {"keys", "tabs"} \/ UNCHANGED redisVars
  /\ F \in {"drives", "disk"} \/ UNCHANGED drivesVars
  /\ F = "config" \/ UNCHANGED configVars

PortsFocus ==
  /\ ~renumbered
  /\ crossed = {} \/ \A r \in Askers : ask[r] = NoAsk => ask'[r] = NoAsk

\* One content is downloaded, the other written.
FilesFocus ==
  /\ \A v \in Versions : fate[v] # "torn"
  /\ \A v \in Versions \ {c1} : job'[v] = "none"

\* The account, or the eggs.
ImagesFocus ==
  /\ spoiled = {}
  /\ \A h \in Handlers : handler'[h].owner \in (IF focus = "avatars" THEN Accounts ELSE Eggs) \cup {NoImage}
  /\ focus = "avatars" => egg' = egg /\ draft' = draft
  /\ \A h \in Handlers : handler[h] = NoHandler /\ handler'[h] # NoHandler =>
        h = h1 \/ handler[h1] # NoHandler
  /\ \A o \in Objects : object[o] = "unborn" /\ object'[o] # "unborn" =>
        o = o1 \/ (object[o1] # "unborn" /\ (o = o2 \/ object[o2] # "unborn"))

\* The second browser saves v1, under the first of the keys.
SecondSaves ==
  /\ tab'[t2] = tab[t2]
  /\ op'[t2].do \in {"none", "set"} /\ op'[t2].save \subseteq {v1}
  /\ op'[t2].do = "set" => op'[t2].key = k1

\* The keys of one database.  v2 comes second, from the first browser, whose
\* list rests while it waits; a list that shows keys is not loaded again.  The
\* time to live is 1 or none for v1, 0 or none for v2, and a request other than
\* a save does not fail.
KeysFocus ==
  /\ SecondSaves
  /\ op'[t1].save \subseteq {v2}
  /\ op'[t1].save # {} => saved[v1].state # "unborn"
  /\ saved'[v1].ttl # 0 /\ saved'[v2].ttl # 1
  /\ tab'[t1].db = n0
  /\ tab[t1].loads = {} /\ tab'[t1].loads # {} => tab[t1].keys = {}
  /\ \A t \in Tabs : op'[t].at = "failed" => op'[t].do = "set"
  /\ op[t1].do # "none" => tab'[t1] = tab[t1] \/ op'[t1].do = "none"

\* A browser between two databases; one string is saved, for good.
TabsFocus ==
  /\ SecondSaves
  /\ op'[t1].save = {}
  /\ saved'[v1].type \in {"none", "string"} /\ saved'[v1].ttl = -1

\* Two disks, where formats and unmounts follow a failure, or one disk.
DrivesFocus ==
  failed => target = NoDisk /\ \A r \in Reqs : req'[r].do \in {"none", "format", "unmount", req[r].do}
DiskFocus == \A r \in Reqs : req'[r].device \in {d1, NoDisk}

MCInit ==
  /\ focus \in {"ports", "files", "sftp", "avatars", "icons", "keys", "tabs", "drives", "disk", "config"}
  /\ PortsInit
  /\ focus # "ports" => backend = "ufw" /\ rules[1] = Others /\ rules[2].port \in ByHand
  /\ FilesInit /\ SftpInit /\ ImagesInit
  /\ RedisInit /\ tab[t1].db = n0
  /\ DrivesInit /\ \A d \in Disks : fs[d].made \/ focus = "drives" \/ (focus = "disk" /\ d = d1)
  /\ IF focus = "config" THEN ConfigInit
     ELSE parser = "file" /\ config = <<>> /\ replace = [w \in {1} |-> 1]

MCNext ==
  \/ focus = "ports" /\ PortsNext /\ PortsFocus /\ Rest("ports")
  \/ focus = "files" /\ FilesNext /\ FilesFocus /\ Rest("files")
  \/ focus = "sftp" /\ SftpNext /\ Rest("sftp")
  \/ focus \in {"avatars", "icons"} /\ ImagesNext /\ ImagesFocus /\ Rest(focus)
  \/ focus = "keys" /\ RedisNext /\ KeysFocus /\ Rest("keys")
  \/ focus = "tabs" /\ RedisNext /\ TabsFocus /\ Rest("tabs")
  \/ focus = "drives" /\ DrivesNext /\ DrivesFocus /\ Rest("drives")
  \/ focus = "disk" /\ DrivesNext /\ DiskFocus /\ Rest("disk")
  \/ focus = "config" /\ ConfigNext /\ Rest("config")

MCSpec ==
  MCInit /\ [][MCNext]_<<portsVars, filesVars, sftpVars, imagesVars, redisVars, drivesVars, configVars, focus>>
=============================================================================
