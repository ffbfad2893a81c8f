----------------------------- MODULE BoxProofs -----------------------------
(***************************************************************************)
(* Theorems about what a box keeps beside its servers, Drives, SftpSessions, *)
(* Files and ConfigFiles, for any disks, servers, users, contents, requests  *)
(* and replacements.                                                        *)
(***************************************************************************)
EXTENDS Drives, SftpSessions, Files, ConfigFiles, FiniteSetTheorems, SequenceTheorems, TLAPS

(***************************************************************************)
(* Drives: the last of some places, lists of a set, removing an element.    *)
(***************************************************************************)
LEMMA MaxOfIndices ==
  ASSUME NEW n \in Nat, NEW I \in SUBSET (1..n), I # {}
  PROVE  Max(I) \in I /\ \A i \in I : i <= Max(I)
<1> DEFINE J == {n - i : i \in I}
           R == {p \in Nat \X Nat : p[1] < p[2]}
<1>1. IsWellFoundedOn(R, Nat)
  BY NatLessThanWellFounded DEF OpToRel
<1>2. J \subseteq Nat /\ J # {}
  <2>1. \A i \in I : n - i \in Nat
    OBVIOUS
  <2> QED BY <2>1
<1>3. PICK x \in J : \A y \in J : ~ (<<y, x>> \in R)
  <2> HIDE DEF J, R
  <2> QED BY <1>1, <1>2, WFMin
<1>4. PICK i \in I : x = n - i
  OBVIOUS
<1>5. ASSUME NEW y \in I  PROVE i >= y
  <2>1. n - y \in J /\ n - y \in Nat /\ n - i \in Nat
    OBVIOUS
  <2>2. ~(n - y < n - i)
    BY <1>3, <1>4, <2>1
  <2> QED BY <2>1, <2>2
<1>6. \E m \in I : \A y \in I : m >= y
  BY <1>5
<1> QED BY <1>6 DEF Max

LEMMA SeqsCover ==
  ASSUME NEW S, IsFiniteSet(S), NEW s \in SetToSeqs(S)
  PROVE  /\ s \in Seq(S)
         /\ \A x \in S : \E i \in 1..Len(s) : s[i] = x
<1> DEFINE D == 1..Cardinality(S)
<1>1. s \in [D -> S] /\ Cardinality(S) \in Nat /\ \A i, j \in D : i # j => s[i] # s[j]
  BY FS_CardinalityType DEF SetToSeqs
<1>2. s \in Seq(S) /\ Len(s) = Cardinality(S)
  BY <1>1
<1>3. s \in Injection(D, S) /\ IsFiniteSet(D) /\ Cardinality(D) = Cardinality(S)
  <2>1. s \in Injection(D, S)
    BY <1>1 DEF Injection, IsInjective
  <2>2. IsFiniteSet(D) /\ Cardinality(D) = Cardinality(S)
    BY <1>1, FS_Interval
  <2> QED BY <2>1, <2>2
<1>4. s \in Surjection(D, S)
  BY <1>3, FS_Injection
<1> QED BY <1>2, <1>4 DEF Surjection

\* The sequence without one of its elements has the others.
LEMMA RemoveAtKeeps ==
  ASSUME NEW S, NEW s \in Seq(S), NEW k \in 1..Len(s)
  PROVE  /\ RemoveAt(s, k) \in Seq(S)
         /\ \A i \in 1..Len(s) : i # k => \E j \in 1..Len(RemoveAt(s, k)) : RemoveAt(s, k)[j] = s[i]
<1> DEFINE a == SubSeq(s, 1, k - 1)
           b == SubSeq(s, k + 1, Len(s))
<1>1. /\ a \in Seq(S) /\ Len(a) = k - 1
      /\ \A i \in 1..k - 1 : a[i] = s[i]
  <2>1. \A i \in 1..k - 1 : s[i] \in S
    OBVIOUS
  <2>2. /\ SubSeq(s, 1, k - 1) \in Seq(S) /\ Len(SubSeq(s, 1, k - 1)) = IF 1 <= k - 1 THEN k - 1 - 1 + 1 ELSE 0
        /\ \A i \in 1..(k - 1 - 1 + 1) : SubSeq(s, 1, k - 1)[i] = s[1 + i - 1]
    BY <2>1, SubSeqProperties
  <2> QED BY <2>2
<1>2. /\ b \in Seq(S) /\ Len(b) = Len(s) - k
      /\ \A i \in 1..Len(s) - k : b[i] = s[k + i]
  <2>1. \A i \in k + 1..Len(s) : s[i] \in S
    OBVIOUS
  <2>2. /\ SubSeq(s, k + 1, Len(s)) \in Seq(S)
        /\ Len(SubSeq(s, k + 1, Len(s))) = IF k + 1 <= Len(s) THEN Len(s) - (k + 1) + 1 ELSE 0
        /\ \A i \in 1..(Len(s) - (k + 1) + 1) : SubSeq(s, k + 1, Len(s))[i] = s[k + 1 + i - 1]
    BY <2>1, SubSeqProperties
  <2> QED BY <2>2
<1>3. RemoveAt(s, k) = a \o b
  BY DEF RemoveAt
<1> HIDE DEF a, b
<1>4. /\ RemoveAt(s, k) \in Seq(S) /\ Len(RemoveAt(s, k)) = Len(s) - 1
      /\ \A i \in 1..Len(s) - 1 : RemoveAt(s, k)[i] = IF i <= k - 1 THEN a[i] ELSE b[i - (k - 1)]
  <2>1. /\ a \o b \in Seq(S) /\ Len(a \o b) = Len(a) + Len(b)
        /\ \A i \in 1..Len(a) + Len(b) : (a \o b)[i] = IF i <= Len(a) THEN a[i] ELSE b[i - Len(a)]
    BY <1>1, <1>2, ConcatProperties
  <2> QED BY <1>1, <1>2, <1>3, <2>1
<1>5. ASSUME NEW i \in 1..Len(s), i # k
      PROVE  \E j \in 1..Len(RemoveAt(s, k)) : RemoveAt(s, k)[j] = s[i]
  <2>1. CASE i < k
    <3>1. i \in 1..Len(s) - 1 /\ i \in 1..k - 1 /\ i <= k - 1
      BY <2>1
    <3>2. RemoveAt(s, k)[i] = s[i]
      BY <1>1, <1>4, <3>1
    <3> QED BY <1>4, <3>1, <3>2
  <2>2. CASE k < i
    <3>1. i - 1 \in 1..Len(s) - 1 /\ ~(i - 1 <= k - 1) /\ i - 1 - (k - 1) = i - k /\ i - k \in 1..Len(s) - k
          /\ k + (i - k) = i
      BY <2>2
    <3>2. RemoveAt(s, k)[i - 1] = s[i]
      BY <1>2, <1>4, <3>1
    <3> QED BY <1>4, <3>1, <3>2
  <2> QED BY <1>5, <2>1, <2>2
<1> QED BY <1>4, <1>5

\* What is mounted, and where the latest mount of a disk is.
LEMMA OfDriveFits ==
  ASSUME DrivesTypeOK, NEW d, IsMounted(d)
  PROVE  /\ OfDrive(d) \in 1..Len(mounts)
         /\ mounts[OfDrive(d)].drive = d /\ PrimaryMount(d) = mounts[OfDrive(d)].at
<1> DEFINE I == {i \in 1..Len(mounts) : mounts[i].drive = d}
<1>1. OfDrive(d) = IF I # {} THEN Max(I) ELSE 0
  BY DEF OfDrive, SelectLastInSeq
<1>2. Len(mounts) \in Nat /\ I \in SUBSET (1..Len(mounts)) /\ I # {}
  BY <1>1 DEF IsMounted, DrivesTypeOK
<1>3. Max(I) \in I
  <2> HIDE DEF I
  <2> QED BY <1>2, MaxOfIndices
<1> QED BY <1>1, <1>2, <1>3 DEF PrimaryMount

LEMMA MountedIsMounted ==
  ASSUME DrivesTypeOK, NEW i \in 1..Len(mounts)
  PROVE  IsMounted(mounts[i].drive)
<1> DEFINE I == {j \in 1..Len(mounts) : mounts[j].drive = mounts[i].drive}
<1>1. OfDrive(mounts[i].drive) = IF I # {} THEN Max(I) ELSE 0
  BY DEF OfDrive, SelectLastInSeq
<1>2. Len(mounts) \in Nat /\ I \in SUBSET (1..Len(mounts)) /\ I # {}
  BY DEF DrivesTypeOK
<1>3. Max(I) \in I
  <2> HIDE DEF I
  <2> QED BY <1>2, MaxOfIndices
<1> QED BY <1>1, <1>2, <1>3 DEF IsMounted

LEMMA ResolveFits ==
  ASSUME DrivesTypeOK, NEW p
  PROVE  Resolve(p) \in Mounted
<1> DEFINE I == {i \in 1..Len(mounts) : mounts[i].at = p}
<1>1. OnPoint(p) = IF I # {} THEN Max(I) ELSE 0
  BY DEF OnPoint, SelectLastInSeq
<1>2. Len(mounts) \in Nat /\ I \in SUBSET (1..Len(mounts))
  BY DEF DrivesTypeOK
<1>3. I # {} => Max(I) \in I
  <2> HIDE DEF I
  <2> QED BY <1>2, MaxOfIndices
<1>4. CASE OnPoint(p) = 0
  BY <1>4 DEF Resolve, SystemMount, Mounted
<1>5. CASE OnPoint(p) # 0
  <2>1. OnPoint(p) \in 1..Len(mounts)
    BY <1>1, <1>2, <1>3, <1>5
  <2> QED BY <1>5, <2>1 DEF Resolve, DrivesTypeOK
<1> QED BY <1>4, <1>5

LEMMA PrimarySame ==
  ASSUME UNCHANGED mounts, NEW d
  PROVE  PrimaryMount(d)' = PrimaryMount(d)
<1> DEFINE I == {i \in 1..Len(mounts) : mounts[i].drive = d}
<1>1. OfDrive(d) = IF I # {} THEN Max(I) ELSE 0
  BY DEF OfDrive, SelectLastInSeq
<1>2. OfDrive(d)' = IF I' # {} THEN Max(I') ELSE 0
  BY DEF OfDrive, SelectLastInSeq
<1>3. I' = I
  OBVIOUS
<1>4. OfDrive(d)' = OfDrive(d)
  <2> HIDE DEF I
  <2> QED BY <1>1, <1>2, <1>3
<1> QED BY <1>4 DEF PrimaryMount, IsMounted

(***************************************************************************)
(* The inductive invariant.                                                 *)
(***************************************************************************)
\* The steps that each kind of request has, and what it carries.
ReqFits(t) ==
  \/ t = NoReq
  \/ /\ t.do \in {"format", "mount"} /\ t.at \in {"mkfs", "mount", "read", "write"}
     /\ t.device \in Disks /\ t.point \in Points
  \/ t.do = "unmount" /\ t.at \in {"umount", "read", "write"} /\ t.device \in Disks
  \/ t.do = "target" /\ t.at \in {"config", "restart", "put"} /\ t.device \in Disks /\ t.point \in Points

\* The lines are finitely many: a boot mounts them in some order.
Finite == IsFiniteSet(fstab) /\ \A r \in Reqs : IsFiniteSet(req[r].copy)
ReqsFit == \A r \in Reqs : ReqFits(req[r])

\* Of the requests, only this one is under way.
Alone(r) == \A q \in Reqs \ {r} : req[q] = NoReq
OneByOne == \A r \in Reqs : req[r] # NoReq => Alone(r)

\* Every line of fstab that no unmount left is mounted where it says, but for the
\* lines an unmount that has unmounted has still to take out.
IsAt(d, p) == \E i \in 1..Len(mounts) : mounts[i] = [drive |-> d, at |-> p]
Clearing(r) == req[r].do = "unmount" /\ req[r].at \in {"read", "write"}
LinesMounted ==
  \A l \in fstab \ left : IsAt(l.drive, l.at) \/ \E r \in Reqs : Clearing(r) /\ req[r].point = l.at

\* What a request relies on, as long as it is the only one.
Relies(r) ==
  /\ req[r].at = "umount" => req[r].point = PrimaryMount(req[r].device)
  /\ req[r].at \in {"read", "write"} /\ ~Clearing(r)
       => IsAt(req[r].device, req[r].point) /\ fs[req[r].device].made
  /\ req[r].at = "write" => req[r].copy = fstab

Orderly ==
  /\ OneByOne
  /\ \A l \in fstab \ left : Named(l)
  /\ LinesMounted
  /\ \A r \in Reqs : Relies(r)

\* The order holds as long as no two requests overlapped.
DrivesInv == DrivesTypeOK /\ Finite /\ ReqsFit /\ (~overlapped => Orderly)

\* Types: what each action keeps, whether or not requests overlap.
LEMMA BeginFits ==
  ASSUME DrivesInv, NEW r \in Reqs, NEW d \in Disks, NEW p \in Points \cup {NoDisk}, NEW do, NEW at,
         Begin(r, do, d, at, p), ReqFits([do |-> do, at |-> at, device |-> d, point |-> p, copy |-> {}]),
         do \in {"format", "mount", "unmount", "target"},
         at \in {"mkfs", "mount", "umount", "config"}
  PROVE  DrivesTypeOK' /\ Finite' /\ ReqsFit'
<1> DEFINE t == [do |-> do, at |-> at, device |-> d, point |-> p, copy |-> {}]
<1>1. t \in Req /\ t.copy = {}
  BY DEF Req
<1>2. req' = [req EXCEPT ![r] = t]
  BY DEF Begin
<1> HIDE DEF t
<1>3. DrivesTypeOK'
  BY <1>1, <1>2 DEF DrivesInv, DrivesTypeOK, Begin
<1>4. Finite'
  BY <1>1, <1>2, FS_EmptySet DEF DrivesInv, DrivesTypeOK, Finite, Begin
<1>5. ReqsFit'
  BY <1>1, <1>2 DEF DrivesInv, DrivesTypeOK, ReqsFit, t
<1> QED BY <1>3, <1>4, <1>5

LEMMA PrimaryFits ==
  ASSUME DrivesTypeOK, NEW d \in Disks, ~IsSystem(d)
  PROVE  PrimaryMount(d) \in Points \cup {NoDisk} /\ (IsMounted(d) => PrimaryMount(d) \in Points)
<1>1. CASE IsMounted(d)
  <2>1. mounts[OfDrive(d)] \in Mounted /\ mounts[OfDrive(d)].at # Root
    BY <1>1, OfDriveFits DEF IsSystem, DrivesTypeOK
  <2> QED BY <1>1, <2>1, OfDriveFits DEF Mounted
<1>2. CASE ~IsMounted(d)
  BY <1>2 DEF PrimaryMount
<1> QED BY <1>1, <1>2

LEMMA MountsOf ==
  ASSUME NEW f \in SUBSET Line, IsFiniteSet(f),
         NEW s \in SetToSeqs({[drive |-> l.drive, at |-> l.at] : l \in f})
  PROVE  /\ <<SystemMount>> \o s \in Seq(Mounted)
         /\ \A l \in f : \E i \in 1..Len(<<SystemMount>> \o s) :
              (<<SystemMount>> \o s)[i] = [drive |-> l.drive, at |-> l.at]
<1> DEFINE S == {[drive |-> l.drive, at |-> l.at] : l \in f}
<1>1. IsFiniteSet(S)
  <2> DEFINE g == [l \in f |-> [drive |-> l.drive, at |-> l.at]]
  <2>1. g \in Surjection(f, S)
    BY DEF Surjection
  <2> HIDE DEF g, S
  <2> QED BY <2>1, FS_Surjection
<1>2. S \subseteq Mounted
  BY DEF Line, Mounted
<1>3. s \in Seq(S) /\ \A x \in S : \E i \in 1..Len(s) : s[i] = x
  <2>1. s \in SetToSeqs(S)
    OBVIOUS
  <2> HIDE DEF S
  <2> QED BY <1>1, <2>1, SeqsCover
<1>4. s \in Seq(Mounted)
  BY <1>2, <1>3, SeqMonotonic
<1>5. <<SystemMount>> \in Seq(Mounted) /\ Len(<<SystemMount>>) = 1
  BY DEF SystemMount, Mounted
<1>6. /\ <<SystemMount>> \o s \in Seq(Mounted) /\ Len(<<SystemMount>> \o s) = 1 + Len(s)
      /\ \A i \in 1..1 + Len(s) : (<<SystemMount>> \o s)[i] = IF i <= 1 THEN <<SystemMount>>[i] ELSE s[i - 1]
  BY <1>4, <1>5, ConcatProperties
<1>7. ASSUME NEW l \in f
      PROVE  \E i \in 1..Len(<<SystemMount>> \o s) :
               (<<SystemMount>> \o s)[i] = [drive |-> l.drive, at |-> l.at]
  <2>1. PICK i \in 1..Len(s) : s[i] = [drive |-> l.drive, at |-> l.at]
    BY <1>3
  <2>2. i + 1 \in 1..1 + Len(s) /\ ~(i + 1 <= 1) /\ i + 1 - 1 = i
    BY <1>4
  <2>3. (<<SystemMount>> \o s)[i + 1] = s[i]
    BY <1>6, <2>2
  <2> QED BY <1>6, <2>1, <2>2, <2>3
<1> QED BY <1>6, <1>7

\* A request goes on or ends.
LEMMA GoesOnFits ==
  ASSUME DrivesInv, NEW r \in Reqs,
         \/ Finishes(r)
         \/ \E at \in {"mount", "read", "restart", "put"} :
              GoesOn(r, at) /\ ReqFits([req[r] EXCEPT !.at = at])
  PROVE  /\ req' \in [Reqs -> Req] /\ ReqsFit' /\ \A q \in Reqs : IsFiniteSet(req'[q].copy)
         /\ \A q \in Reqs \ {r} : req'[q] = req[q]
<1>1. PICK t : /\ req' = [req EXCEPT ![r] = t] /\ t \in Req /\ ReqFits(t) /\ IsFiniteSet(t.copy)
  <2>1. CASE Finishes(r)
    <3>1. NoReq \in Req /\ ReqFits(NoReq) /\ IsFiniteSet(NoReq.copy)
      BY FS_EmptySet DEF NoReq, Req, ReqFits
    <3> QED BY <2>1, <3>1 DEF Finishes
  <2>2. ASSUME NEW at \in {"mount", "read", "restart", "put"}, GoesOn(r, at), ReqFits([req[r] EXCEPT !.at = at])
        PROVE  \E t : req' = [req EXCEPT ![r] = t] /\ t \in Req /\ ReqFits(t) /\ IsFiniteSet(t.copy)
    <3>1. [req[r] EXCEPT !.at = at] \in Req /\ [req[r] EXCEPT !.at = at].copy = req[r].copy
      BY DEF DrivesInv, DrivesTypeOK, Req
    <3>2. IsFiniteSet([req[r] EXCEPT !.at = at].copy)
      BY <3>1 DEF DrivesInv, Finite
    <3> QED BY <2>2, <3>1, <3>2 DEF GoesOn
  <2> QED BY <2>1, <2>2
<1>2. \A q \in Reqs : req'[q] = IF q = r THEN t ELSE req[q]
  BY <1>1 DEF DrivesInv, DrivesTypeOK
<1> QED BY <1>1, <1>2 DEF DrivesInv, DrivesTypeOK, ReqsFit, ReqFits, Finite, NoReq

LEMMA LeavesFits ==
  ASSUME NEW r, NEW lines \in SUBSET Line
  PROVE  Leaves(r, lines) \in SUBSET Line
BY DEF Leaves

LEMMA DrivesTypeStep ==
  ASSUME DrivesInv, [DrivesNext]_drivesVars
  PROVE  DrivesTypeOK' /\ Finite' /\ ReqsFit'
<1> USE DrivesAssumption
<1>1. DrivesTypeOK /\ Finite /\ \A r \in Reqs : ReqFits(req[r]) /\ req[r] \in Req
  BY DEF DrivesInv, DrivesTypeOK, ReqsFit
<1>2. ASSUME NEW r \in Reqs, NEW d \in Disks, NEW p \in Points, Format(r, d, p) \/ Mount(r, d, p)
      PROVE  DrivesTypeOK' /\ Finite' /\ ReqsFit'
  BY <1>2, BeginFits DEF Format, Mount, ReqFits
<1>3. ASSUME NEW r \in Reqs, NEW d \in Disks, Unmount(r, d)
      PROVE  DrivesTypeOK' /\ Finite' /\ ReqsFit'
  <2>1. PICK p \in Points \cup {NoDisk} : p = PrimaryMount(d)
    BY <1>1, <1>3, PrimaryFits DEF Unmount, Begin
  <2> QED BY <1>3, <2>1, BeginFits DEF Unmount, ReqFits
<1>4. ASSUME NEW r \in Reqs, NEW d \in Disks, SetDataTarget(r, d)
      PROVE  DrivesTypeOK' /\ Finite' /\ ReqsFit'
  <2>1. PICK p \in Points : p = PrimaryMount(d)
    BY <1>1, <1>4, PrimaryFits DEF SetDataTarget, Begin
  <2> QED BY <1>4, <2>1, BeginFits DEF SetDataTarget, ReqFits
<1>5. ASSUME NEW r \in Reqs, Mkfs(r)  PROVE DrivesTypeOK' /\ Finite' /\ ReqsFit'
  <2>1. fs' \in [Disks -> Filesystem]
    <3>1. req[r].device \in Disks
      BY <1>1, <1>5 DEF Mkfs, ReqFits, NoReq
    <3>2. fs[req[r].device] \in Filesystem
      BY <1>1, <3>1 DEF DrivesTypeOK
    <3>3. fs[req[r].device].uuid + 1 \in 0..MaxFormats
      BY <1>5, <3>2 DEF Mkfs, Filesystem
    <3>4. PICK made \in BOOLEAN :
            fs' = [fs EXCEPT ![req[r].device] = [uuid |-> @.uuid + 1, made |-> made]]
      BY <1>5 DEF Mkfs
    <3>5. [uuid |-> fs[req[r].device].uuid + 1, made |-> made] \in Filesystem
      BY <3>3 DEF Filesystem
    <3> QED BY <1>1, <3>4, <3>5 DEF DrivesTypeOK
  <2>2. ReqFits([req[r] EXCEPT !.at = "mount"])
    BY <1>1, <1>5 DEF Mkfs, ReqFits, NoReq, Req
  <2>3. req' \in [Reqs -> Req] /\ ReqsFit' /\ \A q \in Reqs : IsFiniteSet(req'[q].copy)
    BY <1>5, <2>2, GoesOnFits DEF Mkfs
  <2> QED BY <1>1, <1>5, <2>1, <2>3 DEF Mkfs, DrivesTypeOK, Finite
<1>6. ASSUME NEW r \in Reqs, MountDrive(r)  PROVE DrivesTypeOK' /\ Finite' /\ ReqsFit'
  <2>1. ReqFits([req[r] EXCEPT !.at = "read"]) /\ req[r].device \in Disks /\ req[r].point \in Points
    BY <1>1, <1>6 DEF MountDrive, ReqFits, NoReq, Req
  <2>2. mounts' \in Seq(Mounted)
    <3>1. [drive |-> req[r].device, at |-> req[r].point] \in Mounted
      BY <2>1 DEF Mounted
    <3> QED BY <1>1, <1>6, <3>1, AppendProperties DEF MountDrive, DrivesTypeOK
  <2>3. req' \in [Reqs -> Req] /\ ReqsFit' /\ \A q \in Reqs : IsFiniteSet(req'[q].copy)
    BY <1>6, <2>1, GoesOnFits DEF MountDrive
  <2> QED BY <1>1, <1>6, <2>2, <2>3 DEF MountDrive, DrivesTypeOK, Finite
<1>7. ASSUME NEW r \in Reqs, Umount(r)  PROVE DrivesTypeOK' /\ Finite' /\ ReqsFit'
  <2>1. ReqFits([req[r] EXCEPT !.at = "read"])
    BY <1>1, <1>7 DEF Umount, ReqFits, NoReq, Req
  <2>2. mounts' \in Seq(Mounted)
    BY <1>1, <1>7, OfDriveFits, RemoveAtKeeps DEF Umount, DrivesTypeOK
  <2>3. req' \in [Reqs -> Req] /\ ReqsFit' /\ \A q \in Reqs : IsFiniteSet(req'[q].copy)
    BY <1>7, <2>1, GoesOnFits DEF Umount
  <2>4. left' \in SUBSET Line /\ failed' \in BOOLEAN
    BY <1>1, <1>7, LeavesFits DEF Umount, DrivesTypeOK
  <2> QED BY <1>1, <1>7, <2>2, <2>3, <2>4 DEF Umount, DrivesTypeOK, Finite
<1>8. ASSUME NEW r \in Reqs, ReadFstab(r)  PROVE DrivesTypeOK' /\ Finite' /\ ReqsFit'
  <2>1. PICK t : req' = [req EXCEPT ![r] = t] /\ t = [req[r] EXCEPT !.at = "write", !.copy = fstab]
    BY <1>1, <1>8 DEF ReadFstab, DrivesTypeOK
  <2>2. /\ t.do = req[r].do /\ t.at = "write" /\ t.device = req[r].device /\ t.point = req[r].point
        /\ t.copy = fstab /\ t \in Req
    BY <1>1, <2>1 DEF Req, DrivesTypeOK
  <2>3. ReqFits(t)
    BY <1>1, <1>8, <2>2 DEF ReadFstab, ReqFits, NoReq
  <2>4. req' \in [Reqs -> Req] /\ \A q \in Reqs : req'[q] = IF q = r THEN t ELSE req[q]
    BY <1>1, <2>1, <2>2 DEF DrivesTypeOK
  <2>5. DrivesTypeOK'
    BY <1>1, <1>8, <2>4 DEF ReadFstab, DrivesTypeOK
  <2>6. Finite' /\ ReqsFit'
    BY <1>1, <1>8, <2>2, <2>3, <2>4 DEF ReadFstab, Finite, ReqsFit, ReqFits, NoReq
  <2> QED BY <2>5, <2>6
<1>9. ASSUME NEW r \in Reqs, WriteFstab(r)  PROVE DrivesTypeOK' /\ Finite' /\ ReqsFit'
  <2>1. req' \in [Reqs -> Req] /\ ReqsFit' /\ \A q \in Reqs : IsFiniteSet(req'[q].copy)
    BY <1>9, GoesOnFits DEF WriteFstab
  <2>2. Added(r) \in SUBSET Line /\ IsFiniteSet(Added(r))
    <3>1. CASE req[r].do = "unmount"
      BY <3>1, FS_EmptySet DEF Added
    <3>2. CASE req[r].do # "unmount"
      <4>1. req[r].device \in Disks /\ req[r].point \in Points
        BY <1>1, <1>9, <3>2 DEF WriteFstab, ReqFits, NoReq
      <4>2. fs[req[r].device].uuid \in 0..MaxFormats
        BY <1>1, <4>1 DEF DrivesTypeOK, Filesystem
      <4>3. PICK x \in Line : Added(r) = {x}
        BY <3>2, <4>1, <4>2 DEF Added, Line
      <4> QED BY <4>3, FS_Singleton
    <3> QED BY <3>1, <3>2
  <2>3. Kept(req[r].copy, req[r].point) \in SUBSET Line /\ IsFiniteSet(Kept(req[r].copy, req[r].point))
    <3>1. Kept(req[r].copy, req[r].point) \in SUBSET req[r].copy
      BY DEF Kept
    <3> QED BY <1>1, <3>1, FS_Subset DEF Finite, Req
  <2>4. fstab' \in SUBSET Line /\ IsFiniteSet(fstab')
    <3> DEFINE new == Kept(req[r].copy, req[r].point) \cup Added(r)
    <3>1. IsFiniteSet(new) /\ new \in SUBSET Line
      BY <2>2, <2>3, FS_Union
    <3>2. fstab' \in SUBSET new \/ fstab' = fstab
      BY <1>9 DEF WriteFstab
    <3> HIDE DEF new
    <3>3. CASE fstab' \in SUBSET new
      BY <3>1, <3>3, FS_Subset
    <3>4. CASE fstab' = fstab
      BY <1>1, <3>4 DEF DrivesTypeOK, Finite
    <3> QED BY <3>2, <3>3, <3>4
  <2>5. left' \in SUBSET Line /\ failed' \in BOOLEAN
    <3>1. left' \in SUBSET (left \cup Leaves(r, fstab'))
      BY <1>9 DEF WriteFstab
    <3> QED BY <1>1, <1>9, <2>4, <3>1, LeavesFits DEF WriteFstab, DrivesTypeOK
  <2> QED BY <1>1, <1>9, <2>1, <2>4, <2>5 DEF WriteFstab, DrivesTypeOK, Finite
<1>10. ASSUME NEW r \in Reqs, SetDockerDataRoot(r)  PROVE DrivesTypeOK' /\ Finite' /\ ReqsFit'
  <2>1. ReqFits([req[r] EXCEPT !.at = "restart"]) /\ req[r].point \in Points
    BY <1>1, <1>10 DEF SetDockerDataRoot, ReqFits, NoReq, Req
  <2>2. req' \in [Reqs -> Req] /\ ReqsFit' /\ \A q \in Reqs : IsFiniteSet(req'[q].copy)
    BY <1>10, <2>1, GoesOnFits DEF SetDockerDataRoot
  <2> QED BY <1>1, <1>10, <2>1, <2>2 DEF SetDockerDataRoot, DrivesTypeOK, Finite
<1>11. ASSUME NEW r \in Reqs, RestartDocker(r)  PROVE DrivesTypeOK' /\ Finite' /\ ReqsFit'
  <2>1. ReqFits([req[r] EXCEPT !.at = "put"])
    BY <1>1, <1>11 DEF RestartDocker, ReqFits, NoReq, Req
  <2>2. req' \in [Reqs -> Req] /\ ReqsFit' /\ \A q \in Reqs : IsFiniteSet(req'[q].copy)
    BY <1>11, <2>1, GoesOnFits DEF RestartDocker
  <2> QED BY <1>1, <1>11, <2>1, <2>2, ResolveFits DEF RestartDocker, DrivesTypeOK, Finite
<1>12. ASSUME NEW r \in Reqs, PutDataTarget(r) \/ ToolFails(r)  PROVE DrivesTypeOK' /\ Finite' /\ ReqsFit'
  <2>1. req' \in [Reqs -> Req] /\ ReqsFit' /\ \A q \in Reqs : IsFiniteSet(req'[q].copy)
    BY <1>12, GoesOnFits DEF PutDataTarget, ToolFails
  <2>2. left' \in SUBSET Line
    BY <1>1, <1>12, LeavesFits DEF PutDataTarget, ToolFails, DrivesTypeOK
  <2>3. failed' \in BOOLEAN
    BY <1>1, <1>12 DEF PutDataTarget, ToolFails, DrivesTypeOK
  <2> QED BY <1>1, <1>12, <2>1, <2>2, <2>3 DEF PutDataTarget, ToolFails, DrivesTypeOK, Finite, Req
<1>13. CASE DockerStops \/ DockerStarts
  BY <1>1, <1>13, ResolveFits DEF DockerStops, DockerStarts, DrivesTypeOK, Finite, ReqsFit, ReqFits, NoReq
<1>14. CASE Reboot
  <2>1. mounts' \in Seq(Mounted)
    BY <1>1, <1>14, MountsOf DEF Reboot, Boots, DrivesTypeOK, Finite
  <2>2. engine' \in Mounted \cup {Down}
    <3>1. ASSUME NEW l \in fstab, l.at = dataRoot
          PROVE  [drive |-> (CHOOSE k \in fstab : k.at = dataRoot).drive, at |-> dataRoot] \in Mounted
      <4>1. (CHOOSE k \in fstab : k.at = dataRoot) \in fstab
        BY <3>1
      <4> QED BY <1>1, <4>1 DEF DrivesTypeOK, Mounted, Line
    <3> QED BY <1>14, <3>1 DEF Reboot, Mounted, SystemMount
  <2>3. NoReq \in Req /\ IsFiniteSet(NoReq.copy)
    BY FS_EmptySet DEF NoReq, Req
  <2>4. req' = [r \in Reqs |-> NoReq] /\ UNCHANGED <<fs, fstab, dataRoot, target, overlapped, failed, left>>
    BY <1>14 DEF Reboot
  <2> QED BY <1>1, <2>1, <2>2, <2>3, <2>4 DEF DrivesTypeOK, Finite, ReqsFit, ReqFits
<1>15. CASE UNCHANGED drivesVars
  BY <1>1, <1>15 DEF drivesVars, DrivesTypeOK, Finite, ReqsFit, ReqFits, NoReq
<1> QED
  BY <1>2, <1>3, <1>4, <1>5, <1>6, <1>7, <1>8, <1>9, <1>10, <1>11, <1>12, <1>13, <1>14, <1>15 DEF DrivesNext

LEMMA SameMounts ==
  ASSUME UNCHANGED mounts
  PROVE  \A d, p : IsAt(d, p)' <=> IsAt(d, p)
BY DEF IsAt

LEMMA SameNames ==
  ASSUME UNCHANGED fs
  PROVE  \A l : Named(l)' <=> Named(l)
BY DEF Named

\* What is left to show when one request is the only one after a step.
LEMMA OrderlyIfAlone ==
  ASSUME NEW r \in Reqs, Alone(r)', Relies(r)', \A l \in (fstab \ left)' : Named(l)', LinesMounted'
  PROVE  Orderly'
<1>1. \A q \in Reqs : req'[q] # NoReq => q = r
  BY DEF Alone
<1>2. OneByOne'
  BY <1>1 DEF OneByOne, Alone
<1>3. ASSUME NEW q \in Reqs  PROVE Relies(q)'
  <2>1. CASE q = r
    BY <2>1
  <2>2. CASE q # r
    <3>1. req'[q].at = "idle"
      BY <1>1, <2>2 DEF NoReq
    <3> QED BY <3>1 DEF Relies
  <2> QED BY <2>1, <2>2
<1> QED BY <1>2, <1>3 DEF Orderly

\* Nothing is mounted, made or written: lines without a mount need a request
\* that is clearing them.
LEMMA QuietKeeps ==
  ASSUME DrivesInv, Orderly, NEW r \in Reqs, Alone(r), Alone(r)', ~Clearing(r), Relies(r)',
         UNCHANGED <<fs, mounts, fstab>>, left \subseteq left'
  PROVE  Orderly'
<1>1. \A l \in fstab \ left : IsAt(l.drive, l.at)
  <2>1. \A q \in Reqs : ~Clearing(q)
    BY DEF Alone, Clearing, NoReq
  <2> QED BY <2>1 DEF Orderly, LinesMounted
<1>2. LinesMounted'
  BY <1>1, SameMounts DEF LinesMounted
<1>3. \A l \in (fstab \ left)' : Named(l)'
  BY SameNames DEF Orderly
<1> QED BY <1>2, <1>3, OrderlyIfAlone

LEMMA OrderlyBegins ==
  ASSUME DrivesInv, NEW r \in Reqs, NEW d \in Disks, NEW p \in Points \cup {NoDisk}, NEW do, NEW at,
         Begin(r, do, d, at, p), at \in {"mkfs", "mount", "umount", "config"},
         at = "umount" => p = PrimaryMount(d), ~overlapped'
  PROVE  Orderly'
<1>1. Orderly /\ UNCHANGED <<fs, mounts, fstab, left>>
  BY DEF Begin, DrivesInv
<1>2. /\ req[r] = NoReq /\ Alone(r)
      /\ req' = [req EXCEPT ![r] = [do |-> do, at |-> at, device |-> d, point |-> p, copy |-> {}]]
  BY DEF Begin, Alone
<1>3. /\ req'[r] = [do |-> do, at |-> at, device |-> d, point |-> p, copy |-> {}]
      /\ \A q \in Reqs \ {r} : req'[q] = req[q]
  BY <1>2 DEF DrivesInv, DrivesTypeOK
<1>4. Alone(r)' /\ ~Clearing(r)
  BY <1>2, <1>3 DEF Alone, Clearing, NoReq
<1>5. Relies(r)'
  <2>1. req'[r].at = at /\ req'[r].point = p /\ req'[r].device = d
    BY <1>3
  <2>2. PrimaryMount(d)' = PrimaryMount(d)
    BY <1>1, PrimarySame
  <2> QED BY <2>1, <2>2 DEF Relies
<1> QED BY <1>1, <1>2, <1>4, <1>5, QuietKeeps

LEMMA OrderlyStep ==
  ASSUME DrivesInv, DrivesTypeOK', ReqsFit', [DrivesNext]_drivesVars, ~overlapped'
  PROVE  Orderly'
<1>1. ~overlapped /\ Orderly /\ DrivesTypeOK /\ Finite /\ \A r \in Reqs : ReqFits(req[r]) /\ req[r] \in Req
  <2>1. ~overlapped
    BY DEF DrivesNext, drivesVars, Format, Mount, Unmount, SetDataTarget, Begin, Mkfs,
         MountDrive, Umount, ReadFstab,
       WriteFstab, SetDockerDataRoot, RestartDocker, PutDataTarget, ToolFails, DockerStops, DockerStarts, Reboot
  <2> QED BY <2>1 DEF DrivesInv, DrivesTypeOK, ReqsFit
<1>2. ASSUME NEW r \in Reqs, NEW d \in Disks, NEW p \in Points, Format(r, d, p) \/ Mount(r, d, p)
      PROVE  Orderly'
  BY <1>2, OrderlyBegins DEF Format, Mount
<1>3. ASSUME NEW r \in Reqs, NEW d \in Disks, Unmount(r, d)  PROVE Orderly'
  <2>1. PICK p \in Points \cup {NoDisk} : p = PrimaryMount(d)
    BY <1>1, <1>3, PrimaryFits DEF Unmount, Begin
  <2> QED BY <1>3, <2>1, OrderlyBegins DEF Unmount
<1>4. ASSUME NEW r \in Reqs, NEW d \in Disks, SetDataTarget(r, d)  PROVE Orderly'
  <2>1. PICK p \in Points \cup {NoDisk} : p = PrimaryMount(d)
    BY <1>1, <1>4, PrimaryFits DEF SetDataTarget, Begin
  <2> QED BY <1>4, <2>1, OrderlyBegins DEF SetDataTarget
\* A request under way is the only one, and stays it.
<1>5. ASSUME NEW r \in Reqs, req[r] # NoReq, 
               \/ Finishes(r)
               \/ \E at \in {"mount", "read", "restart", "put"} : GoesOn(r, at)
                                             \/ ReadFstab(r)
      PROVE  Alone(r) /\ Alone(r)' /\ (~Clearing(r) => \A l \in fstab \ left : IsAt(l.drive, l.at))
  <2>1. Alone(r)
    BY <1>1, <1>5 DEF Orderly, OneByOne
  <2>2. \A q \in Reqs \ {r} : req'[q] = req[q]
    BY <1>1, <1>5 DEF Finishes, GoesOn, ReadFstab, DrivesTypeOK
  <2>3. ~Clearing(r) => \A q \in Reqs : ~Clearing(q)
    BY <2>1 DEF Alone, Clearing, NoReq
  <2> QED BY <1>1, <2>1, <2>2, <2>3 DEF Alone, Orderly, LinesMounted
<1>6. ASSUME NEW r \in Reqs, NEW at \in {"mount", "read", "restart", "put"}, GoesOn(r, at)
      PROVE  /\ req'[r].at = at /\ req'[r].do = req[r].do
              /\ req'[r].device = req[r].device /\ req'[r].point = req[r].point
  BY <1>1, <1>6 DEF GoesOn, DrivesTypeOK, Req
<1>7. ASSUME NEW r \in Reqs, Finishes(r)  PROVE Relies(r)'
  <2>1. req'[r].at = "idle"
    BY <1>1, <1>7 DEF Finishes, DrivesTypeOK, NoReq
  <2> QED BY <2>1 DEF Relies
<1>8. ASSUME NEW r \in Reqs, Mkfs(r)  PROVE Orderly'
  <2>1. req[r] # NoReq /\ ~Clearing(r)
    BY <1>8 DEF Mkfs, NoReq, Clearing
  <2>2. Alone(r)' /\ \A l \in fstab \ left : IsAt(l.drive, l.at)
    BY <1>5, <1>8, <2>1 DEF Mkfs
  <2>3. Relies(r)'
    BY <1>6, <1>7, <1>8 DEF Mkfs, Relies
  <2>4. ASSUME NEW l \in fstab \ left  PROVE Named(l)'
    <3>1. PICK i \in 1..Len(mounts) : mounts[i] = [drive |-> l.drive, at |-> l.at]
      BY <2>2 DEF IsAt
    <3>2. IsMounted(l.drive)
      BY <1>1, <3>1, MountedIsMounted
    <3>3. l.drive # req[r].device /\ l.drive \in Disks
      BY <1>1, <1>8, <3>2 DEF Mkfs, DrivesTypeOK, Line
    <3>4. fs'[l.drive] = fs[l.drive]
      BY <1>1, <1>8, <3>3 DEF Mkfs, DrivesTypeOK
    <3> QED BY <1>1, <3>4 DEF Orderly, Named
  <2>5. LinesMounted'
    BY <1>8, <2>2, SameMounts DEF Mkfs, LinesMounted
  <2> QED BY <1>8, <2>2, <2>3, <2>4, <2>5, OrderlyIfAlone DEF Mkfs
<1>9. ASSUME NEW r \in Reqs, MountDrive(r)  PROVE Orderly'
  <2> DEFINE m == [drive |-> req[r].device, at |-> req[r].point]
  <2>1. /\ req[r] # NoReq /\ ~Clearing(r) /\ UNCHANGED <<fs, fstab, left>>
        /\ GoesOn(r, "read") \/ Finishes(r)
    BY <1>9 DEF MountDrive, NoReq, Clearing
  <2>2. Alone(r)' /\ \A l \in fstab \ left : IsAt(l.drive, l.at)
    BY <1>5, <2>1
  <2>3. \A d, p : IsAt(d, p) \/ [drive |-> d, at |-> p] = m => IsAt(d, p)'
    <3>1. m \in Mounted
      BY <1>1, <1>9 DEF MountDrive, ReqFits, NoReq, Mounted
    <3>2. mounts' = Append(mounts, m) /\ mounts \in Seq(Mounted)
      BY <1>1, <1>9 DEF MountDrive, DrivesTypeOK
    <3> HIDE DEF m
    <3>3. /\ Len(mounts') = Len(mounts) + 1 /\ mounts'[Len(mounts) + 1] = m
          /\ \A i \in 1..Len(mounts) : mounts'[i] = mounts[i]
      BY <3>1, <3>2, AppendProperties
    <3> QED BY <3>2, <3>3 DEF IsAt
  <2>4. Relies(r)'
    <3>1. PICK d, p : d = req[r].device /\ p = req[r].point
      OBVIOUS
    <3>2. IsAt(d, p)' /\ fs'[d].made
      BY <1>9, <2>3, <3>1 DEF MountDrive
    <3>3. CASE GoesOn(r, "read")
      <4>1. req'[r].at = "read" /\ req'[r].device = d /\ req'[r].point = p
        BY <1>6, <3>1, <3>3
      <4> QED BY <3>2, <4>1 DEF Relies
    <3> QED BY <1>7, <2>1, <3>3
  <2>5. LinesMounted' /\ \A l \in (fstab \ left)' : Named(l)'
    BY <1>1, <2>1, <2>2, <2>3 DEF Orderly, LinesMounted, Named
  <2> QED BY <2>2, <2>4, <2>5, OrderlyIfAlone
<1>10. ASSUME NEW r \in Reqs, Umount(r)  PROVE Orderly'
  <2> DEFINE d == req[r].device
  <2>1. /\ req[r] # NoReq /\ ~Clearing(r) /\ UNCHANGED <<fs, fstab>>
        /\ \/ GoesOn(r, "read") /\ left' = left
           \/ Finishes(r) /\ left' = left \cup Leaves(r, fstab)
    BY <1>10 DEF Umount, NoReq, Clearing
  <2>2. Alone(r)' /\ \A l \in fstab \ left : IsAt(l.drive, l.at)
    BY <1>5, <2>1
  <2>3. req[r].do = "unmount" /\ req[r].point = PrimaryMount(req[r].device) /\ IsMounted(req[r].device)
    BY <1>1, <1>10 DEF Umount, ReqFits, NoReq, Orderly, Relies
  <2>4. GoesOn(r, "read") => Clearing(r)' /\ req'[r].point = req[r].point
    BY <1>6, <2>3 DEF Clearing
  <2>5. Relies(r)'
    BY <1>6, <1>7, <2>1, <2>4 DEF Relies
  <2>6. ASSUME NEW l \in fstab \ left, l.at # req[r].point  PROVE IsAt(l.drive, l.at)'
    <3>1. PICK i \in 1..Len(mounts) : mounts[i] = [drive |-> l.drive, at |-> l.at]
      BY <2>2 DEF IsAt
    <3>2. PICK k \in 1..Len(mounts) : k = OfDrive(req[r].device) /\ mounts[k].at = req[r].point
      BY <1>1, <2>3, OfDriveFits
    <3>3. i # k
      BY <2>6, <3>1, <3>2
    <3>4. mounts' = RemoveAt(mounts, k) /\ mounts \in Seq(Mounted)
      BY <1>1, <1>10, <3>2 DEF Umount, DrivesTypeOK
    <3>5. \E j \in 1..Len(mounts') : mounts'[j] = mounts[i]
      BY <3>3, <3>4, RemoveAtKeeps
    <3> QED BY <3>1, <3>5 DEF IsAt
  <2>7. LinesMounted'
    BY <2>1, <2>3, <2>4, <2>6 DEF LinesMounted, Leaves
  <2>8. \A l \in (fstab \ left)' : Named(l)'
    BY <1>1, <2>1, SameNames DEF Orderly
  <2> QED BY <2>2, <2>5, <2>7, <2>8, OrderlyIfAlone
<1>11. ASSUME NEW r \in Reqs, ReadFstab(r)  PROVE Orderly'
  <2>1. req[r] # NoReq /\ UNCHANGED <<fs, mounts, fstab, left>>
    BY <1>11 DEF ReadFstab, NoReq
  <2>2. Alone(r)'
    BY <1>5, <1>11, <2>1
  <2>3. /\ req'[r].at = "write" /\ req'[r].do = req[r].do /\ req'[r].device = req[r].device
        /\ req'[r].point = req[r].point /\ req'[r].copy = fstab
        /\ \A q \in Reqs \ {r} : req'[q] = req[q]
    BY <1>1, <1>11 DEF ReadFstab, DrivesTypeOK, Req
  <2>4. req[r].at = "read" /\ \A q \in Reqs : Clearing(q)' <=> Clearing(q)
    BY <1>11, <2>3 DEF ReadFstab, Clearing
  <2>5. Relies(r)'
    BY <1>1, <2>1, <2>3, <2>4, SameMounts DEF Orderly, Relies, Clearing
  <2>6. LinesMounted' /\ \A l \in (fstab \ left)' : Named(l)'
    BY <1>1, <2>1, <2>3, <2>4, SameMounts DEF Orderly, LinesMounted, Named
  <2> QED BY <2>2, <2>5, <2>6, OrderlyIfAlone
<1>12. ASSUME NEW r \in Reqs, WriteFstab(r)  PROVE Orderly'
  <2>1. /\ req[r] # NoReq /\ Finishes(r) /\ UNCHANGED <<fs, mounts>>
        /\ req[r].copy = fstab
    BY <1>1, <1>12 DEF WriteFstab, NoReq, Orderly, Relies
  <2>2. Alone(r)' /\ Alone(r) /\ Relies(r)'
    BY <1>5, <1>7, <2>1
  <2>3. ASSUME NEW l \in (fstab \ left)', l \notin Added(r)
        PROVE  l \in fstab \ left /\ (Clearing(r) => l.at # req[r].point)
    <3> DEFINE new == Kept(fstab, req[r].point) \cup Added(r)
    <3>1. \/ fstab' \in SUBSET new /\ left \ Added(r) \subseteq left'
          \/ fstab' = fstab /\ left' = left \cup Leaves(r, fstab)
      BY <1>12, <2>1 DEF WriteFstab
    <3> HIDE DEF new
    <3>2. CASE fstab' \in SUBSET new /\ left \ Added(r) \subseteq left'
      BY <2>3, <3>2 DEF new, Kept
    <3>3. CASE fstab' = fstab /\ left' = left \cup Leaves(r, fstab)
      BY <2>3, <3>3 DEF Leaves, Clearing
    <3> QED BY <3>1, <3>2, <3>3
  <2>4. ASSUME NEW l \in (fstab \ left)', l \notin Added(r)  PROVE Named(l)' /\ IsAt(l.drive, l.at)'
    <3>1. \A q \in Reqs : Clearing(q) => q = r
      BY <2>2 DEF Alone, Clearing, NoReq
    <3>2. IsAt(l.drive, l.at) /\ Named(l)
      BY <1>1, <2>3, <2>4, <3>1 DEF Orderly, LinesMounted
    <3> QED BY <2>1, <3>2, SameMounts DEF Named
  <2>5. ASSUME NEW l \in (fstab \ left)', l \in Added(r)  PROVE Named(l)' /\ IsAt(l.drive, l.at)'
    <3>1. /\ l = [drive |-> req[r].device, uuid |-> fs[req[r].device].uuid, at |-> req[r].point]
          /\ req[r].do # "unmount"
      BY <2>5 DEF Added
    <3>2. /\ IsAt(req[r].device, req[r].point) /\ fs[req[r].device].made /\ req[r].device \in Disks
      BY <1>1, <1>12, <3>1 DEF WriteFstab, Orderly, Relies, Clearing, ReqFits, NoReq
    <3>3. fs[req[r].device] \in Filesystem
      BY <1>1, <3>2 DEF DrivesTypeOK
    <3> QED BY <2>1, <3>1, <3>2, <3>3, SameMounts DEF Named, Filesystem
  <2>6. LinesMounted' /\ \A l \in (fstab \ left)' : Named(l)'
    BY <2>4, <2>5 DEF LinesMounted
  <2> QED BY <2>2, <2>6, OrderlyIfAlone
<1>13. ASSUME NEW r \in Reqs, SetDockerDataRoot(r) \/ RestartDocker(r) \/ PutDataTarget(r)
       PROVE  Orderly'
  <2>1. /\ req[r] # NoReq /\ ~Clearing(r) /\ UNCHANGED <<fs, mounts, fstab, left>>
        /\ Finishes(r) \/ \E at \in {"restart", "put"} : GoesOn(r, at)
    BY <1>13 DEF SetDockerDataRoot, RestartDocker, PutDataTarget, NoReq, Clearing
  <2>2. Relies(r)'
    BY <1>6, <1>7, <2>1 DEF Relies
  <2> QED BY <1>1, <1>5, <2>1, <2>2, QuietKeeps
<1>16. ASSUME NEW r \in Reqs, ToolFails(r)  PROVE Orderly'
  <2>1. /\ req[r] # NoReq /\ Finishes(r) /\ UNCHANGED <<fs, mounts, fstab>>
        /\ left \subseteq left' /\ (Clearing(r) => left' = left \cup Leaves(r, fstab))
    BY <1>16 DEF ToolFails, NoReq, Clearing
  <2>2. Alone(r)' /\ Alone(r) /\ Relies(r)'
    BY <1>5, <1>7, <2>1
  <2>3. ASSUME NEW l \in fstab \ left'  PROVE Named(l)' /\ IsAt(l.drive, l.at)'
    <3>1. \A q \in Reqs : Clearing(q) => q = r
      BY <2>2 DEF Alone, Clearing, NoReq
    <3>2. l \in fstab \ left /\ (Clearing(r) => l.at # req[r].point)
      BY <2>1, <2>3 DEF Leaves, Clearing
    <3>3. IsAt(l.drive, l.at) /\ Named(l)
      BY <1>1, <3>1, <3>2 DEF Orderly, LinesMounted
    <3> QED BY <2>1, <3>3, SameMounts DEF Named
  <2>4. LinesMounted' /\ \A l \in (fstab \ left)' : Named(l)'
    BY <2>1, <2>3 DEF LinesMounted
  <2> QED BY <2>2, <2>4, OrderlyIfAlone
<1>14. CASE DockerStops \/ DockerStarts \/ UNCHANGED drivesVars
  <2>1. UNCHANGED <<fs, mounts, fstab, req, left>>
    BY <1>14 DEF DockerStops, DockerStarts, drivesVars
  <2>2. OneByOne' /\ LinesMounted' /\ \A l \in (fstab \ left)' : Named(l)'
    BY <1>1, <2>1, SameMounts DEF Orderly, OneByOne, Alone, LinesMounted, Clearing, Named
  <2>3. ASSUME NEW r \in Reqs  PROVE Relies(r)'
    <3>1. PrimaryMount(req[r].device)' = PrimaryMount(req[r].device)
      BY <2>1, PrimarySame
    <3> QED BY <1>1, <2>1, <3>1, SameMounts DEF Orderly, Relies, Clearing
  <2> QED BY <2>2, <2>3 DEF Orderly
<1>15. CASE Reboot
  <2>1. /\ req' = [r \in Reqs |-> NoReq] /\ UNCHANGED <<fs, fstab>>
        /\ \A l \in fstab : Named(l) /\ IsAt(l.drive, l.at)'
    <3>1. PICK s \in SetToSeqs({[drive |-> l.drive, at |-> l.at] : l \in fstab}) :
               mounts' = <<SystemMount>> \o s
      BY <1>15 DEF Reboot, Boots
    <3>2. \A l \in fstab : \E i \in 1..Len(<<SystemMount>> \o s) :
              (<<SystemMount>> \o s)[i] = [drive |-> l.drive, at |-> l.at]
      BY <1>1, <3>1, MountsOf DEF DrivesTypeOK, Finite
    <3> QED BY <1>15, <3>1, <3>2 DEF Reboot, Boots, IsAt
  <2> QED BY <2>1 DEF Orderly, OneByOne, LinesMounted, Named, Relies, NoReq
<1> QED
  BY <1>2, <1>3, <1>4, <1>8, <1>9, <1>10, <1>11, <1>12, <1>13, <1>14, <1>15, <1>16 DEF DrivesNext

LEMMA DrivesInitInv == DrivesInit => DrivesInv
<1> SUFFICES ASSUME DrivesInit  PROVE DrivesInv
  OBVIOUS
<1>1. mounts \in Seq(Mounted)
  BY DEF DrivesInit, SystemMount, Mounted
<1>2. DrivesTypeOK
  <2>1. fs \in [Disks -> Filesystem]
    BY DrivesAssumption DEF DrivesInit, Filesystem
  <2>2. NoReq \in Req /\ SystemMount \in Mounted
    BY DEF NoReq, Req, SystemMount, Mounted
  <2> QED BY <1>1, <2>1, <2>2 DEF DrivesInit, DrivesTypeOK
<1>3. Finite /\ ReqsFit
  BY FS_EmptySet DEF DrivesInit, Finite, ReqsFit, ReqFits, NoReq
<1>4. Orderly
  BY DEF DrivesInit, Orderly, OneByOne, LinesMounted, Relies, NoReq
<1> QED BY <1>2, <1>3, <1>4 DEF DrivesInv

LEMMA DrivesStep == DrivesInv /\ [DrivesNext]_drivesVars => DrivesInv'
BY DrivesTypeStep, OrderlyStep DEF DrivesInv

\* Mounts, fstab, filesystems and the data target are well typed, and a request is
\* at a step of its handler, whatever fails and however often the box reboots.
THEOREM DrivesTypeCorrect == DrivesSpec => []DrivesTypeOK
BY DrivesInitInv, DrivesStep, PTL DEF DrivesSpec, DrivesInv

\* As long as requests come one after another, whatever fails and wherever a tool or
\* the daemon is cut off, a line of fstab names a drive by what a boot finds it by,
\* and at rest is of something mounted where it says, but for the lines that an
\* unmount undid and left: a boot mounts what was mounted.
THEOREM BootsAsMountedCorrect == DrivesSpec => []BootsAsMounted
<1>1. DrivesInv => BootsAsMounted
  <2> SUFFICES ASSUME DrivesInv, ~overlapped, NEW l \in fstab \ left
               PROVE  /\ Named(l)
                      /\ (\A r \in Reqs : req[r] = NoReq) => [drive |-> l.drive, at |-> l.at] \in ToSet(mounts)
    BY Zenon DEF BootsAsMounted
  <2>1. Named(l) /\ DrivesTypeOK
    BY DEF DrivesInv, Orderly
  <2>2. (\A r \in Reqs : req[r] = NoReq) => IsAt(l.drive, l.at)
    BY DEF DrivesInv, Orderly, LinesMounted, Clearing, NoReq
  <2>3. ASSUME NEW m, NEW i \in 1..Len(mounts), mounts[i] = m  PROVE m \in ToSet(mounts)
    <3>1. mounts \in Seq(Mounted) /\ DOMAIN mounts = 1..Len(mounts)
      BY <2>1 DEF DrivesTypeOK
    <3> QED BY <2>3, <3>1 DEF ToSet
  <2>4. IsAt(l.drive, l.at) => [drive |-> l.drive, at |-> l.at] \in ToSet(mounts)
    <3> SUFFICES ASSUME IsAt(l.drive, l.at)  PROVE [drive |-> l.drive, at |-> l.at] \in ToSet(mounts)
      OBVIOUS
    <3>1. PICK i \in 1..Len(mounts) : mounts[i] = [drive |-> l.drive, at |-> l.at]
      BY DEF IsAt
    <3> QED BY <2>3, <3>1
  <2> QED BY <2>1, <2>2, <2>4
<1> QED BY <1>1, DrivesInitInv, DrivesStep, PTL DEF DrivesSpec

(***************************************************************************)
(* SftpSessions: the maps are in step, the store keeps its promise.         *)
(***************************************************************************)
USE SftpAssumption DEF SftpAssumption

OnlyIssued == \A u \in Usernames : byUser[u] # None => u \in issued

SftpInv == SftpTypeOK /\ InStep /\ OnlyIssued

LEMMA SftpInitInv == SftpInit => SftpInv
<1> SUFFICES ASSUME SftpInit PROVE SftpInv
  OBVIOUS
<1>1. answer \in {"login", "status"} \X (Usernames \cup {None}) \X BOOLEAN \X (Boxes \cup {None})
  BY DEF SftpInit
<1>2. SftpTypeOK
  BY <1>1 DEF SftpInit, SftpTypeOK
<1>3. InStep /\ OnlyIssued
  BY DEF SftpInit, InStep, OnlyIssued
<1> QED BY <1>2, <1>3 DEF SftpInv

(***************************************************************************)
(* Every operation leaves both maps in step.                                *)
(***************************************************************************)
LEMMA RemovesInStep ==
  ASSUME SftpInv, NEW U \in SUBSET Usernames, RemoveLocked(U)
  PROVE  /\ byUser' \in [Usernames -> Boxes \cup {None}]
         /\ byServer' \in [Boxes -> Usernames \cup {None}]
         /\ InStep'
         /\ \A u \in Usernames : byUser'[u] # None => byUser[u] # None
BY DEF SftpInv, SftpTypeOK, InStep, RemoveLocked, Deleted

\* The deletion of a server's entry and of the user it names.
LEMMA ForgetsInStep ==
  ASSUME SftpInv, NEW b \in Boxes,
         byUser' = Deleted({byServer[b]}), byServer' = [byServer EXCEPT ![b] = None]
  PROVE  /\ byUser' \in [Usernames -> Boxes \cup {None}]
         /\ byServer' \in [Boxes -> Usernames \cup {None}]
         /\ InStep'
         /\ \A u \in Usernames : byUser'[u] # None => byUser[u] # None
BY DEF SftpInv, SftpTypeOK, InStep, Deleted

LEMMA SftpStep ==
  ASSUME SftpInv, [SftpNext]_sftpVars
  PROVE  SftpInv'
<1>1. ASSUME NEW u \in Usernames, Expires(u)  PROVE SftpInv'
  BY <1>1 DEF SftpInv, SftpTypeOK, InStep, OnlyIssued, Expires
<1>2. ASSUME NEW b \in Boxes, NEW u \in Usernames, Mint(b, u)  PROVE SftpInv'
  <2>1. byUser[u] = None
    BY <1>2 DEF SftpInv, OnlyIssued, Mint
  <2>2. /\ byUser' \in [Usernames -> Boxes \cup {None}]
        /\ byServer' \in [Boxes -> Usernames \cup {None}]
    BY <1>2 DEF SftpInv, SftpTypeOK, Mint, Deleted
  <2>3. ASSUME NEW v \in Usernames, NEW c \in Boxes
        PROVE  byUser'[v] = c <=> byServer'[c] = v
    BY <1>2, <2>1 DEF SftpInv, SftpTypeOK, InStep, Mint, Deleted
  <2>4. OnlyIssued'
    BY <1>2 DEF SftpInv, SftpTypeOK, OnlyIssued, Mint, Deleted
  <2>5. SftpTypeOK'
    BY <1>2, <2>2 DEF SftpInv, SftpTypeOK, Mint
  <2> QED BY <2>3, <2>4, <2>5 DEF SftpInv, InStep
<1>3. ASSUME NEW u \in Usernames, NEW right \in BOOLEAN, Authenticate(u, right)  PROVE SftpInv'
  <2>1. answer' \in {"login", "status"} \X (Usernames \cup {None}) \X BOOLEAN \X (Boxes \cup {None})
    BY <1>3 DEF SftpInv, SftpTypeOK, Authenticate
  <2>2. CASE byUser[u] # None /\ u \in overdue
    BY <1>3, <2>1, <2>2, RemovesInStep DEF SftpInv, SftpTypeOK, OnlyIssued, Authenticate
  <2>3. CASE ~(byUser[u] # None /\ u \in overdue)
    BY <1>3, <2>1, <2>3 DEF SftpInv, SftpTypeOK, InStep, OnlyIssued, Authenticate
  <2> QED BY <2>2, <2>3
<1>4. ASSUME NEW b \in Boxes, Active(b)  PROVE SftpInv'
  <2>1. answer' \in {"login", "status"} \X (Usernames \cup {None}) \X BOOLEAN \X (Boxes \cup {None})
    BY <1>4 DEF SftpInv, SftpTypeOK, Active
  <2>2. CASE Current(b)
    BY <1>4, <2>1, <2>2 DEF SftpInv, SftpTypeOK, InStep, OnlyIssued, Active
  <2>3. CASE ~Current(b)
    BY <1>4, <2>1, <2>3, ForgetsInStep DEF SftpInv, SftpTypeOK, OnlyIssued, Active
  <2> QED BY <2>2, <2>3
<1>5. ASSUME NEW b \in Boxes, Revoke(b)  PROVE SftpInv'
  BY <1>5, ForgetsInStep DEF SftpInv, SftpTypeOK, OnlyIssued, Revoke
<1>6. CASE SweepSessions
  BY <1>6, RemovesInStep DEF SftpInv, SftpTypeOK, OnlyIssued, SweepSessions
<1>7. CASE StoreRestarts
  BY <1>7 DEF SftpInv, SftpTypeOK, InStep, OnlyIssued, StoreRestarts
<1>8. CASE UNCHANGED sftpVars
  BY <1>8 DEF SftpInv, SftpTypeOK, InStep, OnlyIssued, sftpVars
<1> QED BY <1>1, <1>2, <1>3, <1>4, <1>5, <1>6, <1>7, <1>8 DEF SftpNext

(***************************************************************************)
(* The maps keep their types, are each other's inverse and name only users  *)
(* that were issued (store.go: every change is made to both under one lock). *)
(***************************************************************************)
THEOREM SftpInvariant == SftpSpec => []SftpInv
BY SftpInitInv, SftpStep, PTL DEF SftpSpec

\* Both maps, the deadlines and the answers keep their types.
THEOREM SftpTypeCorrect == SftpSpec => []SftpTypeOK
<1>1. SftpInv => SftpTypeOK
  BY DEF SftpInv
<1> QED BY <1>1, SftpInvariant, PTL

\* The two maps of the store are each other's inverse, always.
THEOREM MapsInStep == SftpSpec => []InStep
<1>1. SftpInv => InStep
  BY DEF SftpInv
<1> QED BY <1>1, SftpInvariant, PTL

(***************************************************************************)
(* The refinement.  What the slot of a server is, of any two maps in step.  *)
(***************************************************************************)
LEMMA SlotOfMaps ==
  ASSUME NEW U \in [Usernames -> Boxes \cup {None}], NEW S \in [Boxes -> Usernames \cup {None}],
         NEW late, \A u \in Usernames, b \in Boxes : U[u] = b <=> S[b] = u,
         NEW b \in Boxes
  PROVE  LET good == {u \in Usernames : U[u] = b /\ u \notin late} IN
           (IF good = {} THEN None ELSE CHOOSE u \in good : TRUE)
             = IF S[b] # None /\ S[b] \notin late THEN S[b] ELSE None
<1> DEFINE good == {u \in Usernames : U[u] = b /\ u \notin late}
<1>1. CASE S[b] # None /\ S[b] \notin late
  <2>1. good = {S[b]}
    BY <1>1
  <2> QED BY <1>1, <2>1
<1>2. CASE ~(S[b] # None /\ S[b] \notin late)
  <2>1. good = {}
    BY <1>2
  <2> QED BY <1>2, <2>1
<1> QED BY <1>1, <1>2

SlotOf(b) == IF byServer[b] # None /\ byServer[b] \notin overdue THEN byServer[b] ELSE None
Slots == [b \in Boxes |-> IF Good(b) = {} THEN None ELSE CHOOSE u \in Good(b) : TRUE]

LEMMA SlotsNow == ASSUME SftpInv PROVE Slots = [b \in Boxes |-> SlotOf(b)]
BY SlotOfMaps DEF SftpInv, SftpTypeOK, InStep, Slots, SlotOf, Good

LEMMA SlotsNext == ASSUME SftpInv' PROVE Slots' = [b \in Boxes |-> SlotOf(b)']
BY SlotOfMaps DEF SftpInv, SftpTypeOK, InStep, Slots, SlotOf, Good

LEMMA RefinesStep ==
  ASSUME SftpInv, SftpInv', [SftpNext]_sftpVars
  PROVE  [Credential!SlotNext]_Credential!slotVars
<1> DEFINE slot == [b \in Boxes |-> SlotOf(b)]
           slotNext == [b \in Boxes |-> SlotOf(b)']
<1>0. Slots = slot /\ Slots' = slotNext
  BY SlotsNow, SlotsNext
<1>1. ASSUME slotNext = slot, UNCHANGED <<issued, answer>>
      PROVE  UNCHANGED Credential!slotVars
  BY <1>0, <1>1 DEF Credential!slotVars, Slots
<1>2. ASSUME NEW B \in SUBSET Boxes, UNCHANGED <<issued, answer>>,
             \A b \in Boxes : SlotOf(b)' = IF b \in B THEN None ELSE SlotOf(b)
      PROVE  Credential!End(B)
  BY <1>0, <1>2 DEF Credential!End, Slots
<1>3. ASSUME NEW b \in Boxes, NEW u \in Usernames, Mint(b, u)  PROVE Credential!Issue(b, u)
  <2>1. u \notin overdue
    BY <1>3 DEF SftpInv, SftpTypeOK, Mint
  <2>2. slotNext = [slot EXCEPT ![b] = u]
    BY <1>3, <2>1 DEF SftpInv, SftpTypeOK, Mint, SlotOf
  <2> QED BY <1>0, <1>3, <2>2 DEF Credential!Issue, Mint, Slots
<1>4. ASSUME NEW u \in Usernames, Expires(u)  PROVE Credential!End({b \in Boxes : byServer[b] = u})
  <2>1. \A b \in Boxes : SlotOf(b)' = IF byServer[b] = u THEN None ELSE SlotOf(b)
    BY <1>4 DEF SftpInv, SftpTypeOK, Expires, SlotOf
  <2> QED BY <1>2, <1>4, <2>1 DEF Expires
<1>5. ASSUME NEW u \in Usernames, NEW right \in BOOLEAN, Authenticate(u, right)
      PROVE  Credential!Login(u, right)
  <2>1. \A b \in Boxes : SlotOf(b)' = SlotOf(b)
    BY <1>5 DEF SftpInv, SftpTypeOK, InStep, Authenticate, RemoveLocked, SlotOf
  <2>2. Slots' = Slots /\ issued' = issued
    BY <1>0, <1>5, <2>1 DEF Authenticate
  <2>3. \A b \in Boxes : Slots[b] = u <=> byUser[u] = b /\ u \notin overdue
    BY <1>0 DEF SftpInv, SftpTypeOK, InStep, SlotOf
  <2> DEFINE whom == IF u \notin overdue /\ right THEN byUser[u] ELSE None
  <2>4. /\ whom \in Boxes \cup {None}
        /\ IF right /\ \E c \in Boxes : Slots[c] = u THEN whom \in Boxes /\ Slots[whom] = u ELSE whom = None
    BY <2>3 DEF SftpInv, SftpTypeOK
  <2>5. answer' = <<"login", u, right, whom>>
    BY <1>5 DEF Authenticate
  <2> HIDE DEF whom
  <2> QED BY <2>2, <2>4, <2>5 DEF Credential!Login, Slots
<1>6. ASSUME NEW b \in Boxes, Active(b)  PROVE Credential!Status(b)
  <2>1. \A c \in Boxes : SlotOf(c)' = SlotOf(c)
    BY <1>6 DEF SftpInv, SftpTypeOK, InStep, Active, Current, SlotOf
  <2>2. Slots' = Slots /\ issued' = issued
    BY <1>0, <1>6, <2>1 DEF Active
  <2>3. SlotOf(b) = IF Current(b) THEN byServer[b] ELSE None
    BY DEF SftpInv, SftpTypeOK, InStep, Current, SlotOf
  <2>4. answer' = <<"status", Slots[b], TRUE, b>>
    BY <1>0, <1>6, <2>3 DEF Active
  <2> QED BY <2>2, <2>4 DEF Credential!Status, Slots
<1>7. ASSUME NEW b \in Boxes, Revoke(b)  PROVE Credential!End({b})
  <2>1. \A c \in Boxes : SlotOf(c)' = IF c \in {b} THEN None ELSE SlotOf(c)
    BY <1>7 DEF SftpInv, SftpTypeOK, Revoke, SlotOf
  <2> QED BY <1>2, <1>7, <2>1 DEF Revoke
<1>8. ASSUME SweepSessions  PROVE UNCHANGED Credential!slotVars
  <2>1. \A b \in Boxes : SlotOf(b)' = SlotOf(b)
    BY <1>8 DEF SftpInv, SftpTypeOK, InStep, SweepSessions, RemoveLocked, SlotOf
  <2> QED BY <1>1, <1>8, <2>1 DEF SweepSessions
<1>9. ASSUME StoreRestarts  PROVE Credential!End(Boxes)
  <2>1. \A b \in Boxes : SlotOf(b)' = IF b \in Boxes THEN None ELSE SlotOf(b)
    BY <1>9 DEF SftpInv, SftpTypeOK, StoreRestarts, SlotOf
  <2> QED BY <1>2, <1>9, <2>1 DEF StoreRestarts
<1>10. ASSUME UNCHANGED sftpVars  PROVE UNCHANGED Credential!slotVars
  <2>1. \A b \in Boxes : SlotOf(b)' = SlotOf(b)
    BY <1>10 DEF sftpVars, SlotOf
  <2> QED BY <1>1, <1>10, <2>1 DEF sftpVars
<1> QED
  BY <1>3, <1>4, <1>5, <1>6, <1>7, <1>8, <1>9, <1>10 DEF SftpNext, Credential!SlotNext

(***************************************************************************)
(* The store keeps the promise of CredentialSlot, for any servers and users: *)
(* one credential at most for each, the last one minted, until it ends.     *)
(***************************************************************************)
THEOREM StoreRefines == SftpSpec => OneCredential
<1>1. SftpInit => Credential!SlotInit
  BY DEF SftpInit, Good, Credential!SlotInit
<1>2. SftpInv /\ SftpInv' /\ [SftpNext]_sftpVars => [Credential!SlotNext]_Credential!slotVars
  BY RefinesStep
<1> QED BY <1>1, <1>2, SftpInvariant, PTL DEF SftpSpec, OneCredential, Credential!SlotSpec

(***************************************************************************)
(* Files: the types, and FilesKept.                                         *)
(***************************************************************************)
(***************************************************************************)
(* What a request carries at each of its steps.                             *)
(***************************************************************************)
Writing(t) == t.at \in {"fetch", "fill", "succeeded", "failed"}

WellFormed(t) ==
  /\ Writing(t) => t.does \in {"write", "pull"} /\ t.version \in Versions /\ t.path \in Paths
  /\ ~Writing(t) => t.version = Absent
  /\ t.at \in {"fetch", "succeeded", "failed"} => t.does = "pull"
  /\ t.at \in {"move", "record", "clear"} => t.path \in Paths
  /\ t.at \in {"move", "record", "clear", "remove"} => t.id \in BinIds

TasksFormed == \A w \in Workers : WellFormed(task[w])

(***************************************************************************)
(* The entries of the bin, and the contents that are being written.         *)
(***************************************************************************)
Moving(w) == task[w].does = "trash" /\ task[w].at = "move"

BinSound ==
  /\ \A b \in BinIds : bin[b].is # "there" => bin[b].payload = Absent
  /\ \A w \in Workers : Moving(w) =>
       bin[task[w].id].is # "unborn" /\ bin[task[w].id].payload = Absent
  /\ \A w, x \in Workers : w # x /\ Moving(w) /\ Moving(x) => task[w].id # task[x].id

WritesSound ==
  /\ \A w, x \in Workers : w # x /\ Writing(task[w]) => task[x].version # task[w].version
  /\ \A w \in Workers : Writing(task[w]) =>
       /\ job[task[w].version] \in {"none", "running"}
       /\ task[w].at = "succeeded" <=> fate[task[w].version] # "unborn"

Places == FilesKept /\ BinSound /\ WritesSound
FilesInv == FilesTypeOK /\ TasksFormed /\ Places

USE FilesAssumption DEF FilesAssumption

(***************************************************************************)
(* Types.  A request begins, goes on, or ends; an entry is changed.         *)
(***************************************************************************)
Typed == FilesTypeOK /\ TasksFormed

LEMMA TaskBegins ==
  ASSUME Typed, NEW w \in Workers, NEW t \in Task, WellFormed(t), Takes(w, t)
  PROVE  task' \in [Workers -> Task] /\ TasksFormed'
BY DEF Typed, FilesTypeOK, TasksFormed, Takes

LEMMA TaskEnds ==
  ASSUME Typed, NEW w \in Workers, Done(w)
  PROVE  task' \in [Workers -> Task] /\ TasksFormed'
<1>1. NoTask \in Task /\ WellFormed(NoTask)
  BY DEF NoTask, Task, WellFormed, Writing
<1> QED BY <1>1 DEF Typed, FilesTypeOK, TasksFormed, Done

LEMMA TaskGoesOn ==
  ASSUME Typed, NEW w \in Workers,
         NEW at \in {"fill", "succeeded", "failed", "record", "clear"},
         WellFormed([task[w] EXCEPT !.at = at]), task' = [task EXCEPT ![w].at = at]
  PROVE  task' \in [Workers -> Task] /\ TasksFormed'
<1>1. task[w] \in Task
  BY DEF Typed, FilesTypeOK
<1>2. [task[w] EXCEPT !.at = at] \in Task
  BY <1>1 DEF Task
<1>3. task' = [task EXCEPT ![w] = [task[w] EXCEPT !.at = at]]
  BY <1>1 DEF Typed, FilesTypeOK
<1> QED BY <1>2, <1>3 DEF Typed, FilesTypeOK, TasksFormed

LEMMA EntryTorn ==
  ASSUME Typed, NEW b \in BinIds, NEW what \in Fate, Tear(b, what)
  PROVE  bin' \in [BinIds -> Entry] /\ fate' \in [Versions -> Fate]
<1>1. Removed \in Entry
  BY DEF Removed, NoEntry, Entry
<1>2. bin[b].payload \in Versions \cup {Absent}
  BY DEF Typed, FilesTypeOK, Entry
<1> QED BY <1>1, <1>2 DEF Typed, FilesTypeOK, Tear, Becomes

LEMMA TypeStep ==
  ASSUME Typed, [FilesNext]_filesVars
  PROVE  Typed'
<1>1. ASSUME NEW w \in Workers, NEW p \in Paths, NEW v \in Versions, Write(w, p, v)  PROVE Typed'
  <2> DEFINE t == [NoTask EXCEPT !.does = "write", !.at = "fill", !.path = p, !.version = v]
  <2>1. t \in Task /\ WellFormed(t)
    BY DEF NoTask, Task, WellFormed, Writing
  <2> QED BY <1>1, <2>1, TaskBegins DEF Typed, FilesTypeOK, Write
<1>2. ASSUME NEW w \in Workers, NEW p \in Paths, NEW v \in Versions, Pull(w, p, v)  PROVE Typed'
  <2> DEFINE t == [NoTask EXCEPT !.does = "pull", !.at = "fetch", !.path = p, !.version = v]
  <2>1. t \in Task /\ WellFormed(t)
    BY DEF NoTask, Task, WellFormed, Writing
  <2>2. job' \in [Versions -> Job]
    BY <1>2 DEF Pull, Typed, FilesTypeOK, Job
  <2> QED BY <1>2, <2>1, <2>2, TaskBegins DEF Typed, FilesTypeOK, Pull
<1>3. ASSUME NEW w \in Workers, NEW b \in BinIds, Purge(w, b)  PROVE Typed'
  <2> DEFINE t == [NoTask EXCEPT !.does = "purge", !.at = "remove", !.id = b]
  <2>1. t \in Task /\ WellFormed(t)
    BY DEF NoTask, Task, WellFormed, Writing
  <2> QED BY <1>3, <2>1, TaskBegins DEF Typed, FilesTypeOK, Purge
<1>4. ASSUME NEW w \in Workers, NEW b \in BinIds, NEW p \in Paths, Trash(w, p, b)  PROVE Typed'
  <2> DEFINE t == [NoTask EXCEPT !.does = "trash", !.at = "move", !.path = p, !.id = b]
  <2>1. t \in Task /\ WellFormed(t)
    BY DEF NoTask, Task, WellFormed, Writing
  <2>2. bin' \in [BinIds -> Entry]
    BY <1>4 DEF Typed, FilesTypeOK, Trash, Entry
  <2> QED BY <1>4, <2>1, <2>2, TaskBegins DEF Typed, FilesTypeOK, Trash
<1>5. ASSUME NEW w \in Workers, NEW b \in BinIds, NEW p \in Paths, Restore(w, b, p)  PROVE Typed'
  <2> DEFINE t == [NoTask EXCEPT !.does = "restore", !.at = "move", !.path = p, !.id = b]
  <2>1. t \in Task /\ WellFormed(t)
    BY DEF NoTask, Task, WellFormed, Writing
  <2> QED BY <1>5, <2>1, TaskBegins DEF Typed, FilesTypeOK, Restore
<1>6. ASSUME NEW w \in Workers, Fetched(w)  PROVE Typed'
  <2>1. WellFormed([task[w] EXCEPT !.at = "fill"])
    BY <1>6 DEF Typed, FilesTypeOK, TasksFormed, Task, WellFormed, Writing, Fetched
  <2> QED BY <1>6, <2>1, TaskGoesOn DEF Typed, FilesTypeOK, Fetched
<1>7. ASSUME NEW w \in Workers, NEW result \in {"succeeded", "failed"},
             task[w].at \in {"fetch", "fill"}, Wrote(w, result)
      PROVE  task' \in [Workers -> Task] /\ TasksFormed'
  <2>1. task[w] \in Task
    BY DEF Typed, FilesTypeOK
  <2>2. CASE task[w].does = "pull"
    <3>1. task' = [task EXCEPT ![w].at = result]
      BY <1>7, <2>1, <2>2 DEF Wrote, Typed, FilesTypeOK
    <3>2. WellFormed([task[w] EXCEPT !.at = result])
      BY <1>7, <2>1, <2>2 DEF Typed, TasksFormed, Task, WellFormed, Writing
    <3> QED BY <3>1, <3>2, TaskGoesOn
  <2>3. CASE task[w].does # "pull"
    BY <1>7, <2>3, TaskEnds DEF Wrote, Done, Typed, FilesTypeOK
  <2> QED BY <2>2, <2>3
<1>8. ASSUME NEW w \in Workers, Commit(w)  PROVE Typed'
  <2>1. task[w].path \in Paths /\ task[w].version \in Versions
    BY <1>8 DEF Typed, TasksFormed, WellFormed, Writing, Commit
  <2>2. fate' \in [Versions -> Fate]
    BY <1>8 DEF Typed, FilesTypeOK, Commit, Fate
  <2> QED BY <1>7, <1>8, <2>1, <2>2 DEF Typed, FilesTypeOK, Commit
<1>9. ASSUME NEW w \in Workers, WriteFails(w)  PROVE Typed'
  BY <1>7, <1>9 DEF Typed, FilesTypeOK, WriteFails
<1>10. ASSUME NEW w \in Workers, Report(w)  PROVE Typed'
  <2>1. task[w].version \in Versions
    BY <1>10 DEF Typed, TasksFormed, WellFormed, Writing, Report
  <2>2. job' \in [Versions -> Job]
    BY <1>10, <2>1 DEF Typed, FilesTypeOK, Report, Outcome, Job
  <2> QED BY <1>10, <2>2, TaskEnds DEF Typed, FilesTypeOK, Report
<1>11. ASSUME NEW w \in Workers, TrashMoves(w)  PROVE Typed'
  <2>1. task[w] \in Task /\ task[w].path \in Paths /\ task[w].id \in BinIds
    BY <1>11 DEF Typed, FilesTypeOK, TasksFormed, WellFormed, Writing, TrashMoves
  <2>2. CASE Movable(w)
    <3>1. WellFormed([task[w] EXCEPT !.at = "record"])
      BY <1>11, <2>1 DEF Typed, TasksFormed, Task, WellFormed, Writing, TrashMoves
    <3>2. bin' \in [BinIds -> Entry]
      BY <1>11, <2>1, <2>2 DEF Typed, FilesTypeOK, TrashMoves, Entry
    <3> QED BY <1>11, <2>1, <2>2, <3>1, <3>2, TaskGoesOn DEF Typed, FilesTypeOK, TrashMoves
  <2>3. CASE ~Movable(w)
    BY <1>11, <2>1, <2>3, TaskEnds, EntryTorn DEF Typed, FilesTypeOK, TrashMoves, Fate
  <2> QED BY <2>2, <2>3
<1>12. ASSUME NEW w \in Workers, TrashRecords(w)  PROVE Typed'
  <2>1. task[w].path \in Paths /\ task[w].id \in BinIds
    BY <1>12 DEF Typed, TasksFormed, WellFormed, Writing, TrashRecords
  <2>2. bin' \in [BinIds -> Entry]
    BY <1>12, <2>1 DEF Typed, FilesTypeOK, TrashRecords, Entry
  <2> QED BY <1>12, <2>2, TaskEnds DEF Typed, FilesTypeOK, TrashRecords
<1>13. ASSUME NEW w \in Workers, RecordFails(w)  PROVE Typed'
  <2>1. task[w].id \in BinIds
    BY <1>13 DEF Typed, TasksFormed, WellFormed, RecordFails
  <2> QED BY <1>13, <2>1, TaskEnds, EntryTorn DEF Typed, FilesTypeOK, RecordFails, Fate
<1>14. ASSUME NEW w \in Workers, RestoreMoves(w)  PROVE Typed'
  <2>1. task[w] \in Task /\ task[w].path \in Paths /\ task[w].id \in BinIds
    BY <1>14 DEF Typed, FilesTypeOK, TasksFormed, WellFormed, Writing, RestoreMoves
  <2>2. CASE Restorable(w)
    <3>1. WellFormed([task[w] EXCEPT !.at = "clear"])
      BY <1>14, <2>1 DEF Typed, TasksFormed, Task, WellFormed, Writing, RestoreMoves
    <3>2. bin' \in [BinIds -> Entry] /\ file' \in [Paths -> Versions \cup {Absent}]
      BY <1>14, <2>1, <2>2 DEF Typed, FilesTypeOK, RestoreMoves, Entry
    <3> QED BY <1>14, <2>1, <2>2, <3>1, <3>2, TaskGoesOn DEF Typed, FilesTypeOK, RestoreMoves
  <2>3. CASE ~Restorable(w)
    BY <1>14, <2>3, TaskEnds DEF Typed, FilesTypeOK, RestoreMoves
  <2> QED BY <2>2, <2>3
<1>15. ASSUME NEW w \in Workers, RestoreClears(w)  PROVE Typed'
  <2>1. task[w].id \in BinIds
    BY <1>15 DEF Typed, TasksFormed, WellFormed, RestoreClears
  <2> QED BY <1>15, <2>1, TaskEnds, EntryTorn DEF Typed, FilesTypeOK, RestoreClears, Fate
<1>16. ASSUME NEW w \in Workers, PurgeRemoves(w)  PROVE Typed'
  <2>1. task[w].id \in BinIds
    BY <1>16 DEF Typed, TasksFormed, WellFormed, PurgeRemoves
  <2> QED BY <1>16, <2>1, TaskEnds, EntryTorn DEF Typed, FilesTypeOK, PurgeRemoves, Fate
<1>17. ASSUME NEW p \in Paths, NEW q \in Paths, Rename(p, q)  PROVE Typed'
  BY <1>17 DEF Typed, FilesTypeOK, TasksFormed, Rename
<1>18. ASSUME NEW b \in BinIds, DeleteTrash(b)  PROVE Typed'
  BY <1>18, EntryTorn DEF Typed, FilesTypeOK, TasksFormed, DeleteTrash, Fate
<1>19. CASE EmptyTrash
  <2>1. bin' \in [BinIds -> Entry]
    BY <1>19 DEF Typed, FilesTypeOK, EmptyTrash, Removed, NoEntry, Entry
  <2>2. fate' \in [Versions -> Fate]
    BY <1>19 DEF Typed, FilesTypeOK, EmptyTrash, Fate
  <2> QED BY <1>19, <2>1, <2>2 DEF Typed, FilesTypeOK, TasksFormed, EmptyTrash
<1>20. ASSUME NEW b \in BinIds, EntryAges(b)  PROVE Typed'
  <2>1. bin' \in [BinIds -> Entry]
    <3> DEFINE e == [bin[b] EXCEPT !.old = TRUE]
    <3>1. bin \in [BinIds -> Entry] /\ bin' = [bin EXCEPT ![b] = e]
      BY <1>20 DEF Typed, FilesTypeOK, EntryAges
    <3>2. e \in Entry
      BY <3>1 DEF Entry
    <3> HIDE DEF e
    <3> QED BY <3>1, <3>2
  <2> QED BY <1>20, <2>1 DEF Typed, FilesTypeOK, TasksFormed, EntryAges
<1>21. ASSUME NEW v \in Versions, Sweep(v) \/ FileAges(v) \/ JobAges(v)  PROVE Typed'
  BY <1>21 DEF Typed, FilesTypeOK, TasksFormed, Sweep, FileAges, JobAges, Job
<1>22. CASE DaemonRestarts
  <2>1. NoTask \in Task /\ WellFormed(NoTask)
    BY DEF NoTask, Task, WellFormed, Writing
  <2>2. job' \in [Versions -> Job]
    BY <1>22 DEF Typed, FilesTypeOK, DaemonRestarts, Job
  <2> QED BY <1>22, <2>1, <2>2 DEF Typed, FilesTypeOK, TasksFormed, DaemonRestarts
<1>23. CASE UNCHANGED filesVars
  BY <1>23 DEF Typed, FilesTypeOK, TasksFormed, filesVars
<1> QED
  BY <1>1, <1>2, <1>3, <1>4, <1>5, <1>6, <1>8, <1>9, <1>10, <1>11, <1>12, <1>13, <1>14,
     <1>15, <1>16, <1>17, <1>18, <1>19, <1>20, <1>21, <1>22, <1>23 DEF FilesNext

LEMMA TypeInit == FilesInit => Typed
<1>1. NoTask \in Task /\ WellFormed(NoTask) /\ NoEntry \in Entry
  BY DEF NoTask, Task, WellFormed, Writing, NoEntry, Entry
<1> QED BY <1>1 DEF FilesInit, Typed, FilesTypeOK, TasksFormed, Job, Fate

\* A request carries at each step what the step needs, and all else has its type.
THEOREM Typing == FilesSpec => []Typed
BY TypeInit, TypeStep, PTL DEF FilesSpec

\* FilesTypeOK, of the volume, the bin, the requests and the jobs (filesystem.go).
THEOREM FilesTypeCorrect == FilesSpec => []FilesTypeOK
<1>1. Typed => FilesTypeOK
  BY DEF Typed
<1> QED BY <1>1, Typing, PTL

(***************************************************************************)
(* What keeps each part of Places.                                          *)
(***************************************************************************)
LEMMA KeptFrame ==
  ASSUME FilesKept, UNCHANGED <<file, fate, job>>,
         \A b \in BinIds : bin'[b].payload = bin[b].payload
  PROVE  FilesKept'
BY DEF FilesKept, InVolume, InBin, OnePlace, JobsTell, Free

LEMMA BinFrame ==
  ASSUME Typed, BinSound,
         \A b \in BinIds : /\ bin'[b].payload \in {bin[b].payload, Absent}
                           /\ bin'[b].is # "there" => bin'[b].payload = Absent
                           /\ bin[b].is # "unborn" => bin'[b].is # "unborn",
         \A w \in Workers : Moving(w)' => Moving(w) /\ task'[w].id = task[w].id
  PROVE  BinSound'
<1>1. \A w \in Workers : Moving(w) => task[w].id \in BinIds
  BY DEF Typed, TasksFormed, WellFormed, Moving
<1> QED BY <1>1 DEF BinSound

LEMMA WritesFrame ==
  ASSUME WritesSound,
         \A v \in Versions \cup {Absent} : job'[v] = job[v] /\ (fate'[v] = "unborn" <=> fate[v] = "unborn"),
         \A w \in Workers : /\ task'[w].version \in {task[w].version, Absent}
                            /\ Writing(task'[w]) =>
                                 /\ Writing(task[w]) /\ task'[w].version = task[w].version
                                 /\ task[w].version \in Versions
                                 /\ task'[w].at = "succeeded" <=> task[w].at = "succeeded"
  PROVE  WritesSound'
<1>1. \A w, x \in Workers : w # x /\ Writing(task'[w]) => task'[x].version # task'[w].version
  BY FilesAssumption DEF WritesSound
<1> QED BY <1>1 DEF WritesSound

LEMMA TearKeeps ==
  ASSUME Typed, Places, NEW b \in BinIds, NEW what \in {"deleted", "purged", "torn"},
         Tear(b, what), UNCHANGED <<file, job>>
  PROVE  /\ FilesKept'
         /\ \A v \in Versions : fate'[v] = "unborn" <=> fate[v] = "unborn"
         /\ \A c \in BinIds : /\ bin'[c].payload \in {bin[c].payload, Absent}
                              /\ bin'[c].is # "there" => bin'[c].payload = Absent
                              /\ bin[c].is # "unborn" => bin'[c].is # "unborn"
<1> DEFINE v == bin[b].payload
<1>1. /\ v \in Versions \cup {Absent}
      /\ \A c \in BinIds : bin'[c] = IF c = b THEN Removed ELSE bin[c]
      /\ \A u \in Versions : fate'[u] = IF u = v THEN what ELSE fate[u]
  BY DEF Typed, FilesTypeOK, Entry, Tear, Becomes
<1>2. Removed.payload = Absent /\ Removed.is = "gone"
  BY DEF Removed, NoEntry
<1>3. v # Absent => fate[v] = "kept" /\ ~InVolume(v) /\ \A c \in BinIds : c # b => bin[c].payload # v
  BY <1>1 DEF Places, FilesKept, OnePlace, InBin
<1>4. \A u \in Versions : (InVolume(u)' <=> InVolume(u)) /\ (InBin(u)' <=> InBin(u) /\ u # v)
  BY <1>1, <1>2, <1>3 DEF InVolume, InBin
<1>5. OnePlace'
  BY <1>1, <1>2, <1>4 DEF Places, FilesKept, OnePlace, Free
<1>6. JobsTell'
  BY <1>1, <1>3 DEF Places, FilesKept, JobsTell
<1>7. \A u \in Versions : fate'[u] = "kept" <=> InVolume(u)' \/ InBin(u)'
  BY <1>1, <1>3, <1>4 DEF Places, FilesKept
<1>8. FilesKept'
  BY <1>5, <1>6, <1>7 DEF FilesKept
<1> QED BY <1>1, <1>2, <1>3, <1>8 DEF Places, BinSound

\* A request that neither writes nor moves anything yet, or no more.
Quiet(t) == ~Writing(t) /\ t.version = Absent /\ ~(t.does = "trash" /\ t.at = "move")

LEMMA QuietFrame ==
  ASSUME Typed, WritesSound, NEW w \in Workers, NEW t \in Task, Quiet(t), task' = [task EXCEPT ![w] = t],
         UNCHANGED job, \A v \in Versions : fate'[v] = "unborn" <=> fate[v] = "unborn"
  PROVE  /\ WritesSound'
         /\ \A x \in Workers : Moving(x)' => x # w /\ Moving(x) /\ task'[x].id = task[x].id
<1>1. \A x \in Workers : task'[x] = IF x = w THEN t ELSE task[x]
  BY DEF Typed, FilesTypeOK
<1>2. \A x \in Workers : Writing(task[x]) => task[x].version \in Versions
  BY DEF Typed, TasksFormed, WellFormed
<1>3. WritesSound'
  BY <1>1, <1>2 DEF WritesSound, Quiet
<1> QED BY <1>1, <1>3 DEF Moving, Quiet

LEMMA NoTaskQuiet == NoTask \in Task /\ Quiet(NoTask)
BY DEF NoTask, Task, Quiet, Writing

LEMMA PlacesStep ==
  ASSUME Typed, Places, [FilesNext]_filesVars
  PROVE  Places'
<1> USE DEF Places
<1>1. ASSUME NEW w \in Workers, NEW p \in Paths, NEW v \in Versions,
             Fresh(v), NEW t \in Task, t.does \in {"write", "pull"}, t.at \in {"fetch", "fill"},
             t.version = v, Takes(w, t), job' \in {job, [job EXCEPT ![v] = "running"]},
             UNCHANGED <<file, bin, fate>>
      PROVE  Places'
  <2>1. \A x \in Workers : task'[x] = IF x = w THEN t ELSE task[x]
    BY <1>1 DEF Typed, FilesTypeOK, Takes
  <2>2. /\ fate[v] = "unborn" /\ job[v] = "none" /\ \A x \in Workers : task[x].version # v
        /\ \A u \in Versions \ {v} : job'[u] = job[u]
        /\ job'[v] \in {"none", "running"}
    BY <1>1 DEF Fresh, Typed, FilesTypeOK
  <2>3. BinSound'
    BY <1>1, <2>1, BinFrame DEF BinSound, Moving
  <2>4. \A x \in Workers : Writing(task[x]) => task[x].version \in Versions
    BY DEF Typed, TasksFormed, WellFormed
  <2>5. WritesSound'
    BY <1>1, <2>1, <2>2, <2>4 DEF WritesSound, Writing
  <2>6. FilesKept'
    BY <1>1, <2>2 DEF FilesKept, InVolume, InBin, OnePlace, JobsTell, Free
  <2> QED BY <2>3, <2>5, <2>6
<1>2. ASSUME NEW w \in Workers, NEW p \in Paths, NEW v \in Versions, Write(w, p, v)  PROVE Places'
  <2> DEFINE t == [NoTask EXCEPT !.does = "write", !.at = "fill", !.path = p, !.version = v]
  <2>1. t \in Task /\ t.does = "write" /\ t.at = "fill" /\ t.version = v
    BY DEF NoTask, Task
  <2> HIDE DEF t
  <2> QED BY <1>1, <1>2, <2>1 DEF Write, t
<1>3. ASSUME NEW w \in Workers, NEW p \in Paths, NEW v \in Versions, Pull(w, p, v)  PROVE Places'
  <2> DEFINE t == [NoTask EXCEPT !.does = "pull", !.at = "fetch", !.path = p, !.version = v]
  <2>1. t \in Task /\ t.does = "pull" /\ t.at = "fetch" /\ t.version = v
    BY DEF NoTask, Task
  <2> HIDE DEF t
  <2> QED BY <1>1, <1>3, <2>1 DEF Pull, t
\* A request that begins or ends and leaves every content where it is.
<1>4. ASSUME NEW w \in Workers, NEW t \in Task, Quiet(t), task' = [task EXCEPT ![w] = t],
             UNCHANGED <<file, job, fate>>,
             \A b \in BinIds : bin'[b].payload = bin[b].payload /\ bin'[b].is = bin[b].is
      PROVE  Places'
  <2>1. FilesKept'
    BY <1>4, KeptFrame
  <2>2. WritesSound' /\ \A x \in Workers : Moving(x)' => Moving(x) /\ task'[x].id = task[x].id
    BY <1>4, QuietFrame
  <2>3. BinSound'
    BY <1>4, <2>2, BinFrame DEF BinSound
  <2> QED BY <2>1, <2>2, <2>3
<1>5. ASSUME NEW w \in Workers, NEW b \in BinIds, Purge(w, b)  PROVE Places'
  <2> DEFINE t == [NoTask EXCEPT !.does = "purge", !.at = "remove", !.id = b]
  <2>1. t \in Task /\ Quiet(t)
    BY DEF NoTask, Task, Quiet, Writing
  <2> HIDE DEF t
  <2> QED BY <1>4, <1>5, <2>1 DEF Purge, Takes, t
<1>6. ASSUME NEW w \in Workers, NEW b \in BinIds, NEW p \in Paths, Restore(w, b, p)  PROVE Places'
  <2> DEFINE t == [NoTask EXCEPT !.does = "restore", !.at = "move", !.path = p, !.id = b]
  <2>1. t \in Task /\ Quiet(t)
    BY DEF NoTask, Task, Quiet, Writing
  <2> HIDE DEF t
  <2> QED BY <1>4, <1>6, <2>1 DEF Restore, Takes, t
<1>7. ASSUME NEW w \in Workers, NEW b \in BinIds, NEW p \in Paths, Trash(w, p, b)  PROVE Places'
  <2> DEFINE t == [NoTask EXCEPT !.does = "trash", !.at = "move", !.path = p, !.id = b]
  <2>1. t \in Task /\ t.id = b /\ ~Writing(t) /\ t.version = Absent
    BY DEF NoTask, Task, Writing
  <2>2. \A x \in Workers : task'[x] = IF x = w THEN t ELSE task[x]
    BY <1>7 DEF Typed, FilesTypeOK, Trash, Takes
  <2> HIDE DEF t
  <2>3. /\ bin[b].is = "unborn" /\ bin[b].payload = Absent
        /\ \A c \in BinIds : /\ bin'[c].payload = bin[c].payload
                               /\ bin'[c].is = IF c = b THEN "there" ELSE bin[c].is
    BY <1>7 DEF Typed, FilesTypeOK, Entry, Trash, BinSound
  <2>4. \A x \in Workers : Moving(x) => task[x].id \in BinIds
    BY DEF Typed, TasksFormed, WellFormed, Moving
  <2>5. BinSound'
    BY <2>1, <2>2, <2>3, <2>4 DEF BinSound, Moving
  <2>6. \A x \in Workers : Writing(task[x]) => task[x].version \in Versions
    BY DEF Typed, TasksFormed, WellFormed
  <2>7. WritesSound'
    BY <1>7, <2>1, <2>2, <2>6 DEF WritesSound, Trash
  <2>8. FilesKept'
    BY <1>7, <2>3, KeptFrame DEF Trash
  <2> QED BY <2>5, <2>7, <2>8
<1>8. ASSUME NEW w \in Workers, TrashRecords(w)  PROVE Places'
  <2>1. \A b \in BinIds : bin'[b].payload = bin[b].payload /\ bin'[b].is = bin[b].is
    BY <1>8 DEF Typed, FilesTypeOK, Entry, TrashRecords
  <2> QED BY <1>4, <1>8, <2>1, NoTaskQuiet DEF TrashRecords, Done
\* A write that fails, or is over, or goes on.
<1>9. ASSUME NEW w \in Workers, task[w].at \in {"fetch", "fill"}, NEW t \in Task,
             task' = [task EXCEPT ![w] = t],
             \/ t = NoTask
             \/ (t.at \in {"fill", "failed"} /\ t.version = task[w].version /\ t.does = "pull"),
             UNCHANGED <<file, bin, job, fate>>
      PROVE  Places'
  <2>1. \A x \in Workers : task'[x] = IF x = w THEN t ELSE task[x]
    BY <1>9 DEF Typed, FilesTypeOK
  <2>2. \A x \in Workers : Writing(task[x]) => task[x].version \in Versions
    BY DEF Typed, TasksFormed, WellFormed
  <2>3. WritesSound'
    BY <1>9, <2>1, <2>2, NoTaskQuiet DEF WritesSound, Writing, Quiet
  <2>4. BinSound'
    BY <1>9, <2>1, BinFrame, NoTaskQuiet DEF BinSound, Moving, Quiet
  <2> QED BY <1>9, <2>3, <2>4, KeptFrame
<1>10. ASSUME NEW w \in Workers, NEW at \in {"fill", "succeeded", "failed"}, task[w].at \in {"fetch", "fill"}
       PROVE  /\ [task[w] EXCEPT !.at = at] \in Task
              /\ [task[w] EXCEPT !.at = at].at = at
              /\ [task[w] EXCEPT !.at = at].version = task[w].version
              /\ [task[w] EXCEPT !.at = at].does = task[w].does
  BY <1>10 DEF Typed, FilesTypeOK, Task
<1>11. ASSUME NEW w \in Workers, Fetched(w)  PROVE Places'
  <2> DEFINE t == [task[w] EXCEPT !.at = "fill"]
  <2>1. t \in Task /\ t.at = "fill" /\ t.version = task[w].version /\ t.does = "pull"
    BY <1>10, <1>11 DEF Fetched, Typed, TasksFormed, WellFormed
  <2>2. task' = [task EXCEPT ![w] = t]
    BY <1>11 DEF Fetched, Typed, FilesTypeOK
  <2> HIDE DEF t
  <2> QED BY <1>9, <1>11, <2>1, <2>2 DEF Fetched
<1>12. ASSUME NEW w \in Workers, WriteFails(w)  PROVE Places'
  <2> DEFINE t == IF task[w].does = "pull" THEN [task[w] EXCEPT !.at = "failed"] ELSE NoTask
  <2>1. t \in Task /\ (t = NoTask \/ (t.at = "failed" /\ t.version = task[w].version /\ t.does = "pull"))
    <3>1. CASE task[w].does = "pull"
      BY <1>10, <1>12, <3>1 DEF WriteFails
    <3>2. CASE ~(task[w].does = "pull")
      <4>1. t = NoTask
        BY <3>2
      <4> QED BY <4>1, NoTaskQuiet
    <3> QED BY <3>1, <3>2
  <2>2. task' = [task EXCEPT ![w] = t]
    BY <1>12 DEF WriteFails, Wrote, Typed, FilesTypeOK
  <2> HIDE DEF t
  <2> QED BY <1>9, <1>12, <2>1, <2>2 DEF WriteFails
<1>13. ASSUME NEW w \in Workers, Commit(w)  PROVE Places'
  <2> DEFINE v == task[w].version  p == task[w].path  old == file[p]
             t == IF task[w].does = "pull" THEN [task[w] EXCEPT !.at = "succeeded"] ELSE NoTask
  <2>1. v \in Versions /\ p \in Paths /\ old \in Versions \cup {Absent} /\ old = file[p]
    BY <1>13 DEF Typed, FilesTypeOK, TasksFormed, WellFormed, Writing, Commit
  <2>2. t \in Task /\ (t = NoTask \/ (t.at = "succeeded" /\ t.version = v /\ t.does = "pull"))
    <3>1. CASE task[w].does = "pull"
      BY <1>10, <1>13, <3>1 DEF Commit
    <3>2. CASE ~(task[w].does = "pull")
      <4>1. t = NoTask
        BY <3>2
      <4> QED BY <4>1, NoTaskQuiet
    <3> QED BY <3>1, <3>2
  <2>3. \A x \in Workers : task'[x] = IF x = w THEN t ELSE task[x]
    BY <1>13 DEF Commit, Wrote, Typed, FilesTypeOK
  <2>4. task[w].at = "fill"
    BY <1>13 DEF Commit
  <2> HIDE DEF t
  <2>5. fate[v] = "unborn" /\ job[v] \in {"none", "running"} /\ ~InVolume(v) /\ ~InBin(v)
    BY <2>1, <2>4 DEF WritesSound, Writing, FilesKept
  <2>6. old # Absent => fate[old] = "kept" /\ ~InBin(old) /\ \A q \in Paths : q # p => file[q] # old
    BY <2>1 DEF FilesKept, OnePlace, InVolume, Free
  <2>7. old # v
    BY <2>1, <2>5, <2>6
  <2>8. /\ \A q \in Paths : file'[q] = IF q = p THEN v ELSE file[q]
        /\ \A u \in Versions : fate'[u] = IF u = v THEN "kept" ELSE IF u = old THEN "replaced" ELSE fate[u]
        /\ bin' = bin /\ job' = job
    BY <1>13, <2>1, <2>7 DEF Commit, Typed, FilesTypeOK
  <2>9. \A x \in Workers : Writing(task[x]) => task[x].version \in Versions
    BY DEF Typed, TasksFormed, WellFormed
  <2>10. \A x \in Workers : x # w => task[x].version # v
    BY <2>4 DEF WritesSound, Writing
  <2>11. \A x, y \in Workers : x # y /\ Writing(task[x]) => task[y].version # task[x].version
    BY DEF WritesSound
  <2>12. \A x \in Workers : Writing(task[x]) =>
            /\ job[task[x].version] \in {"none", "running"}
            /\ task[x].at = "succeeded" <=> fate[task[x].version] # "unborn"
    BY DEF WritesSound
  <2> HIDE DEF v, p, old
  <2>13. \A u \in Versions : /\ InVolume(u)' <=> u = v \/ (InVolume(u) /\ u # old)
                             /\ InBin(u)' <=> InBin(u)
    BY <2>1, <2>5, <2>6, <2>7, <2>8 DEF InVolume, InBin
  <2>14. OnePlace'
    BY <2>1, <2>5, <2>6, <2>8, <2>13 DEF FilesKept, OnePlace, InVolume, InBin, Free
  <2>15. JobsTell'
    BY <2>1, <2>5, <2>6, <2>8 DEF FilesKept, JobsTell
  <2>16. \A u \in Versions : fate'[u] = "kept" <=> InVolume(u)' \/ InBin(u)'
    <3>1. \A u \in Versions : fate[u] = "kept" <=> InVolume(u) \/ InBin(u)
      BY DEF FilesKept
    <3>2. old # Absent => ~InBin(old)
      BY <2>6
    <3>3. Absent \notin Versions
      OBVIOUS
    <3>4. ASSUME NEW u \in Versions  PROVE fate'[u] = "kept" <=> InVolume(u)' \/ InBin(u)'
      <4>1. CASE u = v
        BY <2>8, <2>13, <4>1
      <4>2. CASE u # v /\ u = old
        BY <2>8, <2>13, <3>2, <3>3, <4>2
      <4>3. CASE u # v /\ u # old
        BY <2>8, <2>13, <3>1, <4>3
      <4> QED BY <4>1, <4>2, <4>3
    <3> QED BY <3>4
  <2>17. ASSUME NEW x \in Workers, Writing(task'[x])
         PROVE  /\ \A y \in Workers : x # y => task'[y].version # task'[x].version
                /\ job'[task'[x].version] \in {"none", "running"}
                /\ task'[x].at = "succeeded" <=> fate'[task'[x].version] # "unborn"
    <3>1. CASE x = w
      BY <2>1, <2>2, <2>3, <2>5, <2>8, <2>10, <2>17, <3>1, NoTaskQuiet DEF Quiet
    <3>2. CASE x # w
      BY <2>1, <2>2, <2>3, <2>6, <2>8, <2>9, <2>10, <2>11, <2>12, <2>17, <3>2, NoTaskQuiet DEF Quiet
    <3> QED BY <3>1, <3>2
  <2>18. WritesSound'
    BY <2>17 DEF WritesSound
  <2>19. BinSound'
    BY <2>2, <2>3, <2>8, BinFrame, NoTaskQuiet DEF BinSound, Moving, Quiet
  <2> QED BY <2>14, <2>15, <2>16, <2>18, <2>19 DEF FilesKept
<1>14. ASSUME NEW w \in Workers, Report(w)  PROVE Places'
  <2> DEFINE v == task[w].version
  <2>1. v \in Versions /\ Writing(task[w]) /\ job[v] \in {"none", "running"}
    BY <1>14 DEF Typed, TasksFormed, WellFormed, Writing, Report, WritesSound
  <2>2. \A u \in Versions : job'[u] = IF u = v THEN Outcome(w) ELSE job[u]
    BY <1>14, <2>1 DEF Report, Typed, FilesTypeOK
  <2>3. \A x \in Workers : task'[x] = IF x = w THEN NoTask ELSE task[x]
    BY <1>14 DEF Report, Done, Typed, FilesTypeOK
  <2>4. JobsTell'
    BY <1>14, <2>1, <2>2 DEF Report, Outcome, WritesSound, FilesKept, JobsTell
  <2>5. FilesKept'
    BY <1>14, <2>4 DEF Report, FilesKept, InVolume, InBin, OnePlace, Free
  <2>6. \A x \in Workers : Writing(task[x]) => task[x].version \in Versions
    BY DEF Typed, TasksFormed, WellFormed
  <2>7. WritesSound'
    BY <1>14, <2>1, <2>2, <2>3, <2>6, NoTaskQuiet DEF Report, WritesSound, Quiet
  <2>8. BinSound'
    BY <1>14, <2>3, BinFrame, NoTaskQuiet DEF Report, BinSound, Moving, Quiet
  <2> QED BY <2>5, <2>7, <2>8
\* A request that ends by tearing an entry down.
<1>15. ASSUME NEW w \in Workers, NEW b \in BinIds, NEW what \in {"deleted", "purged", "torn"},
              Tear(b, what), UNCHANGED <<file, job>>, Done(w)
       PROVE  Places'
  <2>1. WritesSound' /\ \A x \in Workers : Moving(x)' => Moving(x) /\ task'[x].id = task[x].id
    BY <1>15, TearKeeps, QuietFrame, NoTaskQuiet DEF Done
  <2>2. BinSound'
    BY <1>15, <2>1, TearKeeps, BinFrame
  <2> QED BY <1>15, <2>1, <2>2, TearKeeps
<1>16. ASSUME NEW w \in Workers, TrashMoves(w)  PROVE Places'
  <2> DEFINE p == task[w].path  b == task[w].id  v == file[p]
             t == [task[w] EXCEPT !.at = "record"]
  <2>1. p \in Paths /\ b \in BinIds /\ Moving(w) /\ task[w] \in Task /\ bin[b] \in Entry
    BY <1>16 DEF Typed, FilesTypeOK, TasksFormed, WellFormed, TrashMoves, Moving
  <2>2. CASE ~Movable(w)
    BY <1>15, <1>16, <2>1, <2>2 DEF TrashMoves
  <2>3. CASE Movable(w)
    <3>1. v \in Versions /\ v = file[p] /\ bin[b].is = "there" /\ bin[b].payload = Absent
      BY <2>1, <2>3 DEF Typed, FilesTypeOK, Movable, Free, BinSound
    <3>2. bin' = [bin EXCEPT ![b].payload = v] /\ file' = [file EXCEPT ![p] = Absent]
          /\ fate' = fate /\ job' = job /\ task' = [task EXCEPT ![w].at = "record"]
      BY <1>16, <2>3 DEF TrashMoves
    <3>3. /\ \A q \in Paths : file'[q] = IF q = p THEN Absent ELSE file[q]
          /\ \A c \in BinIds : /\ bin'[c].payload = IF c = b THEN v ELSE bin[c].payload
                               /\ bin'[c].is = bin[c].is
      BY <2>1, <3>2 DEF Typed, FilesTypeOK, Entry
    <3>4. t \in Task /\ t.at = "record" /\ t.version = task[w].version
      BY <2>1 DEF Task
    <3>5. task[w].version = Absent
      BY <2>1 DEF Typed, TasksFormed, WellFormed, Writing, Moving
    <3>6. Quiet(t)
      BY <3>4, <3>5 DEF Quiet, Writing
    <3>7. task' = [task EXCEPT ![w] = t]
      BY <3>2 DEF Typed, FilesTypeOK
    <3> HIDE DEF t
    <3>8. WritesSound' /\ \A x \in Workers : Moving(x)' => x # w /\ Moving(x) /\ task'[x].id = task[x].id
      BY <3>2, <3>4, <3>6, <3>7, QuietFrame
    <3>9. \A x \in Workers : x # w /\ Moving(x) => task[x].id # b /\ task[x].id \in BinIds
      BY <2>1 DEF BinSound, Typed, TasksFormed, WellFormed, Moving
    <3>10. fate[v] = "kept" /\ ~InBin(v) /\ \A q \in Paths : q # p => file[q] # v
      BY <2>1, <3>1 DEF FilesKept, OnePlace, InVolume, Free
    <3> HIDE DEF p, b, v
    <3>11. BinSound'
      BY <3>1, <3>3, <3>8, <3>9 DEF BinSound
    <3>12. \A u \in Versions : /\ InVolume(u)' <=> InVolume(u) /\ u # v
                               /\ InBin(u)' <=> InBin(u) \/ u = v
      BY <2>1, <3>1, <3>3, <3>10 DEF InVolume, InBin
    <3>13. OnePlace'
      BY <2>1, <3>1, <3>3, <3>10, <3>12 DEF FilesKept, OnePlace, InBin, Free
    <3>14. FilesKept'
      <4>1. \A u \in Versions : fate[u] = "kept" <=> InVolume(u) \/ InBin(u)
        BY DEF FilesKept
      <4>2. ASSUME NEW u \in Versions  PROVE fate'[u] = "kept" <=> InVolume(u)' \/ InBin(u)'
        <5>1. CASE u = v
          BY <3>2, <3>10, <3>12, <5>1
        <5>2. CASE u # v
          BY <3>2, <3>12, <4>1, <5>2
        <5> QED BY <5>1, <5>2
      <4>3. JobsTell'
        BY <3>2 DEF FilesKept, JobsTell
      <4> QED BY <3>13, <4>2, <4>3 DEF FilesKept
    <3> QED BY <3>8, <3>11, <3>14
  <2> QED BY <2>2, <2>3
<1>17. ASSUME NEW w \in Workers, RestoreMoves(w)  PROVE Places'
  <2> DEFINE p == task[w].path  b == task[w].id  v == bin[b].payload
             t == [task[w] EXCEPT !.at = "clear"]
  <2>1. p \in Paths /\ b \in BinIds /\ task[w] \in Task /\ bin[b] \in Entry
    BY <1>17 DEF Typed, FilesTypeOK, TasksFormed, WellFormed, RestoreMoves
  <2>2. CASE ~Restorable(w)
    BY <1>4, <1>17, <2>2, NoTaskQuiet DEF RestoreMoves, Done
  <2>3. CASE Restorable(w)
    <3>1. v \in Versions /\ v = bin[b].payload /\ file[p] = Absent
      BY <2>1, <2>3 DEF Entry, Restorable, Free
    <3>2. bin' = [bin EXCEPT ![b].payload = Absent] /\ file' = [file EXCEPT ![p] = v]
          /\ fate' = fate /\ job' = job /\ task' = [task EXCEPT ![w].at = "clear"]
      BY <1>17, <2>3 DEF RestoreMoves
    <3>3. /\ \A q \in Paths : file'[q] = IF q = p THEN v ELSE file[q]
          /\ \A c \in BinIds : /\ bin'[c].payload = IF c = b THEN Absent ELSE bin[c].payload
                               /\ bin'[c].is = bin[c].is
      BY <2>1, <3>2 DEF Typed, FilesTypeOK, Entry
    <3>4. t \in Task /\ t.at = "clear" /\ t.version = task[w].version
      BY <2>1 DEF Task
    <3>5. task[w].version = Absent
      BY <1>17 DEF Typed, TasksFormed, WellFormed, Writing, RestoreMoves
    <3>6. Quiet(t)
      BY <3>4, <3>5 DEF Quiet, Writing
    <3>7. task' = [task EXCEPT ![w] = t]
      BY <3>2 DEF Typed, FilesTypeOK
    <3> HIDE DEF t
    <3>8. WritesSound' /\ \A x \in Workers : Moving(x)' => Moving(x) /\ task'[x].id = task[x].id
      BY <3>2, <3>4, <3>6, <3>7, QuietFrame
    <3>9. BinSound'
      BY <3>3, <3>8, BinFrame DEF BinSound
    <3>10. fate[v] = "kept" /\ ~InVolume(v) /\ InBin(v) /\ \A c \in BinIds : c # b => bin[c].payload # v
      BY <2>1, <3>1 DEF FilesKept, OnePlace, InBin
    <3> HIDE DEF p, b, v
    <3>11. \A u \in Versions : /\ InVolume(u)' <=> InVolume(u) \/ u = v
                               /\ InBin(u)' <=> InBin(u) /\ u # v
      BY <2>1, <3>1, <3>3, <3>10 DEF InVolume, InBin
    <3>12. OnePlace'
      BY <2>1, <3>1, <3>3, <3>10, <3>11 DEF FilesKept, OnePlace, InVolume, Free
    <3>13. FilesKept'
      <4>1. \A u \in Versions : fate[u] = "kept" <=> InVolume(u) \/ InBin(u)
        BY DEF FilesKept
      <4>2. ASSUME NEW u \in Versions  PROVE fate'[u] = "kept" <=> InVolume(u)' \/ InBin(u)'
        <5>1. CASE u = v
          BY <3>2, <3>10, <3>11, <5>1
        <5>2. CASE u # v
          BY <3>2, <3>11, <4>1, <5>2
        <5> QED BY <5>1, <5>2
      <4>3. JobsTell'
        BY <3>2 DEF FilesKept, JobsTell
      <4> QED BY <3>12, <4>2, <4>3 DEF FilesKept
    <3> QED BY <3>8, <3>9, <3>13
  <2> QED BY <2>2, <2>3
<1>18. ASSUME NEW w \in Workers, RecordFails(w) \/ RestoreClears(w) \/ PurgeRemoves(w)  PROVE Places'
  <2>1. task[w].id \in BinIds
    BY <1>18 DEF Typed, TasksFormed, WellFormed, RecordFails, RestoreClears, PurgeRemoves
  <2> QED BY <1>15, <1>18, <2>1 DEF RecordFails, RestoreClears, PurgeRemoves
\* Nobody's request changes.
<1>19. ASSUME UNCHANGED <<task, job>>, \A v \in Versions : fate'[v] = "unborn" <=> fate[v] = "unborn"
       PROVE  WritesSound' /\ \A x \in Workers : Moving(x)' => Moving(x) /\ task'[x].id = task[x].id
  <2>1. \A x \in Workers : Writing(task[x]) => task[x].version \in Versions
    BY DEF Typed, TasksFormed, WellFormed
  <2> QED BY <1>19, <2>1 DEF WritesSound, Moving
<1>20. ASSUME NEW p \in Paths, NEW q \in Paths, Rename(p, q)  PROVE Places'
  <2>1. /\ file[q] = Absent /\ file[p] # Absent /\ p # q
        /\ \A x \in Paths : file'[x] = IF x = p THEN Absent ELSE IF x = q THEN file[p] ELSE file[x]
        /\ bin' = bin
    BY <1>20 DEF Rename, Free, Typed, FilesTypeOK
  <2>2. \A u \in Versions : (InVolume(u)' <=> InVolume(u)) /\ (InBin(u)' <=> InBin(u))
    BY <2>1 DEF InVolume, InBin
  <2>3. OnePlace'
    BY <2>1, <2>2 DEF FilesKept, OnePlace, Free
  <2>4. FilesKept'
    BY <1>20, <2>2, <2>3 DEF FilesKept, JobsTell, Rename
  <2>5. WritesSound' /\ BinSound'
    BY <1>19, <1>20, BinFrame DEF Rename, BinSound
  <2> QED BY <2>4, <2>5
<1>21. ASSUME NEW b \in BinIds, DeleteTrash(b)  PROVE Places'
  BY <1>19, <1>21, TearKeeps, BinFrame DEF DeleteTrash
<1>22. CASE EmptyTrash
  <2>1. Removed.payload = Absent /\ Removed.is = "gone"
    BY DEF Removed, NoEntry
  <2>2. \A b \in BinIds : bin'[b].payload = Absent /\ (bin[b].is # "unborn" => bin'[b].is # "unborn")
    BY <1>22, <2>1 DEF EmptyTrash, BinSound
  <2>3. /\ \A v \in Versions : fate'[v] = IF InBin(v) THEN "deleted" ELSE fate[v]
        /\ file' = file /\ job' = job /\ task' = task
    BY <1>22 DEF EmptyTrash, InBin
  <2>4. \A v \in Versions : InBin(v) => fate[v] = "kept" /\ ~InVolume(v)
    BY DEF FilesKept, OnePlace
  <2>5. \A v \in Versions : (InVolume(v)' <=> InVolume(v)) /\ ~InBin(v)'
    BY <2>2, <2>3 DEF InVolume, InBin
  <2>6. OnePlace'
    BY <2>2, <2>3, <2>5 DEF FilesKept, OnePlace, Free
  <2>7. FilesKept'
    BY <2>3, <2>4, <2>5, <2>6 DEF FilesKept, JobsTell
  <2>8. WritesSound' /\ BinSound'
    BY <1>19, <2>2, <2>3, <2>4, BinFrame DEF BinSound
  <2> QED BY <2>7, <2>8
<1>23. ASSUME NEW b \in BinIds, EntryAges(b)  PROVE Places'
  <2>1. \A c \in BinIds : bin'[c].payload = bin[c].payload /\ bin'[c].is = bin[c].is
    BY <1>23 DEF EntryAges, Typed, FilesTypeOK, Entry
  <2> QED BY <1>19, <1>23, <2>1, KeptFrame, BinFrame DEF EntryAges, BinSound
<1>24. ASSUME NEW v \in Versions, FileAges(v) \/ JobAges(v)  PROVE Places'
  BY <1>19, <1>24, KeptFrame, BinFrame DEF FileAges, JobAges, BinSound
<1>25. ASSUME NEW v \in Versions, Sweep(v)  PROVE Places'
  <2>1. \A u \in Versions : job'[u] = IF u = v THEN "evicted" ELSE job[u]
    BY <1>25 DEF Sweep, Typed, FilesTypeOK
  <2>2. \A x \in Workers : Writing(task[x]) => task[x].version \in Versions /\ task[x].version # v
    BY <1>25 DEF Typed, TasksFormed, WellFormed, WritesSound, Sweep
  <2>3. WritesSound' /\ BinSound'
    BY <1>25, <2>1, <2>2 DEF Sweep, WritesSound, BinSound, Moving
  <2>4. FilesKept'
    BY <1>25, <2>1 DEF Sweep, FilesKept, InVolume, InBin, OnePlace, JobsTell, Free
  <2> QED BY <2>3, <2>4
<1>26. CASE DaemonRestarts
  <2>1. \A x \in Workers : ~Writing(task'[x]) /\ ~Moving(x)'
    BY <1>26, NoTaskQuiet DEF DaemonRestarts, Quiet, Moving
  <2>2. WritesSound' /\ BinSound'
    BY <1>26, <2>1 DEF DaemonRestarts, WritesSound, BinSound
  <2>3. FilesKept'
    BY <1>26 DEF DaemonRestarts, FilesKept, InVolume, InBin, OnePlace, JobsTell, Free
  <2> QED BY <2>2, <2>3
<1>27. CASE UNCHANGED filesVars
  BY <1>19, <1>27, KeptFrame, BinFrame DEF filesVars, BinSound
<1> QED
  BY <1>2, <1>3, <1>5, <1>6, <1>7, <1>8, <1>11, <1>12, <1>13, <1>14, <1>16, <1>17, <1>18,
     <1>20, <1>21, <1>22, <1>23, <1>24, <1>25, <1>26, <1>27 DEF FilesNext

LEMMA PlacesInit == FilesInit => Places
<1> SUFFICES ASSUME FilesInit PROVE Places
  OBVIOUS
<1>1. NoEntry.payload = Absent
  BY DEF NoEntry
<1>2. FilesKept
  BY <1>1 DEF FilesInit, FilesKept, InVolume, InBin, OnePlace, JobsTell, Free
<1> QED BY <1>1, <1>2, NoTaskQuiet DEF FilesInit, Places, BinSound, WritesSound, Moving, Quiet

(***************************************************************************)
(* FilesKept (filesystem.go:640-643, 681-683; downloads.go:173-183), for any *)
(* volume and any requests: no content is lost or doubled by interleaving,  *)
(* and what a job says of its download is so.                               *)
(***************************************************************************)
THEOREM FilesKeptCorrect == FilesSpec => []FilesKept
<1>1. Typed /\ Places /\ [FilesNext]_filesVars => Typed' /\ Places'
  BY TypeStep, PlacesStep
<1>2. FilesInit => Typed /\ Places
  BY TypeInit, PlacesInit
<1>3. Places => FilesKept
  BY DEF Places
<1> QED BY <1>1, <1>2, <1>3, PTL DEF FilesSpec

(***************************************************************************)
(* ConfigFiles: induction over numbers, folds, and the order of the keys.   *)
(***************************************************************************)
\* A set of numbers has a smallest.
LEMMA LeastNatural ==
  ASSUME NEW T \in SUBSET Nat, T # {}
  PROVE  \E m \in T : \A k \in T : m <= k
<1> DEFINE R == {p \in Nat \X Nat : p[1] < p[2]}
<1>1. IsWellFoundedOn(R, Nat)
  BY NatLessThanWellFounded DEF OpToRel
<1>2. PICK m \in T : \A k \in T : <<k, m>> \notin R
  <2> HIDE DEF R
  <2> QED BY <1>1, WFMin
<1>3. ASSUME NEW k \in T  PROVE m <= k
  <2>1. ~(k < m)
    BY <1>2
  <2> QED BY <2>1
<1> QED BY <1>3

\* Induction up to n.
LEMMA UpTo ==
  ASSUME NEW n \in Nat, NEW T, 0 \in T, \A k \in 1..n : k - 1 \in T => k \in T
  PROVE  \A k \in 0..n : k \in T
<1> DEFINE B == {k \in 0..n : k \notin T}
<1>1. SUFFICES ASSUME B # {}  PROVE FALSE
  OBVIOUS
<1>2. PICK m \in B : \A k \in B : m <= k
  <2>1. B \in SUBSET Nat
    OBVIOUS
  <2> HIDE DEF B
  <2> QED BY <1>1, <2>1, LeastNatural
<1>3. m \in 1..n /\ m - 1 \in 0..n /\ ~(m <= m - 1)
  OBVIOUS
<1>4. m - 1 \in T
  BY <1>2, <1>3
<1> QED BY <1>3, <1>4

\* The largest of the numbers 1 to k, and the rest.
LEMMA MaxOfInterval ==
  ASSUME NEW k \in Nat, NEW s \in SUBSET (1..k), k \in s
  PROVE  Max(s) = k
<1>1. \A x \in s : k >= x
  OBVIOUS
<1>2. \A x \in s : (\A y \in s : x >= y) => x = k
  OBVIOUS
<1> QED BY <1>1, <1>2 DEF Max

\* A fold is defined: there is a function of the sets of indices that is base at
\* {} and step of the largest index and the value at the others elsewhere.
Steps(n, V) == [(1..n) \X V -> V]
IsFold(it, n, base, step) ==
  \A s \in SUBSET (1..n) : it[s] = IF s = {} THEN base ELSE step[<<Max(s), it[s \ {Max(s)}]>>]
LEMMA FoldExists ==
  ASSUME NEW n \in Nat, NEW V, NEW base \in V, NEW step \in Steps(n, V)
  PROVE  \E it \in [SUBSET (1..n) -> V] : IsFold(it, n, base, step)
<1> USE DEF Steps, IsFold
<1> DEFINE Is(it, k) == \A s \in SUBSET (1..k) :
              it[s] = IF s = {} THEN base ELSE step[<<Max(s), it[s \ {Max(s)}]>>]
           T == {k \in 0..n : \E it \in [SUBSET (1..k) -> V] : Is(it, k)}
<1>1. 0 \in T
  <2>1. SUBSET (1..0) = {{}}
    OBVIOUS
  <2> DEFINE it == [s \in SUBSET (1..0) |-> base]
  <2>2. it \in [SUBSET (1..0) -> V] /\ Is(it, 0)
    BY <2>1
  <2>3. 0 \in 0..n
    OBVIOUS
  <2> HIDE DEF it, Is
  <2> QED BY <2>2, <2>3
<1>2. ASSUME NEW k \in 1..n, k - 1 \in T  PROVE k \in T
  <2>1. PICK f \in [SUBSET (1..(k - 1)) -> V] : Is(f, k - 1)
    BY <1>2
  <2> DEFINE it == [s \in SUBSET (1..k) |-> IF k \in s THEN step[<<k, f[s \ {k}]>>] ELSE f[s]]
  <2>2. ASSUME NEW s \in SUBSET (1..k)
        PROVE  /\ k \in s => s \ {k} \in SUBSET (1..(k - 1)) /\ s \ {k} \in SUBSET (1..k) /\ Max(s) = k
               /\ k \notin s => s \in SUBSET (1..(k - 1))
    <3>1. k \in s => Max(s) = k
      BY MaxOfInterval
    <3> QED BY <3>1
  <2>3. it \in [SUBSET (1..k) -> V]
    <3>1. ASSUME NEW s \in SUBSET (1..k)  PROVE (IF k \in s THEN step[<<k, f[s \ {k}]>>] ELSE f[s]) \in V
      BY <2>2
    <3> QED BY <3>1
  <2>4. ASSUME NEW s \in SUBSET (1..k)
        PROVE  it[s] = IF s = {} THEN base ELSE step[<<Max(s), it[s \ {Max(s)}]>>]
    <3>1. CASE k \in s
      <4>1. it[s \ {k}] = f[s \ {k}] /\ it[s] = step[<<k, f[s \ {k}]>>]
        BY <2>2, <3>1
      <4> HIDE DEF it
      <4> QED BY <2>2, <3>1, <4>1
    <3>2. CASE k \notin s /\ s # {}
      <4>1. s \in SUBSET (1..(k - 1)) /\ it[s] = f[s]
        BY <2>2, <3>2
      <4>2. s \ {Max(s)} \in SUBSET (1..k) /\ k \notin s \ {Max(s)}
        BY <3>2
      <4>3. it[s \ {Max(s)}] = f[s \ {Max(s)}]
        BY <4>2
      <4> HIDE DEF it
      <4> QED BY <2>1, <3>2, <4>1, <4>3
    <3>3. CASE s = {}
      BY <2>1, <2>2, <3>3
    <3> QED BY <3>1, <3>2, <3>3
  <2>5. Is(it, k) /\ k \in 0..n
    <3> HIDE DEF it
    <3> QED BY <2>4
  <2> HIDE DEF it, Is
  <2> QED BY <2>3, <2>5
<1>3. n \in T
  <2> HIDE DEF T
  <2>1. \A k \in 0..n : k \in T
    BY <1>1, <1>2, UpTo
  <2> QED BY <2>1
<1> HIDE DEF Is
<1>4. PICK it \in [SUBSET (1..n) -> V] : Is(it, n)
  BY <1>3
<1> QED BY <1>4 DEF Is

\* The elements of a finite set can be put in an order.
LEMMA Enumerable ==
  ASSUME NEW S, IsFiniteSet(S), NEW R,
         \A U \in SUBSET S : U # {} => \E m \in U : \A x \in U : <<x, m>> \notin R
  PROVE  \E s \in SetToSeqs(S) : \A i, j \in DOMAIN s : i < j => <<s[j], s[i]>> \notin R
<1> DEFINE InOrder(s) == \A i, j \in DOMAIN s : i < j => <<s[j], s[i]>> \notin R
           Of(U) == \E s \in SetToSeqs(U) : InOrder(s)
           T == {k \in 0..Cardinality(S) : \A U \in SUBSET S : Cardinality(U) = k => Of(U)}
<1>1. Cardinality(S) \in Nat /\ \A U \in SUBSET S : IsFiniteSet(U) /\ Cardinality(U) \in Nat
  BY FS_CardinalityType, FS_Subset
<1>2. 0 \in T
  <2>1. ASSUME NEW U \in SUBSET S, Cardinality(U) = 0  PROVE Of(U)
    <3> DEFINE s == [i \in 1..0 |-> 0]
    <3>1. U = {}
      BY <1>1, <2>1, FS_EmptySet
    <3>2. s \in SetToSeqs(U) /\ InOrder(s)
      BY <2>1, <3>1 DEF SetToSeqs
    <3> QED BY <3>2
  <2> HIDE DEF Of
  <2> QED BY <1>1, <2>1
<1>3. ASSUME NEW k \in 1..Cardinality(S), k - 1 \in T  PROVE k \in T
  <2>1. ASSUME NEW U \in SUBSET S, Cardinality(U) = k  PROVE Of(U)
    <3>1. U # {}
      BY <2>1, FS_EmptySet
    <3>2. PICK m \in U : \A x \in U : <<x, m>> \notin R
      BY <3>1
    <3>3. Cardinality(U \ {m}) = k - 1
      BY <1>1, <2>1, FS_RemoveElement
    <3>4. PICK f \in SetToSeqs(U \ {m}) : InOrder(f)
      <4>1. Of(U \ {m})
        <5> HIDE DEF Of
        <5> QED BY <1>3, <3>3
      <4> QED BY <4>1
    <3> DEFINE s == [i \in 1..k |-> IF i = 1 THEN m ELSE f[i - 1]]
    <3>5. /\ f \in [1..(k - 1) -> U \ {m}]
          /\ \A i, j \in 1..(k - 1) : i # j => f[i] # f[j]
      BY <3>3, <3>4 DEF SetToSeqs
    <3>6. s \in SetToSeqs(U)
      <4>1. ASSUME NEW i \in 1..k  PROVE s[i] \in U /\ (i # 1 => i - 1 \in 1..(k - 1) /\ s[i] = f[i - 1])
        BY <3>5
      <4>2. ASSUME NEW i \in 1..k, NEW j \in 1..k, i # j  PROVE s[i] # s[j]
        BY <3>5, <4>1, <4>2
      <4>3. s \in [1..k -> U]
        BY <4>1
      <4> HIDE DEF s
      <4> QED BY <2>1, <4>2, <4>3 DEF SetToSeqs
    <3>7. ASSUME NEW i \in 1..k, NEW j \in 1..k, i < j  PROVE <<s[j], s[i]>> \notin R
      <4>1. j - 1 \in 1..(k - 1) /\ s[j] = f[j - 1]
        BY <3>7
      <4>2. CASE i = 1
        BY <3>2, <3>5, <4>1, <4>2
      <4>3. CASE i # 1
        <5>1. i - 1 \in 1..(k - 1) /\ s[i] = f[i - 1] /\ i - 1 < j - 1
          BY <3>7, <4>3
        <5> HIDE DEF s
        <5> QED BY <3>4, <3>5, <4>1, <5>1
      <4> QED BY <4>2, <4>3
    <3>8. InOrder(s)
      <4>1. DOMAIN s = 1..k
        OBVIOUS
      <4> HIDE DEF s
      <4> QED BY <3>7, <4>1
    <3> HIDE DEF s, InOrder
    <3> QED BY <3>6, <3>8
  <2> HIDE DEF Of
  <2> QED BY <1>1, <2>1
<1>4. Cardinality(S) \in T
  <2> HIDE DEF T
  <2> QED BY <1>1, <1>2, <1>3, UpTo
<1> QED BY <1>4

\* sortedKeys, of numbers, of paths and of pairs: each asked key once, an earlier
\* one before a later one.
LEMMA OrderedNames ==
  ASSUME NEW S \in SUBSET Nat, IsFiniteSet(S)
  PROVE  Ordered(S, Smaller) \in SetToSeqs(S)
<1> DEFINE R == {p \in S \X S : p[1] < p[2]}
<1>1. ASSUME NEW U \in SUBSET S, U # {}  PROVE \E m \in U : \A x \in U : <<x, m>> \notin R
  <2>1. PICK m \in U : \A x \in U : m <= x
    BY <1>1, LeastNatural
  <2> QED BY <2>1
<1>2. PICK s \in SetToSeqs(S) : \A i, j \in DOMAIN s : i < j => <<s[j], s[i]>> \notin R
  <2> HIDE DEF R
  <2> QED BY <1>1, Enumerable
<1>3. \A i, j \in DOMAIN s : i < j => ~Smaller(s[j], s[i])
  BY <1>2 DEF Smaller, SetToSeqs
<1> QED BY <1>3 DEF Ordered

\* Pairs, by the first and then by the second number.
LEMMA OrderedPairs ==
  ASSUME NEW S \in SUBSET (Nat \X Nat), IsFiniteSet(S)
  PROVE  Ordered(S, Earlier) \in SetToSeqs(S)
<1> DEFINE R == {p \in S \X S : Earlier(p[1], p[2])}
<1>1. ASSUME NEW U \in SUBSET S, U # {}  PROVE \E m \in U : \A x \in U : <<x, m>> \notin R
  <2>1. PICK a \in {u[1] : u \in U} : \A b \in {u[1] : u \in U} : a <= b
    <3>1. {u[1] : u \in U} \in SUBSET Nat /\ {u[1] : u \in U} # {}
      BY <1>1
    <3> QED BY <3>1, LeastNatural
  <2> DEFINE W == {u \in U : u[1] = a}
  <2>2. PICK b \in {u[2] : u \in W} : \A c \in {u[2] : u \in W} : b <= c
    <3>1. {u[2] : u \in W} \in SUBSET Nat /\ {u[2] : u \in W} # {}
      BY <2>1
    <3> HIDE DEF W
    <3> QED BY <3>1, LeastNatural
  <2>3. PICK m \in W : m[2] = b
    OBVIOUS
  <2>4. ASSUME NEW x \in U  PROVE ~Earlier(x, m)
    <3>1. a <= x[1] /\ m[1] = a /\ x[1] \in Nat /\ a \in Nat /\ x[2] \in Nat /\ m[2] \in Nat
      BY <2>1, <2>3
    <3>2. x[1] = a => b <= x[2]
      <4>1. x[1] = a => x[2] \in {u[2] : u \in W}
        OBVIOUS
      <4> QED BY <2>2, <4>1
    <3> QED BY <2>3, <3>1, <3>2 DEF Earlier
  <2> QED BY <2>3, <2>4
<1>2. PICK s \in SetToSeqs(S) : \A i, j \in DOMAIN s : i < j => <<s[j], s[i]>> \notin R
  <2> HIDE DEF R
  <2> QED BY <1>1, Enumerable
<1>3. \A i, j \in DOMAIN s : i < j => ~Earlier(s[j], s[i])
  BY <1>2 DEF SetToSeqs
<1> QED BY <1>3 DEF Ordered

\* Paths: a shorter one is never after a longer one.
LEMMA OrderedPaths ==
  ASSUME NEW S, IsFiniteSet(S), \A p \in S : Len(p) \in Nat
  PROVE  LET s == Ordered(S, Shorter) IN
         /\ s \in SetToSeqs(S)
         /\ \A i, j \in DOMAIN s : i < j => Len(s[i]) <= Len(s[j])
<1> DEFINE R == {p \in S \X S : Len(p[1]) < Len(p[2])}
<1>1. ASSUME NEW U \in SUBSET S, U # {}  PROVE \E m \in U : \A x \in U : <<x, m>> \notin R
  <2>1. PICK a \in {Len(u) : u \in U} : \A b \in {Len(u) : u \in U} : a <= b
    <3>1. {Len(u) : u \in U} \in SUBSET Nat /\ {Len(u) : u \in U} # {}
      BY <1>1
    <3> QED BY <3>1, LeastNatural
  <2>2. PICK m \in U : Len(m) = a
    OBVIOUS
  <2>3. \A x \in U : Len(m) <= Len(x) /\ Len(x) \in Nat /\ Len(m) \in Nat
    BY <2>1, <2>2
  <2> QED BY <2>3
<1>2. PICK s \in SetToSeqs(S) : \A i, j \in DOMAIN s : i < j => <<s[j], s[i]>> \notin R
  <2> HIDE DEF R
  <2> QED BY <1>1, Enumerable
<1>3. \A i, j \in DOMAIN s : i < j => ~Shorter(s[j], s[i])
  BY <1>2 DEF Shorter, SetToSeqs
<1> DEFINE o == Ordered(S, Shorter)
<1>4. o \in SetToSeqs(S) /\ \A i, j \in DOMAIN o : i < j => ~Shorter(o[j], o[i])
  BY <1>3 DEF Ordered
<1>5. \A i \in DOMAIN o : o[i] \in S
  BY <1>4 DEF SetToSeqs
<1> HIDE DEF o
<1>6. \A i, j \in DOMAIN o : i < j => Len(o[i]) <= Len(o[j])
  BY <1>4, <1>5 DEF Shorter
<1> QED BY <1>4, <1>6 DEF o

\* Two sequences one after the other.
LEMMA Joined ==
  ASSUME NEW S, NEW a \in Seq(S), NEW b \in Seq(S)
  PROVE  /\ a \o b \in Seq(S) /\ Len(a \o b) = Len(a) + Len(b)
         /\ \A i \in 1..Len(a) : (a \o b)[i] = a[i]
         /\ \A i \in 1..Len(b) : (a \o b)[Len(a) + i] = b[i]
<1>1. /\ a \o b \in Seq(S) /\ Len(a \o b) = Len(a) + Len(b)
      /\ \A i \in 1..Len(a) + Len(b) : (a \o b)[i] = IF i <= Len(a) THEN a[i] ELSE b[i - Len(a)]
  BY ConcatProperties
<1>2. Len(a) \in Nat /\ Len(b) \in Nat
  OBVIOUS
<1>3. ASSUME NEW i \in 1..Len(b)  PROVE (a \o b)[Len(a) + i] = b[i]
  <2>1. Len(a) + i \in 1..Len(a) + Len(b) /\ ~(Len(a) + i <= Len(a)) /\ Len(a) + i - Len(a) = i
    BY <1>2
  <2> QED BY <1>1, <2>1
<1>4. ASSUME NEW i \in 1..Len(a)  PROVE (a \o b)[i] = a[i]
  BY <1>1, <1>2
<1> QED BY <1>1, <1>3, <1>4

(***************************************************************************)
(* Properties.                                                              *)
(***************************************************************************)
PropertyLines == {l \in Lines : l.is # "section"}
IsOf(l, k) == l.is = "entry" /\ l.key = k

\* The three kinds of lines.
LEMMA LinesFit ==
  ASSUME NEW l \in Lines
  PROVE  /\ l.is \in {"entry", "section", "other"}
         /\ l.is = "entry" => l.key \in Names /\ l.val \in Values /\ l = KeyLine(l.key, l.val)
         /\ l.is = "section" => l.key \in Names /\ l = Header(l.key)
BY DEF Lines, KeyLine, Header, Other

LEMMA KeyLineFits ==
  ASSUME NEW k \in Names, NEW v \in Values
  PROVE  KeyLine(k, v) \in PropertyLines /\ IsOf(KeyLine(k, v), k) /\ KeyLine(k, v).val = v
BY DEF PropertyLines, Lines, KeyLine, IsOf

LEMMA KeyLineIs ==
  ASSUME NEW k, NEW v
  PROVE  KeyLine(k, v).is = "entry" /\ KeyLine(k, v).key = k /\ KeyLine(k, v).val = v
BY DEF KeyLine

\* A reader of properties takes the last line of the key.
LEMMA LastRead ==
  ASSUME NEW lines \in Seq(Lines), NEW k
  PROVE  LET I == {i \in 1..Len(lines) : IsOf(lines[i], k)} IN
         /\ I = {} => ReadProperties(lines, k) = Nothing
         /\ I # {} => \E i \in I : ReadProperties(lines, k) = lines[i].val /\ \A j \in I : j <= i
<1> DEFINE I == {i \in 1..Len(lines) : lines[i].is = "entry" /\ lines[i].key = k}
           last == SelectLastInSeq(lines, LAMBDA l : l.is = "entry" /\ l.key = k)
<1>1. last = IF I # {} THEN Max(I) ELSE 0
  BY DEF SelectLastInSeq
<1>2. I # {} => Max(I) \in I /\ \A j \in I : j <= Max(I)
  <2>1. Len(lines) \in Nat /\ I \in SUBSET (1..Len(lines))
    OBVIOUS
  <2> HIDE DEF I
  <2> QED BY <2>1, MaxOfIndices
<1>3. ReadProperties(lines, k) = IF last = 0 THEN Nothing ELSE lines[last].val
  BY DEF ReadProperties
<1>4. I = {i \in 1..Len(lines) : IsOf(lines[i], k)}
  BY DEF IsOf
<1>5. \A i \in I : i # 0
  OBVIOUS
<1> HIDE DEF I, last
<1> QED BY <1>1, <1>2, <1>3, <1>4, <1>5

\* What mergeProperties makes of a file: the lines in place, then the keys that
\* none of them has.
LEMMA MergedProperties ==
  ASSUME NEW lines \in Seq(PropertyLines), NEW T \in SUBSET Names, IsFiniteSet(T), NEW asked \in [T -> Values]
  PROVE  LET m == MergeProperties(lines, asked) IN
         /\ m \in Seq(PropertyLines) /\ Len(lines) <= Len(m)
         /\ \A i \in 1..Len(lines) :
              m[i] = IF lines[i].is = "entry" /\ lines[i].key \in T
                     THEN KeyLine(lines[i].key, asked[lines[i].key]) ELSE lines[i]
         /\ \A i \in 1..Len(m) : i > Len(lines) => \E k \in T : m[i] = KeyLine(k, asked[k])
         /\ \A k \in T : \E i \in 1..Len(m) : IsOf(m[i], k)
<1> DEFINE Missing == T \ {l.key : l \in {k \in ToSet(lines) : k.is = "entry"}}
           Rewritten(l) == IF l.is = "entry" /\ l.key \in T THEN KeyLine(l.key, asked[l.key]) ELSE l
           ks == Ordered(Missing, Smaller)
           a == [i \in DOMAIN lines |-> Rewritten(lines[i])]
           b == [i \in DOMAIN ks |-> KeyLine(ks[i], asked[ks[i]])]
           m == MergeProperties(lines, asked)
<1>1. m = a \o b
  BY DEF MergeProperties
<1>2. ks \in Seq(Missing) /\ \A k \in Missing : \E i \in 1..Len(ks) : ks[i] = k
  <2>1. Missing \in SUBSET Nat /\ IsFiniteSet(Missing)
    <3>1. Missing \in SUBSET T
      OBVIOUS
    <3> HIDE DEF Missing
    <3> QED BY <3>1, FS_Subset, ConfigAssumption
  <2> HIDE DEF Missing
  <2> QED BY <2>1, OrderedNames, SeqsCover
<1>3. a \in Seq(PropertyLines) /\ Len(a) = Len(lines) /\ \A i \in 1..Len(lines) : a[i] = Rewritten(lines[i])
  <2>1. ASSUME NEW i \in 1..Len(lines)  PROVE Rewritten(lines[i]) \in PropertyLines
    BY KeyLineFits
  <2> HIDE DEF Rewritten
  <2> QED BY <2>1
<1>4. b \in Seq(PropertyLines) /\ Len(b) = Len(ks) /\ \A i \in 1..Len(ks) : b[i] = KeyLine(ks[i], asked[ks[i]])
  <2>1. ASSUME NEW i \in 1..Len(ks)  PROVE ks[i] \in T
    <3> HIDE DEF ks
    <3> QED BY <1>2
  <2>2. ASSUME NEW i \in 1..Len(ks)  PROVE KeyLine(ks[i], asked[ks[i]]) \in PropertyLines
    <3> HIDE DEF ks
    <3> QED BY <2>1, KeyLineFits
  <2>3. DOMAIN ks = 1..Len(ks) /\ Len(ks) \in Nat
    <3> HIDE DEF ks, Missing
    <3> QED BY <1>2
  <2> HIDE DEF ks, Missing
  <2>4. b = [i \in 1..Len(ks) |-> KeyLine(ks[i], asked[ks[i]])]
    BY <2>3
  <2> QED BY <2>2, <2>3, <2>4
<1> HIDE DEF a, b, m, ks
<1>5. /\ m \in Seq(PropertyLines) /\ Len(m) = Len(lines) + Len(ks)
      /\ \A i \in 1..Len(lines) : m[i] = Rewritten(lines[i])
      /\ \A i \in 1..Len(ks) : m[Len(lines) + i] = KeyLine(ks[i], asked[ks[i]])
  <2>0. a \in Seq(PropertyLines) /\ b \in Seq(PropertyLines)
    BY <1>3, <1>4
  <2>1. /\ a \o b \in Seq(PropertyLines) /\ Len(a \o b) = Len(a) + Len(b)
        /\ \A i \in 1..Len(a) : (a \o b)[i] = a[i]
        /\ \A i \in 1..Len(b) : (a \o b)[Len(a) + i] = b[i]
    BY <2>0, Joined
  <2>2. Len(lines) \in Nat /\ Len(ks) \in Nat
    BY <1>2
  <2> HIDE DEF Rewritten, Missing
  <2> QED BY <1>1, <1>3, <1>4, <2>1, <2>2
<1>6. Len(lines) \in Nat /\ Len(ks) \in Nat /\ \A i \in 1..Len(ks) : ks[i] \in Missing /\ ks[i] \in T
  <2>1. Missing \subseteq T
    OBVIOUS
  <2> HIDE DEF Missing
  <2> QED BY <1>2, <2>1
<1>7. ASSUME NEW i \in 1..Len(m), i > Len(lines)  PROVE \E k \in T : m[i] = KeyLine(k, asked[k])
  <2>1. i - Len(lines) \in 1..Len(ks) /\ Len(lines) + (i - Len(lines)) = i
    BY <1>5, <1>6, <1>7
  <2> DEFINE j == i - Len(lines)
  <2>2. ks[j] \in T /\ m[Len(lines) + j] = KeyLine(ks[j], asked[ks[j]])
    BY <1>5, <1>6, <2>1
  <2> HIDE DEF j
  <2> QED BY <2>1, <2>2 DEF j
<1>8. ASSUME NEW k \in T  PROVE \E i \in 1..Len(m) : IsOf(m[i], k)
  <2>1. CASE k \in Missing
    <3>1. PICK i \in 1..Len(ks) : ks[i] = k
      <4> HIDE DEF Missing
      <4> QED BY <1>2, <2>1
    <3>2. Len(lines) + i \in 1..Len(m) /\ m[Len(lines) + i] = KeyLine(k, asked[k])
      BY <1>5, <1>6, <3>1
    <3> QED BY <3>2, KeyLineFits
  <2>2. CASE k \notin Missing
    <3>1. PICK i \in 1..Len(lines) : lines[i].is = "entry" /\ lines[i].key = k
      BY <2>2 DEF ToSet
    <3>2. m[i] = KeyLine(k, asked[k]) /\ i \in 1..Len(m)
      BY <1>5, <1>6, <3>1
    <3> QED BY <3>2, KeyLineFits
  <2> QED BY <2>1, <2>2
<1>9. Len(lines) <= Len(m)
  BY <1>5, <1>6
<1> QED BY <1>5, <1>7, <1>8, <1>9 DEF m

\* A reader of the merged file finds the asked values and, of the other keys, the old ones.
LEMMA ReadsMergedProperties ==
  ASSUME NEW lines \in Seq(PropertyLines), NEW T \in SUBSET Names, IsFiniteSet(T), NEW asked \in [T -> Values],
         NEW k \in Names
  PROVE  ReadProperties(MergeProperties(lines, asked), k) =
           IF k \in T THEN asked[k] ELSE ReadProperties(lines, k)
<1> DEFINE m == MergeProperties(lines, asked)
           n == Len(lines)
           I == {i \in 1..n : IsOf(lines[i], k)}
           J == {i \in 1..Len(m) : IsOf(m[i], k)}
<1>1. /\ m \in Seq(PropertyLines) /\ n <= Len(m)
      /\ \A i \in 1..n : m[i] = IF lines[i].is = "entry" /\ lines[i].key \in T
                                THEN KeyLine(lines[i].key, asked[lines[i].key]) ELSE lines[i]
      /\ \A i \in 1..Len(m) : i > n => \E j \in T : m[i] = KeyLine(j, asked[j])
      /\ \A j \in T : \E i \in 1..Len(m) : IsOf(m[i], j)
  BY MergedProperties
<1>2. lines \in Seq(Lines) /\ m \in Seq(Lines) /\ n \in Nat /\ Len(m) \in Nat
  <2>1. PropertyLines \subseteq Lines
    BY DEF PropertyLines
  <2> HIDE DEF m
  <2> QED BY <1>1, <2>1
<1> HIDE DEF m
<1>3. /\ I = {} => ReadProperties(lines, k) = Nothing
      /\ I # {} => \E i \in I : ReadProperties(lines, k) = lines[i].val /\ \A j \in I : j <= i
  BY <1>2, LastRead
<1>4. /\ J = {} => ReadProperties(m, k) = Nothing
      /\ J # {} => \E i \in J : ReadProperties(m, k) = m[i].val /\ \A j \in J : j <= i
  BY <1>2, LastRead
<1>5. CASE k \in T
  <2>1. ASSUME NEW i \in J  PROVE m[i].val = asked[k]
    <3>1. ASSUME i <= n  PROVE m[i] = KeyLine(k, asked[k])
      <4>1. i \in 1..n
        BY <1>2, <3>1
      <4>2. m[i] = IF lines[i].is = "entry" /\ lines[i].key \in T
                   THEN KeyLine(lines[i].key, asked[lines[i].key]) ELSE lines[i]
        BY <1>1, <4>1
      <4> QED BY <1>5, <4>2, KeyLineIs DEF IsOf
    <3>2. i > n => m[i] = KeyLine(k, asked[k])
      <4>1. i > n => \E j \in T : m[i] = KeyLine(j, asked[j])
        BY <1>1
      <4> QED BY <4>1, KeyLineIs DEF IsOf
    <3>3. i <= n \/ i > n
      BY <1>2
    <3> QED BY <3>1, <3>2, <3>3, KeyLineIs
  <2>2. J # {}
    BY <1>1, <1>5
  <2> QED BY <1>4, <1>5, <2>1, <2>2 DEF m
<1>6. CASE k \notin T
  <2>1. ASSUME NEW i \in J  PROVE i \in I
    <3>1. i <= n
      <4>1. i > n => \E j \in T : m[i] = KeyLine(j, asked[j])
        BY <1>1
      <4>2. i <= n \/ i > n
        BY <1>2
      <4> QED BY <1>6, <4>1, <4>2, KeyLineIs DEF IsOf
    <3>2. i \in 1..n
      BY <1>2, <3>1
    <3>3. m[i] = IF lines[i].is = "entry" /\ lines[i].key \in T
                 THEN KeyLine(lines[i].key, asked[lines[i].key]) ELSE lines[i]
      BY <1>1, <3>2
    <3> QED BY <1>6, <3>2, <3>3, KeyLineIs DEF IsOf
  <2>2. ASSUME NEW i \in I  PROVE i \in J /\ m[i] = lines[i]
    <3>1. i \in 1..Len(m)
      BY <1>1, <1>2
    <3>2. m[i] = lines[i]
      BY <1>1, <1>6 DEF IsOf
    <3> QED BY <3>1, <3>2
  <2>3. I = J
    <3> HIDE DEF I, J
    <3> QED BY <2>1, <2>2
  <2>4. CASE I = {}
    BY <1>3, <1>4, <1>6, <2>3, <2>4 DEF m
  <2>5. CASE I # {}
    <3>1. PICK i \in I : ReadProperties(lines, k) = lines[i].val /\ \A j \in I : j <= i
      BY <1>3, <2>5
    <3>2. PICK j \in J : ReadProperties(m, k) = m[j].val /\ \A x \in J : x <= j
      <4>1. J # {}
        BY <2>3, <2>5
      <4> HIDE DEF J
      <4> QED BY <1>4, <4>1
    <3>3. i = j
      <4>1. i \in J /\ j \in I /\ i \in Int /\ j \in Int
        BY <2>1, <2>2
      <4>2. i <= j /\ j <= i
        <5> HIDE DEF I, J
        <5> QED BY <3>1, <3>2, <4>1
      <4> QED BY <4>1, <4>2
    <3>4. m[j] = lines[i]
      BY <2>2, <3>3
    <3> QED BY <1>6, <3>1, <3>2, <3>4 DEF m
  <2> QED BY <2>4, <2>5
<1> QED BY <1>5, <1>6

\* In the merged file no line is rewritten and no key is missing.
LEMMA PropertiesMergedOnce ==
  ASSUME NEW lines \in Seq(PropertyLines), NEW T \in SUBSET Names, IsFiniteSet(T), NEW asked \in [T -> Values]
  PROVE  LET m == MergeProperties(lines, asked) IN MergeProperties(m, asked) = m
<1> DEFINE m == MergeProperties(lines, asked)
           n == Len(lines)
           missing == T \ {l.key : l \in {k \in ToSet(m) : k.is = "entry"}}
           Rewritten(l) == IF l.is = "entry" /\ l.key \in T THEN KeyLine(l.key, asked[l.key]) ELSE l
           ks == Ordered(missing, Smaller)
           a == [i \in DOMAIN m |-> Rewritten(m[i])]
           b == [i \in DOMAIN ks |-> KeyLine(ks[i], asked[ks[i]])]
<1>1. /\ m \in Seq(PropertyLines) /\ n <= Len(m)
      /\ \A i \in 1..n : m[i] = IF lines[i].is = "entry" /\ lines[i].key \in T
                                THEN KeyLine(lines[i].key, asked[lines[i].key]) ELSE lines[i]
      /\ \A i \in 1..Len(m) : i > n => \E j \in T : m[i] = KeyLine(j, asked[j])
      /\ \A j \in T : \E i \in 1..Len(m) : IsOf(m[i], j)
  BY MergedProperties
<1>2. n \in Nat /\ Len(m) \in Nat
  <2> HIDE DEF m
  <2> QED BY <1>1
<1>3. MergeProperties(m, asked) = a \o b
  <2> HIDE DEF m
  <2> QED BY DEF MergeProperties
<1> HIDE DEF m
<1>4. ks = <<>>
  <2>1. ASSUME NEW k \in T  PROVE k \notin missing
    BY <1>1 DEF IsOf, ToSet
  <2>2. missing = {}
    BY <2>1
  <2>3. ks \in SetToSeqs({})
    <3>1. IsFiniteSet({})
      BY FS_EmptySet
    <3> HIDE DEF missing
    <3> QED BY <2>2, <3>1, OrderedNames
  <2>4. ks \in [1..0 -> {}]
    <3> HIDE DEF ks
    <3> QED BY <2>3, FS_EmptySet DEF SetToSeqs
  <2> HIDE DEF ks
  <2> QED BY <2>4
<1>5. ASSUME NEW i \in 1..Len(m)  PROVE Rewritten(m[i]) = m[i]
  <2>1. CASE i <= n
    <3>1. i \in 1..n
      BY <1>2, <2>1
    <3>2. m[i] = IF lines[i].is = "entry" /\ lines[i].key \in T
                 THEN KeyLine(lines[i].key, asked[lines[i].key]) ELSE lines[i]
      BY <1>1, <3>1
    <3> QED BY <3>2, KeyLineIs
  <2>2. CASE i > n
    <3>1. \E j \in T : m[i] = KeyLine(j, asked[j])
      BY <1>1, <2>2
    <3> QED BY <3>1, KeyLineIs
  <2> QED BY <1>2, <2>1, <2>2
<1>6. a = m
  <2> HIDE DEF Rewritten
  <2> QED BY <1>1, <1>5
<1>7. b = <<>>
  <2>1. DOMAIN ks = {}
    <3> HIDE DEF ks
    <3> QED BY <1>4
  <2> HIDE DEF ks
  <2> QED BY <2>1
<1>8. m \o <<>> = m
  BY <1>1
<1> QED BY <1>3, <1>6, <1>7, <1>8 DEF m

(***************************************************************************)
(* A text of words.                                                         *)
(***************************************************************************)
LEMMA Intervals ==
  ASSUME NEW n \in Nat, NEW k \in 1..n
  PROVE  /\ 1..k \in SUBSET (1..n) /\ 1..(k - 1) \in SUBSET (1..n)
         /\ 1..k # {} /\ Max(1..k) = k /\ (1..k) \ {k} = 1..(k - 1)
<1>1. Max(1..k) = k
  BY MaxOfInterval
<1> QED BY <1>1

LEMMA NonemptyHasMax ==
  ASSUME NEW n \in Nat, NEW s \in SUBSET (1..n), s # {}
  PROVE  Max(s) \in 1..n /\ s \ {Max(s)} \in SUBSET (1..n)
BY MaxOfIndices

\* The keys to replace, in order.
LEMMA KeysInOrder ==
  ASSUME NEW T \in SUBSET Names, IsFiniteSet(T)
  PROVE  LET ks == Ordered(T, Smaller) IN
         /\ ks \in Seq(T) /\ \A k \in T : \E i \in 1..Len(ks) : ks[i] = k
         /\ Len(ks) \in Nat /\ DOMAIN ks = 1..Len(ks)
<1> DEFINE ks == Ordered(T, Smaller)
<1>1. T \in SUBSET Nat
  BY ConfigAssumption
<1>2. ks \in SetToSeqs(T)
  BY <1>1, OrderedNames
<1> HIDE DEF ks
<1>3. ks \in Seq(T) /\ \A k \in T : \E i \in 1..Len(ks) : ks[i] = k
  BY <1>2, SeqsCover
<1>4. Len(ks) \in Nat /\ DOMAIN ks = 1..Len(ks)
  BY <1>3
<1> QED BY <1>3, <1>4 DEF ks

\* mergeFile, a key after another: each word is replaced once, if no value is a key.
LEMMA MergedFile ==
  ASSUME NEW words \in Seq(Names), NEW T \in SUBSET Names, IsFiniteSet(T), NEW asked \in [T -> Names]
  PROVE  LET m == MergeFile(words, asked) IN
         /\ m \in Seq(Names) /\ Len(m) = Len(words)
         /\ T \cap Range(asked) = {} =>
              \A i \in 1..Len(words) : m[i] = IF words[i] \in T THEN asked[words[i]] ELSE words[i]
<1> DEFINE ks == Ordered(T, Smaller)
           n == Len(ks)
           w == Len(words)
           V == [1..w -> Names]
           InText(ws, k) == [i \in DOMAIN ws |-> IF ws[i] = k THEN asked[k] ELSE ws[i]]
           step == [p \in (1..n) \X V |-> InText(p[2], ks[p[1]])]
           f == CHOOSE it : it = [s \in SUBSET DOMAIN ks |->
                                   IF s = {} THEN words ELSE InText(it[s \ {Max(s)}], ks[Max(s)])]
<1>1. MergeFile(words, asked) = f[DOMAIN ks]
  BY DEF MergeFile, FoldLeft, MapThenFoldSet
<1>2. /\ ks \in Seq(T) /\ \A k \in T : \E i \in 1..n : ks[i] = k
      /\ n \in Nat /\ DOMAIN ks = 1..n
  BY KeysInOrder
<1> HIDE DEF ks, n
<1>3. w \in Nat /\ words \in V /\ \A k \in 1..n : ks[k] \in T /\ ks[k] \in Names /\ asked[ks[k]] \in Names
  BY <1>2 DEF n
<1>4. ASSUME NEW ws \in V, NEW k \in 1..n
      PROVE  /\ InText(ws, ks[k]) \in V
             /\ \A i \in 1..w : InText(ws, ks[k])[i] = IF ws[i] = ks[k] THEN asked[ks[k]] ELSE ws[i]
  <2> HIDE DEF w
  <2> QED BY <1>3
<1> HIDE DEF w
<1>5. step \in Steps(n, V)
  <2> HIDE DEF InText, V
  <2> QED BY <1>4 DEF Steps
<1>6. PICK g \in [SUBSET (1..n) -> V] : IsFold(g, n, words, step)
  <2>1. n \in Nat /\ words \in V
    BY <1>2, <1>3
  <2> HIDE DEF step, V
  <2> QED BY <1>5, <2>1, FoldExists
<1>7. g = [s \in SUBSET DOMAIN ks |-> IF s = {} THEN words ELSE InText(g[s \ {Max(s)}], ks[Max(s)])]
  <2>1. ASSUME NEW s \in SUBSET (1..n), s # {}
        PROVE  step[<<Max(s), g[s \ {Max(s)}]>>] = InText(g[s \ {Max(s)}], ks[Max(s)])
    <3>1. Max(s) \in 1..n /\ g[s \ {Max(s)}] \in V
      <4> HIDE DEF V
      <4> QED BY <1>2, <2>1, NonemptyHasMax
    <3> HIDE DEF InText, V
    <3> QED BY <3>1
  <2>2. \A s \in SUBSET (1..n) : g[s] = IF s = {} THEN words ELSE step[<<Max(s), g[s \ {Max(s)}]>>]
    <3> HIDE DEF step, V
    <3> QED BY <1>6 DEF IsFold
  <2> HIDE DEF InText, V, step
  <2> QED BY <1>2, <1>6, <2>1, <2>2
<1>8. f = [s \in SUBSET DOMAIN ks |-> IF s = {} THEN words ELSE InText(f[s \ {Max(s)}], ks[Max(s)])]
  <2> HIDE DEF InText
  <2> QED BY <1>7
<1> HIDE DEF f
<1>9. f[1..0] = words /\ \A k \in 1..n : f[1..k] = InText(f[1..(k - 1)], ks[k])
  <2>1. 1..0 = {} /\ 1..0 \in SUBSET (1..n)
    OBVIOUS
  <2> HIDE DEF InText
  <2>2. f[1..0] = words
    BY <1>2, <1>8, <2>1
  <2>3. ASSUME NEW k \in 1..n  PROVE f[1..k] = InText(f[1..(k - 1)], ks[k])
    <3>1. /\ 1..k \in SUBSET (1..n)
          /\ 1..k # {} /\ Max(1..k) = k /\ (1..k) \ {k} = 1..(k - 1)
      BY <1>2, Intervals
    <3> QED BY <1>2, <1>8, <3>1
  <2> QED BY <2>2, <2>3
<1> DEFINE Upto(k) == {ks[j] : j \in 1..k}
           Right(k) == /\ f[1..k] \in V
                       /\ T \cap Range(asked) = {} =>
                            \A i \in 1..w :
                              f[1..k][i] = IF words[i] \in Upto(k) THEN asked[words[i]] ELSE words[i]
           K == {k \in 0..n : Right(k)}
<1>10. 0 \in K
  BY <1>2, <1>3, <1>9
<1>11. ASSUME NEW k \in 1..n, k - 1 \in K  PROVE k \in K
  <2> DEFINE a == f[1..(k - 1)]
  <2>1. /\ a \in V /\ f[1..k] = InText(a, ks[k])
        /\ T \cap Range(asked) = {} =>
             \A i \in 1..w : a[i] = IF words[i] \in Upto(k - 1) THEN asked[words[i]] ELSE words[i]
    <3> HIDE DEF InText, V
    <3> QED BY <1>9, <1>11
  <2> HIDE DEF a
  <2>2. f[1..k] \in V /\ \A i \in 1..w : f[1..k][i] = IF a[i] = ks[k] THEN asked[ks[k]] ELSE a[i]
    <3> HIDE DEF InText, V
    <3> QED BY <1>4, <2>1
  <2>3. ASSUME T \cap Range(asked) = {}, NEW i \in 1..w
        PROVE  f[1..k][i] = IF words[i] \in Upto(k) THEN asked[words[i]] ELSE words[i]
    <3>1. Upto(k) = Upto(k - 1) \cup {ks[k]}
      <4>1. 1..k = (1..(k - 1)) \cup {k}
        OBVIOUS
      <4> QED BY <4>1
    <3>2. a[i] = IF words[i] \in Upto(k - 1) THEN asked[words[i]] ELSE words[i]
      BY <2>1, <2>3
    <3>3. \A x \in Upto(k - 1) : x \in T
      BY <1>2, <1>3
    <3>4. ASSUME NEW x \in T  PROVE asked[x] \notin T
      BY <2>3, <3>4 DEF Range
    <3> HIDE DEF Upto
    <3> QED BY <1>3, <2>2, <3>1, <3>2, <3>3, <3>4
  <2> HIDE DEF Upto, V
  <2> QED BY <2>2, <2>3
<1>12. n \in K
  <2> HIDE DEF K
  <2>1. n \in Nat /\ \A k \in 0..n : k \in K
    BY <1>2, <1>10, <1>11, UpTo
  <2> QED BY <2>1
<1>13. Upto(n) = T
  BY <1>2, <1>3
<1>14. \A x \in V : x \in Seq(Names) /\ Len(x) = w
  BY <1>3
<1> HIDE DEF Upto, V
<1> QED BY <1>1, <1>2, <1>12, <1>13, <1>14 DEF w

IsMap(f, D, R) == f \in [DOMAIN f -> R] /\ DOMAIN f \subseteq D /\ IsFiniteSet(DOMAIN f)

\* The words of a text after mergeFile, unless what it puts in are keys too.
Replaced(words, asked, m) ==
  /\ m \in Seq(Names) /\ Len(m) = Len(words)
  /\ DOMAIN asked \cap Range(asked) = {} =>
       \A i \in 1..Len(words) : m[i] = IF words[i] \in DOMAIN asked THEN asked[words[i]] ELSE words[i]

LEMMA FileReplaced ==
  ASSUME NEW words \in Seq(Names), NEW asked, IsMap(asked, Names, Names)
  PROVE  Replaced(words, asked, MergeFile(words, asked))
<1> DEFINE T == DOMAIN asked
<1>1. T \in SUBSET Names /\ IsFiniteSet(T) /\ asked \in [T -> Names]
  BY DEF IsMap
<1> HIDE DEF T
<1>2. LET m == MergeFile(words, asked) IN
         /\ m \in Seq(Names) /\ Len(m) = Len(words)
         /\ T \cap Range(asked) = {} =>
              \A i \in 1..Len(words) : m[i] = IF words[i] \in T THEN asked[words[i]] ELSE words[i]
  BY <1>1, MergedFile
<1> QED BY <1>2 DEF Replaced, T

\* No word of the merged text is a key.
LEMMA FileMergedOnce ==
  ASSUME NEW words \in Seq(Names), NEW asked, IsMap(asked, Names, Names), DOMAIN asked \cap Range(asked) = {}
  PROVE  LET m == MergeFile(words, asked) IN MergeFile(m, asked) = m
<1> DEFINE m == MergeFile(words, asked)
           o == MergeFile(m, asked)
<1>1. Replaced(words, asked, m)
  BY FileReplaced
<1>2. Replaced(m, asked, o)
  <2>1. m \in Seq(Names)
    BY <1>1 DEF Replaced
  <2> HIDE DEF m
  <2> QED BY <2>1, FileReplaced
<1> HIDE DEF m, o
<1>3. ASSUME NEW i \in 1..Len(m)  PROVE o[i] = m[i]
  <2>1. ASSUME NEW x \in DOMAIN asked  PROVE asked[x] \notin DOMAIN asked
    BY <2>1 DEF Range
  <2> QED BY <1>1, <1>2, <2>1 DEF Replaced
<1>4. o = m
  BY <1>1, <1>2, <1>3 DEF Replaced
<1> QED BY <1>4 DEF o, m

(***************************************************************************)
(* Trees.                                                                   *)
(***************************************************************************)
TreePaths == PathsOf(Names \cup Odd)
AllTrees == UNION {[U -> Scalars] : U \in SUBSET TreePaths}

LEMMA PathsAre ==
  ASSUME NEW p \in TreePaths
  PROVE  /\ p \in Seq(Names \cup Odd) /\ Len(p) \in Nat
         /\ p \in Dotted => \A i \in 1..Len(p) : p[i] \notin Odd
<1>1. p \in Seq(Names \cup Odd) /\ Len(p) \in Nat
  BY DEF TreePaths, PathsOf
<1>2. ASSUME p \in Dotted, NEW i \in 1..Len(p)  PROVE p[i] \notin Odd
  BY <1>2, ConfigAssumption DEF Dotted, PathsOf
<1> QED BY <1>1, <1>2

LEMMA DottedArePaths == Dotted \subseteq TreePaths
<1>1. \A n \in 1..MaxDepth : [1..n -> Names] \subseteq [1..n -> Names \cup Odd]
  OBVIOUS
<1> QED BY <1>1 DEF Dotted, TreePaths, PathsOf

\* What it is to be a prefix.
LEMMA PrefixIs ==
  ASSUME NEW p \in TreePaths, NEW q \in TreePaths
  PROVE  IsPrefix(p, q) <=> Len(p) <= Len(q) /\ \A i \in 1..Len(p) : p[i] = q[i]
<1>1. p \in Seq(Names \cup Odd) /\ q \in Seq(Names \cup Odd) /\ Len(p) \in Nat /\ Len(q) \in Nat
  BY PathsAre
<1>2. SubSeq(p, 1, Len(p)) = [i \in 1..Len(p) |-> p[i]]
  BY <1>1
<1>3. Len(p) <= Len(q) => SubSeq(q, 1, Len(p)) = [i \in 1..Len(p) |-> q[i]]
  BY <1>1
<1> QED BY <1>2, <1>3 DEF IsPrefix

\* A path is not longer than one it is a prefix of.
LEMMA OfPrefixes ==
  ASSUME NEW p \in TreePaths, NEW q \in TreePaths
  PROVE  /\ Len(p) \in Nat /\ IsPrefix(p, p) /\ (IsPrefix(p, q) => Len(p) <= Len(q))
         /\ IsPrefix(p, q) /\ Len(q) <= Len(p) => p = q
<1>1. p \in Seq(Names \cup Odd) /\ q \in Seq(Names \cup Odd) /\ Len(p) \in Nat /\ Len(q) \in Nat
  BY PathsAre
<1>2. IsPrefix(p, q) <=> Len(p) <= Len(q) /\ \A i \in 1..Len(p) : p[i] = q[i]
  BY PrefixIs
<1>3. IsPrefix(p, p)
  BY <1>1, PrefixIs
<1> QED BY <1>1, <1>2, <1>3

\* A tree is a function of paths.
LEMMA TreesFit ==
  ASSUME NEW t
  PROVE  t \in AllTrees <=> /\ t = [p \in DOMAIN t |-> t[p]] /\ DOMAIN t \subseteq TreePaths
                            /\ \A p \in DOMAIN t : t[p] \in Scalars
<1>1. ASSUME t \in AllTrees
      PROVE  /\ t = [p \in DOMAIN t |-> t[p]] /\ DOMAIN t \subseteq TreePaths
             /\ \A p \in DOMAIN t : t[p] \in Scalars
  BY <1>1 DEF AllTrees
<1>2. ASSUME t = [p \in DOMAIN t |-> t[p]], DOMAIN t \subseteq TreePaths, \A p \in DOMAIN t : t[p] \in Scalars
      PROVE  t \in AllTrees
  <2>1. t \in [DOMAIN t -> Scalars]
    BY <1>2
  <2> QED BY <1>2, <2>1 DEF AllTrees
<1> QED BY <1>1, <1>2

\* The leaves that are in the way of no asked path and in no map with odd keys
\* that one goes through stay; of the asked paths those that no other one extends
\* are there, with what was asked for.
KeptLeaves(tree, A) == {p \in DOMAIN tree : \A a \in A : ~Related(p, a) /\ ~Swept(tree, a, p)}
Longest(A) == {a \in A : \A b \in A : IsPrefix(a, b) => a = b}
Grown(tree, A, asked, m) ==
  /\ m \in AllTrees /\ DOMAIN m = KeptLeaves(tree, A) \cup Longest(A)
  /\ \A p \in DOMAIN m : m[p] = IF p \in A THEN Plain[asked[p]] ELSE tree[p]

\* The odd keys of the merged tree are those of leaves that were kept.
LEMMA OddKept ==
  ASSUME NEW tree \in AllTrees, NEW A \in SUBSET Dotted, NEW m, DOMAIN m = KeptLeaves(tree, A) \cup Longest(A),
         NEW l \in DOMAIN m, NEW n \in Nat, Len(l) > n, l[n + 1] \in Odd
  PROVE  l \in KeptLeaves(tree, A)
<1>1. ASSUME l \in Longest(A)  PROVE FALSE
  <2>1. l \in Dotted /\ l \in TreePaths
    BY <1>1, DottedArePaths DEF Longest
  <2>2. Len(l) \in Nat /\ \A i \in 1..Len(l) : l[i] \notin Odd
    BY <2>1, PathsAre
  <2>3. n + 1 \in 1..Len(l)
    BY <2>2
  <2> QED BY <2>2, <2>3
<1> QED BY <1>1

\* An asked path stays: if odd keys beside it were kept, they would be in a map it
\* went through.
LEMMA AskedStays ==
  ASSUME NEW tree \in AllTrees, NEW A \in SUBSET Dotted, NEW m, DOMAIN m = KeptLeaves(tree, A) \cup Longest(A),
         NEW x \in Dotted, NEW q \in Longest(A)
  PROVE  ~Swept(m, x, q)
<1> SUFFICES ASSUME Swept(m, x, q)  PROVE FALSE
  OBVIOUS
<1>1. PICK n \in 1..(Len(x) - 1) : Below(q, x, n) /\ Mixed(m, x, n)
  BY DEF Swept
<1>2. PICK l \in DOMAIN m : Below(l, x, n) /\ l[n + 1] \in Odd
  BY <1>1 DEF Mixed
<1>3. q \in A /\ q \in TreePaths /\ Len(q) \in Nat /\ x \in TreePaths /\ Len(x) \in Nat
  <2>1. q \in A /\ q \in TreePaths /\ x \in TreePaths
    BY DottedArePaths DEF Longest
  <2> QED BY <2>1, PathsAre
<1>4. l \in KeptLeaves(tree, A)
  <2>1. n \in Nat /\ Len(l) > n
    BY <1>2, <1>3 DEF Below
  <2> QED BY <1>2, <2>1, OddKept
<1>5. Below(l, q, n) /\ n \in 1..(Len(q) - 1)
  BY <1>1, <1>2, <1>3 DEF Below
<1>6. Below(l, q, n) /\ Mixed(tree, q, n)
  BY <1>2, <1>4, <1>5 DEF Mixed, KeptLeaves
<1>7. Swept(tree, q, l)
  BY <1>5, <1>6 DEF Swept
<1> QED BY <1>3, <1>4, <1>7 DEF KeptLeaves

\* A kept leaf is lost on the way of x in the merged tree as it is in the first
\* one: odd keys under a part of x are lost only together with all that is there.
LEMMA KeptSwept ==
  ASSUME NEW tree \in AllTrees, NEW A \in SUBSET Dotted, NEW m, DOMAIN m = KeptLeaves(tree, A) \cup Longest(A),
         NEW x \in Dotted, NEW p \in KeptLeaves(tree, A)
  PROVE  Swept(m, x, p) <=> Swept(tree, x, p)
<1>0. /\ DOMAIN tree \subseteq TreePaths /\ p \in DOMAIN tree /\ p \in TreePaths /\ Len(p) \in Nat
      /\ x \in TreePaths /\ Len(x) \in Nat
      /\ \A a \in A : a \in TreePaths /\ Len(a) \in Nat /\ \A i \in 1..Len(a) : a[i] \notin Odd
  <2>1. DOMAIN tree \subseteq TreePaths /\ p \in DOMAIN tree /\ p \in TreePaths
    BY TreesFit DEF KeptLeaves
  <2>2. x \in TreePaths /\ \A a \in A : a \in TreePaths
    BY DottedArePaths
  <2> QED BY <2>1, <2>2, PathsAre
<1>1. ASSUME Swept(m, x, p)  PROVE Swept(tree, x, p)
  <2>1. PICK n \in 1..(Len(x) - 1) : Below(p, x, n) /\ Mixed(m, x, n)
    BY <1>1 DEF Swept
  <2>2. PICK l \in DOMAIN m : Below(l, x, n) /\ l[n + 1] \in Odd
    BY <2>1 DEF Mixed
  <2>3. l \in DOMAIN tree
    <3>1. n \in Nat /\ Len(l) > n
      BY <1>0, <2>2 DEF Below
    <3> QED BY <2>2, <3>1, OddKept DEF KeptLeaves
  <2> QED BY <2>1, <2>2, <2>3 DEF Swept, Mixed
<1>2. ASSUME Swept(tree, x, p)  PROVE Swept(m, x, p)
  <2>1. PICK n \in 1..(Len(x) - 1) : Below(p, x, n) /\ Mixed(tree, x, n)
    BY <1>2 DEF Swept
  <2>2. PICK l \in DOMAIN tree : Below(l, x, n) /\ l[n + 1] \in Odd
    BY <2>1 DEF Mixed
  <2>3. n \in Nat /\ Len(l) \in Nat /\ l \in TreePaths /\ Len(l) > n /\ Len(p) > n
        /\ \A i \in 1..n : l[i] = x[i] /\ p[i] = x[i]
    <3>1. l \in TreePaths /\ Len(l) \in Nat
      BY <1>0, PathsAre
    <3> QED BY <1>0, <2>1, <2>2, <3>1 DEF Below
  <2>4. ASSUME NEW a \in A, IsPrefix(l, a)  PROVE FALSE
    <3>1. Len(l) <= Len(a) /\ \A i \in 1..Len(l) : l[i] = a[i]
      BY <1>0, <2>3, <2>4, PrefixIs
    <3>2. n + 1 \in 1..Len(l) /\ n + 1 \in 1..Len(a)
      BY <1>0, <2>3, <3>1
    <3> QED BY <1>0, <2>2, <3>1, <3>2
  <2>5. ASSUME NEW a \in A, IsPrefix(a, l)  PROVE FALSE
    <3>1. Len(a) <= Len(l) /\ \A i \in 1..Len(a) : a[i] = l[i]
      BY <1>0, <2>3, <2>5, PrefixIs
    <3>2. Len(a) <= n
      <4>1. n + 1 \notin 1..Len(a)
        BY <1>0, <2>2, <3>1
      <4> QED BY <1>0, <2>3, <4>1
    <3>3. Len(a) <= Len(p) /\ \A i \in 1..Len(a) : a[i] = p[i]
      BY <1>0, <2>3, <3>1, <3>2
    <3>4. IsPrefix(a, p)
      BY <1>0, <3>3, PrefixIs
    <3> QED BY <3>4 DEF KeptLeaves, Related
  <2>6. ASSUME NEW a \in A, Swept(tree, a, l)  PROVE FALSE
    <3>1. PICK k \in 1..(Len(a) - 1) : Below(l, a, k) /\ Mixed(tree, a, k)
      BY <2>6 DEF Swept
    <3>2. k \in Nat /\ Len(l) > k /\ \A i \in 1..k : l[i] = a[i] /\ i \in 1..Len(a)
      BY <1>0, <3>1 DEF Below
    <3>3. k <= n
      <4>1. n + 1 \notin 1..k
        BY <1>0, <2>2, <3>2
      <4> QED BY <2>3, <3>2, <4>1
    <3>4. Below(p, a, k)
      BY <1>0, <2>3, <3>2, <3>3 DEF Below
    <3>5. Swept(tree, a, p)
      BY <3>1, <3>4 DEF Swept
    <3> QED BY <3>5 DEF KeptLeaves
  <2>7. l \in DOMAIN m
    BY <2>4, <2>5, <2>6 DEF KeptLeaves, Related
  <2> QED BY <2>1, <2>2, <2>7 DEF Swept, Mixed
<1> QED BY <1>1, <1>2

\* One path, not shorter than those before it.
LEMMA GrowsByOne ==
  ASSUME NEW tree \in AllTrees, NEW asked, IsMap(asked, Dotted, Scalars),
         NEW A \in SUBSET (DOMAIN asked), NEW x \in DOMAIN asked, x \notin A, \A a \in A : Len(a) <= Len(x),
         NEW m, Grown(tree, A, asked, m)
  PROVE  Grown(tree, A \cup {x}, asked, SetDotted(m, x, Plain[asked[x]]))
<1> DEFINE D == {q \in DOMAIN m : ~Related(q, x) /\ ~Swept(m, x, q)} \cup {x}
           o == SetDotted(m, x, Plain[asked[x]])
           B == A \cup {x}
<1>1. o = [p \in D |-> IF p = x THEN Plain[asked[x]] ELSE m[p]]
  BY DEF SetDotted
<1>2. A \in SUBSET Dotted /\ x \in Dotted /\ asked[x] \in Scalars /\ Plain[asked[x]] \in Scalars
  BY ConfigAssumption DEF IsMap
<1>3. /\ DOMAIN tree \subseteq TreePaths /\ DOMAIN m \subseteq TreePaths /\ A \subseteq TreePaths /\ x \in TreePaths
      /\ \A p \in DOMAIN m : m[p] \in Scalars
      /\ DOMAIN m = KeptLeaves(tree, A) \cup Longest(A)
  BY <1>2, TreesFit, DottedArePaths DEF Grown
<1>4. ASSUME NEW p \in TreePaths  PROVE Related(p, p)
  BY <1>4, OfPrefixes DEF Related
<1>5. KeptLeaves(tree, B) = {q \in KeptLeaves(tree, A) : ~Related(q, x) /\ ~Swept(m, x, q)}
  <2>1. \A q \in KeptLeaves(tree, A) : Swept(m, x, q) <=> Swept(tree, x, q)
    BY <1>2, <1>3, KeptSwept
  <2> QED BY <2>1 DEF KeptLeaves
<1>6. Longest(B) = {q \in Longest(A) : ~Related(q, x) /\ ~Swept(m, x, q)} \cup {x}
  <2>1. ASSUME NEW b \in B, IsPrefix(x, b)  PROVE x = b
    BY <1>3, <2>1, OfPrefixes
  <2>2. ASSUME NEW q \in Longest(A), ~Related(q, x)  PROVE q \in Longest(B)
    BY <2>2 DEF Longest, Related
  <2>3. ASSUME NEW q \in Longest(B), q # x  PROVE q \in Longest(A) /\ ~Related(q, x)
    <3>1. q \in A /\ ~IsPrefix(q, x)
      BY <2>3 DEF Longest
    <3>2. ~IsPrefix(x, q)
      BY <2>1, <2>3, <3>1
    <3> QED BY <2>3, <3>1, <3>2 DEF Longest, Related
  <2>4. x \in Longest(B)
    BY <2>1 DEF Longest
  <2>5. \A q \in Longest(A) : ~Swept(m, x, q)
    BY <1>2, <1>3, AskedStays
  <2> HIDE DEF B
  <2> QED BY <2>2, <2>3, <2>4, <2>5
<1>7. D = KeptLeaves(tree, B) \cup Longest(B)
  <2> HIDE DEF B
  <2> QED BY <1>3, <1>5, <1>6
<1>8. ASSUME NEW p \in D  PROVE o[p] = (IF p \in B THEN Plain[asked[p]] ELSE tree[p]) /\ o[p] \in Scalars
  <2>1. CASE p = x
    BY <1>1, <1>2, <2>1
  <2>2. CASE p # x
    BY <1>1, <1>3, <2>2 DEF Grown
  <2> QED BY <2>1, <2>2
<1>9. DOMAIN o = D /\ o = [p \in D |-> o[p]] /\ D \subseteq TreePaths
  BY <1>1, <1>3
<1> HIDE DEF D, o, B
<1>10. o \in AllTrees
  BY <1>8, <1>9, TreesFit
<1> QED BY <1>7, <1>8, <1>9, <1>10 DEF Grown, o, B

\* What the decoder reads has the paths of the file, and is read as itself again.
LEMMA DecodedFits ==
  ASSUME NEW tree \in AllTrees
  PROVE  /\ Decoded(tree) \in AllTrees /\ DOMAIN Decoded(tree) = DOMAIN tree
         /\ \A p \in DOMAIN tree : Decoded(tree)[p] = Reread[tree[p]]
<1> DEFINE t == Decoded(tree)
<1>1. DOMAIN t = DOMAIN tree /\ \A p \in DOMAIN tree : t[p] = Reread[tree[p]]
  BY DEF Decoded
<1>2. t = [p \in DOMAIN t |-> t[p]]
  BY DEF Decoded
<1>3. DOMAIN tree \subseteq TreePaths /\ \A p \in DOMAIN tree : Reread[tree[p]] \in Scalars
  BY TreesFit, ConfigAssumption
<1> HIDE DEF t
<1>4. t \in AllTrees
  BY <1>1, <1>2, <1>3, TreesFit
<1> QED BY <1>1, <1>4 DEF t

\* SetDotted, for one path after the other.
LEMMA MergedTree ==
  ASSUME NEW given \in AllTrees, NEW asked, IsMap(asked, Dotted, Scalars)
  PROVE  Grown(Decoded(given), DOMAIN asked, asked, MergeTree(given, asked))
<1> DEFINE T == DOMAIN asked
           tree == Decoded(given)
           ks == Ordered(T, Shorter)
           n == Len(ks)
           One(t, p) == SetDotted(t, p, Plain[asked[p]])
           step == [p \in (1..n) \X AllTrees |-> One(p[2], ks[p[1]])]
           f == CHOOSE it : it = [s \in SUBSET DOMAIN ks |->
                                   IF s = {} THEN tree ELSE One(it[s \ {Max(s)}], ks[Max(s)])]
<1>1. MergeTree(given, asked) = f[DOMAIN ks]
  BY DEF MergeTree, FoldLeft, MapThenFoldSet
<1>2. IsFiniteSet(T) /\ T \subseteq Dotted /\ \A p \in T : asked[p] \in Scalars
  BY DEF IsMap
<1>0. tree \in AllTrees
  BY DecodedFits
<1> HIDE DEF tree
<1>3. /\ ks \in SetToSeqs(T)
      /\ \A i, j \in DOMAIN ks : i < j => Len(ks[i]) <= Len(ks[j])
  <2>1. \A p \in T : Len(p) \in Nat
    BY <1>2, DottedArePaths, OfPrefixes
  <2> HIDE DEF T
  <2> QED BY <1>2, <2>1, OrderedPaths
<1> HIDE DEF T, ks, n
<1>4. /\ ks \in Seq(T) /\ n \in Nat /\ DOMAIN ks = 1..n
      /\ \A k \in T : \E i \in 1..n : ks[i] = k
      /\ \A i, j \in 1..n : i # j => ks[i] # ks[j]
      /\ \A i \in 1..n : ks[i] \in T
  <2>1. ks \in Seq(T) /\ \A k \in T : \E i \in 1..Len(ks) : ks[i] = k
    BY <1>2, <1>3, SeqsCover
  <2>2. \A i, j \in DOMAIN ks : i # j => ks[i] # ks[j]
    BY <1>3 DEF SetToSeqs
  <2> QED BY <2>1, <2>2 DEF n
<1>5. ASSUME NEW t \in AllTrees, NEW k \in 1..n  PROVE One(t, ks[k]) \in AllTrees
  <2> DEFINE x == ks[k]
             D == {q \in DOMAIN t : ~Related(q, x) /\ ~Swept(t, x, q)} \cup {x}
             o == One(t, x)
  <2>1. o = [p \in D |-> IF p = x THEN Plain[asked[x]] ELSE t[p]]
    BY DEF SetDotted
  <2>2. x \in TreePaths /\ Plain[asked[x]] \in Scalars
    BY <1>2, <1>4, ConfigAssumption, DottedArePaths
  <2>3. DOMAIN t \subseteq TreePaths /\ \A p \in DOMAIN t : t[p] \in Scalars
    BY TreesFit
  <2> HIDE DEF x, o
  <2>4. DOMAIN o = D /\ o = [p \in DOMAIN o |-> o[p]] /\ D \subseteq TreePaths /\ \A p \in D : o[p] \in Scalars
    BY <2>1, <2>2, <2>3
  <2>5. o \in AllTrees
    BY <2>4, TreesFit
  <2> QED BY <2>5 DEF o, x
<1>6. step \in Steps(n, AllTrees)
  <2> HIDE DEF One
  <2> QED BY <1>5 DEF Steps
<1>7. PICK g \in [SUBSET (1..n) -> AllTrees] : IsFold(g, n, tree, step)
  <2> HIDE DEF step
  <2> QED BY <1>0, <1>4, <1>6, FoldExists
<1>8. g = [s \in SUBSET DOMAIN ks |-> IF s = {} THEN tree ELSE One(g[s \ {Max(s)}], ks[Max(s)])]
  <2>1. ASSUME NEW s \in SUBSET (1..n), s # {}
        PROVE  step[<<Max(s), g[s \ {Max(s)}]>>] = One(g[s \ {Max(s)}], ks[Max(s)])
    <3>1. Max(s) \in 1..n /\ g[s \ {Max(s)}] \in AllTrees
      BY <1>4, <2>1, NonemptyHasMax
    <3> HIDE DEF One
    <3> QED BY <3>1
  <2>2. \A s \in SUBSET (1..n) : g[s] = IF s = {} THEN tree ELSE step[<<Max(s), g[s \ {Max(s)}]>>]
    <3> HIDE DEF step
    <3> QED BY <1>7 DEF IsFold
  <2>3. \A s \in SUBSET (1..n) : g[s] = IF s = {} THEN tree ELSE One(g[s \ {Max(s)}], ks[Max(s)])
    <3> HIDE DEF One, step
    <3> QED BY <2>1, <2>2
  <2>4. DOMAIN ks = 1..n
    BY <1>4
  <2> HIDE DEF One
  <2> QED BY <2>3, <2>4
<1>9. f = [s \in SUBSET DOMAIN ks |-> IF s = {} THEN tree ELSE One(f[s \ {Max(s)}], ks[Max(s)])]
  <2> HIDE DEF One
  <2> QED BY <1>8
<1> HIDE DEF f
<1>10. f[1..0] = tree /\ \A k \in 1..n : f[1..k] = One(f[1..(k - 1)], ks[k])
  <2>1. 1..0 = {} /\ 1..0 \in SUBSET (1..n)
    OBVIOUS
  <2> HIDE DEF One
  <2>2. \A s \in SUBSET (1..n) : f[s] = IF s = {} THEN tree ELSE One(f[s \ {Max(s)}], ks[Max(s)])
    <3>1. DOMAIN ks = 1..n
      BY <1>4
    <3> QED BY <1>9, <3>1
  <2>3. ASSUME NEW k \in 1..n  PROVE f[1..k] = One(f[1..(k - 1)], ks[k])
    <3>1. /\ 1..k \in SUBSET (1..n)
          /\ 1..k # {} /\ Max(1..k) = k /\ (1..k) \ {k} = 1..(k - 1)
      BY <1>4, Intervals
    <3>2. f[1..k] = One(f[(1..k) \ {Max(1..k)}], ks[Max(1..k)])
      BY <2>2, <3>1
    <3> QED BY <3>1, <3>2
  <2>4. f[1..0] = tree
    BY <2>1, <2>2
  <2> QED BY <2>3, <2>4
<1> DEFINE Upto(k) == {ks[j] : j \in 1..k}
           K == {k \in 0..n : Grown(tree, Upto(k), asked, f[1..k])}
<1>11. 0 \in K
  <2>1. Upto(0) = {}
    OBVIOUS
  <2>2. Grown(tree, {}, asked, tree)
    BY <1>0 DEF Grown, KeptLeaves, Longest
  <2>3. f[1..0] = tree /\ 0 \in 0..n
    BY <1>4, <1>10
  <2> HIDE DEF Upto
  <2> QED BY <2>1, <2>2, <2>3
<1>12. ASSUME NEW k \in 1..n, k - 1 \in K  PROVE k \in K
  <2> DEFINE A == Upto(k - 1)
             x == ks[k]
  <2>1. Upto(k) = A \cup {x}
    <3>1. 1..k = (1..(k - 1)) \cup {k}
      OBVIOUS
    <3> QED BY <3>1
  <2>2. A \in SUBSET T /\ x \in T /\ x \notin A /\ \A a \in A : Len(a) <= Len(x)
    <3>1. \A j \in 1..(k - 1) : j \in 1..n /\ j < k /\ j # k
      BY <1>4
    <3> QED BY <1>3, <1>4, <3>1
  <2>3. Grown(tree, A, asked, f[1..(k - 1)])
    BY <1>12
  <2> HIDE DEF A, x
  <2>4. Grown(tree, A \cup {x}, asked, SetDotted(f[1..(k - 1)], x, Plain[asked[x]]))
    BY <1>0, <2>2, <2>3, GrowsByOne DEF T
  <2>5. f[1..k] = SetDotted(f[1..(k - 1)], x, Plain[asked[x]])
    BY <1>10 DEF x
  <2>6. k \in 0..n
    BY <1>4
  <2> HIDE DEF Upto
  <2> QED BY <2>1, <2>4, <2>5, <2>6
<1>13. n \in K
  <2> HIDE DEF K
  <2>1. n \in Nat /\ \A k \in 0..n : k \in K
    BY <1>4, <1>11, <1>12, UpTo
  <2> QED BY <2>1
<1>14. Upto(n) = T
  BY <1>4
<1> HIDE DEF Upto
<1> QED BY <1>1, <1>4, <1>13, <1>14 DEF T, tree

\* A reader of the merged tree: the longest asked paths, and what no asked path meets.
LEMMA ReadsMergedTree ==
  ASSUME NEW tree \in AllTrees, NEW asked, IsMap(asked, Dotted, Scalars), NEW p \in TreePaths
  PROVE  LET m == MergeTree(tree, asked) IN
         /\ p \in DOMAIN asked /\ (\A q \in DOMAIN asked : IsPrefix(p, q) => p = q)
              => ReadTree(m, p) = Plain[asked[p]]
         /\ (\A q \in DOMAIN asked : ~Related(p, q) /\ ~Swept(tree, q, p))
              => ReadTree(m, p) = ReadTree(Decoded(tree), p)
<1> DEFINE m == MergeTree(tree, asked)
           t == Decoded(tree)
           T == DOMAIN asked
<1>1. Grown(t, T, asked, m)
  BY MergedTree
<1>2. \A q : Swept(t, q, p) <=> Swept(tree, q, p)
  BY DecodedFits DEF Swept, Mixed
<1> HIDE DEF m, t
<1>3. ASSUME p \in T, \A q \in T : IsPrefix(p, q) => p = q  PROVE ReadTree(m, p) = Plain[asked[p]]
  BY <1>1, <1>3 DEF Grown, Longest, ReadTree
<1>4. ASSUME \A q \in T : ~Related(p, q) /\ ~Swept(tree, q, p)  PROVE ReadTree(m, p) = ReadTree(t, p)
  <2>1. p \notin T
    BY <1>4, OfPrefixes DEF Related
  <2> QED BY <1>1, <1>2, <1>4, <2>1 DEF Grown, KeptLeaves, Longest, ReadTree
<1> QED BY <1>3, <1>4 DEF m, t

\* In the merged tree the longest asked paths are leaves and the others are lost
\* again, and no asked path goes through a map with odd keys.
LEMMA TreeMergedOnce ==
  ASSUME NEW tree \in AllTrees, NEW asked, IsMap(asked, Dotted, Scalars)
  PROVE  LET m == MergeTree(tree, asked) IN MergeTree(m, asked) = m
<1> DEFINE m == MergeTree(tree, asked)
           t == Decoded(tree)
           d == Decoded(m)
           o == MergeTree(m, asked)
           T == DOMAIN asked
<1>1. Grown(t, T, asked, m) /\ m \in AllTrees /\ t \in AllTrees
  BY MergedTree, DecodedFits DEF Grown
<1> HIDE DEF m
<1>2. Grown(d, T, asked, o) /\ d \in AllTrees
  BY <1>1, MergedTree, DecodedFits
<1>3. /\ DOMAIN d = DOMAIN m /\ \A p \in DOMAIN m : d[p] = Reread[m[p]]
      /\ DOMAIN t = DOMAIN tree /\ \A p \in DOMAIN tree : t[p] = Reread[tree[p]] /\ tree[p] \in Scalars
  BY <1>1, DecodedFits, TreesFit
<1> HIDE DEF t, d, o
<1>4. T \in SUBSET Dotted /\ DOMAIN m = KeptLeaves(t, T) \cup Longest(T)
  BY <1>1 DEF IsMap, Grown
<1>5. KeptLeaves(d, T) = KeptLeaves(t, T)
  <2>1. ASSUME NEW p \in Longest(T)  PROVE Related(p, p) /\ p \in T
    <3>1. p \in TreePaths /\ p \in T
      BY <1>4, DottedArePaths DEF Longest
    <3> QED BY <3>1, OfPrefixes DEF Related
  <2>2. ASSUME NEW p \in KeptLeaves(t, T), NEW a \in T  PROVE ~Swept(d, a, p)
    <3>1. Swept(m, a, p) <=> Swept(t, a, p)
      BY <1>1, <1>4, KeptSwept
    <3>2. Swept(m, a, p) <=> Swept(d, a, p)
      BY <1>3 DEF Swept, Mixed
    <3> QED BY <3>1, <3>2 DEF KeptLeaves
  <2> QED BY <1>3, <1>4, <2>1, <2>2 DEF KeptLeaves
<1>6. DOMAIN o = DOMAIN m
  BY <1>2, <1>4, <1>5 DEF Grown
<1>7. ASSUME NEW p \in DOMAIN m  PROVE o[p] = m[p]
  <2>1. CASE p \in T
    BY <1>1, <1>2, <1>6, <2>1 DEF Grown
  <2>2. CASE p \notin T
    <3>1. p \in DOMAIN tree /\ m[p] = t[p]
      BY <1>1, <1>3, <1>4, <2>2 DEF Grown, KeptLeaves, Longest
    <3>2. o[p] = d[p]
      BY <1>2, <1>6, <2>2 DEF Grown
    <3> QED BY <1>3, <3>1, <3>2, ConfigAssumption
  <2> QED BY <2>1, <2>2
<1>8. m = [p \in DOMAIN m |-> m[p]] /\ o = [p \in DOMAIN o |-> o[p]]
  BY <1>1, <1>2, TreesFit DEF Grown
<1> QED BY <1>6, <1>7, <1>8 DEF o, m

(***************************************************************************)
(* Sections.  What mergeINI has parsed: each section once, "" first, and a   *)
(* section with entries is in the order.                                    *)
(***************************************************************************)
Sections == Names \cup {0}
Entries == {KeyLine(k, v) : k \in Names, v \in Values}
Ini == [cur : Sections, order : Seq(Sections), data : [Sections -> Seq(Entries)]]
OrderOK(o) ==
  o \in Seq(Sections) /\ Len(o) > 0 /\ o[1] = 0 /\ \A i, j \in 1..Len(o) : i # j => o[i] # o[j]
IniOK(x) ==
  /\ x \in Ini /\ x.cur \in ToSet(x.order) /\ OrderOK(x.order)
  /\ \A s \in Sections : x.data[s] # <<>> => s \in ToSet(x.order)

\* A name at the end of an order that does not have it.
LEMMA Appended ==
  ASSUME NEW S, NEW q \in Seq(S), NEW s \in S
  PROVE  /\ Append(q, s) \in Seq(S) /\ Len(Append(q, s)) = Len(q) + 1
         /\ Append(q, s)[Len(q) + 1] = s /\ \A i \in 1..Len(q) : Append(q, s)[i] = q[i]
         /\ ToSet(Append(q, s)) = ToSet(q) \cup {s}
<1>1. /\ Append(q, s) \in Seq(S) /\ Len(Append(q, s)) = Len(q) + 1
      /\ Append(q, s)[Len(q) + 1] = s /\ \A i \in 1..Len(q) : Append(q, s)[i] = q[i]
      /\ Len(q) \in Nat /\ DOMAIN q = 1..Len(q) /\ DOMAIN Append(q, s) = 1..(Len(q) + 1)
  OBVIOUS
<1>2. 1..(Len(q) + 1) = 1..Len(q) \cup {Len(q) + 1}
  BY <1>1
<1>3. ToSet(Append(q, s)) = ToSet(q) \cup {s}
  BY <1>1, <1>2 DEF ToSet
<1> QED BY <1>1, <1>3

LEMMA OrderGrows ==
  ASSUME NEW q, OrderOK(q), NEW s \in Sections, s \notin ToSet(q)
  PROVE  OrderOK(Append(q, s)) /\ ToSet(Append(q, s)) = ToSet(q) \cup {s}
<1> DEFINE o == Append(q, s)
<1>1. /\ q \in Seq(Sections) /\ Len(q) \in Nat /\ Len(q) > 0 /\ q[1] = 0
      /\ \A i, j \in 1..Len(q) : i # j => q[i] # q[j]
  BY DEF OrderOK
<1>2. /\ o \in Seq(Sections) /\ Len(o) = Len(q) + 1 /\ o[Len(q) + 1] = s /\ \A i \in 1..Len(q) : o[i] = q[i]
      /\ ToSet(o) = ToSet(q) \cup {s}
  BY <1>1, Appended
<1> HIDE DEF o
<1>3. \A i \in 1..Len(q) : q[i] # s
  <2>1. \A i \in 1..Len(q) : q[i] \in ToSet(q)
    BY <1>1 DEF ToSet
  <2> QED BY <2>1
<1>4. ASSUME NEW i \in 1..Len(o), NEW j \in 1..Len(o), i # j  PROVE o[i] # o[j]
  <2>1. (i \in 1..Len(q) \/ i = Len(q) + 1) /\ (j \in 1..Len(q) \/ j = Len(q) + 1)
    BY <1>1, <1>2
  <2> QED BY <1>1, <1>2, <1>3, <1>4, <2>1
<1>5. Len(o) > 0 /\ o[1] = 0
  BY <1>1, <1>2
<1> QED BY <1>2, <1>4, <1>5 DEF o, OrderOK

\* Every line that is read keeps the sections well formed.
LEMMA TakeLineKeeps ==
  ASSUME NEW x, IniOK(x), NEW l \in Lines
  PROVE  IniOK(TakeLine(x, l))
<1> DEFINE y == TakeLine(x, l)
<1>1. CASE l.is = "section"
  <2> DEFINE o == IF l.key \in ToSet(x.order) THEN x.order ELSE Append(x.order, l.key)
  <2>1. y = [x EXCEPT !.cur = l.key, !.order = o]
    BY <1>1 DEF TakeLine
  <2>2. l.key \in Sections
    BY <1>1, LinesFit DEF Sections
  <2>3. OrderOK(o) /\ ToSet(o) = ToSet(x.order) \cup {l.key}
    <3>1. CASE l.key \in ToSet(x.order)
      BY <3>1 DEF IniOK
    <3>2. CASE l.key \notin ToSet(x.order)
      <4>1. o = Append(x.order, l.key)
        BY <3>2
      <4>2. OrderOK(x.order)
        BY DEF IniOK
      <4> HIDE DEF o
      <4> QED BY <2>2, <3>2, <4>1, <4>2, OrderGrows
    <3> QED BY <3>1, <3>2
  <2> HIDE DEF o
  <2>4. y.cur = l.key /\ y.order = o /\ y.data = x.data /\ y \in Ini
    BY <2>1, <2>2, <2>3 DEF IniOK, Ini, OrderOK
  <2> HIDE DEF y
  <2> QED BY <2>3, <2>4 DEF IniOK, y
<1>2. CASE l.is = "entry"
  <2>1. y = [x EXCEPT !.data[x.cur] = Append(x.data[x.cur], l)]
    BY <1>2 DEF TakeLine
  <2>2. l \in Entries
    BY <1>2, LinesFit DEF Entries
  <2>3. x.cur \in Sections /\ x.data \in [Sections -> Seq(Entries)] /\ Append(x.data[x.cur], l) \in Seq(Entries)
    BY <2>2 DEF IniOK, Ini
  <2> DEFINE D == [x.data EXCEPT ![x.cur] = Append(x.data[x.cur], l)]
  <2>5. D \in [Sections -> Seq(Entries)] /\ \A s \in Sections : s # x.cur => D[s] = x.data[s]
    <3>1. \A s \in Sections : D[s] = IF s = x.cur THEN Append(x.data[x.cur], l) ELSE x.data[s]
      BY <2>3
    <3>2. D = [s \in Sections |-> D[s]]
      BY <2>3
    <3> HIDE DEF D
    <3> QED BY <2>3, <3>1, <3>2
  <2>6. y = [x EXCEPT !.data = D]
    BY <2>1
  <2> HIDE DEF D, y
  <2>4. /\ y.cur = x.cur /\ y.order = x.order /\ y \in Ini
        /\ \A s \in Sections : s # x.cur => y.data[s] = x.data[s]
    BY <2>5, <2>6 DEF IniOK, Ini
  <2> HIDE DEF y
  <2> QED BY <2>4 DEF IniOK, y
<1>3. CASE l.is = "other"
  <2>1. y = x
    BY <1>3 DEF TakeLine
  <2> QED BY <2>1
<1> QED BY <1>1, <1>2, <1>3, LinesFit

\* Reading the lines of L one after another leads from x to y.
IsRun(g, x, L, y) ==
  /\ g[0] = x /\ g[Len(L)] = y
  /\ \A k \in 1..Len(L) : g[k] = TakeLine(g[k - 1], L[k])
Run(x, L, y) == \E g : IsRun(g, x, L, y)

\* Reading has one result.
LEMMA RunUnique ==
  ASSUME NEW L \in Seq(Lines), NEW x, NEW y, NEW z, Run(x, L, y), Run(x, L, z)
  PROVE  y = z
<1>1. PICK g : IsRun(g, x, L, y)
  BY DEF Run
<1>2. PICK h : IsRun(h, x, L, z)
  BY DEF Run
<1> DEFINE n == Len(L)
           T == {k \in 0..n : g[k] = h[k]}
<1>3. n \in Nat
  OBVIOUS
<1>4. 0 \in T
  BY <1>1, <1>2, <1>3 DEF IsRun
<1>5. ASSUME NEW k \in 1..n, k - 1 \in T  PROVE k \in T
  BY <1>1, <1>2, <1>3, <1>5 DEF IsRun
<1>6. n \in T
  <2> HIDE DEF T, n
  <2>1. \A k \in 0..n : k \in T
    BY <1>3, <1>4, <1>5, UpTo
  <2> QED BY <1>3, <2>1
<1> QED BY <1>1, <1>2, <1>6 DEF IsRun

\* Reading one part after the other.
LEMMA RunJoined ==
  ASSUME NEW A \in Seq(Lines), NEW B \in Seq(Lines), NEW x, NEW y, NEW z, Run(x, A, y), Run(y, B, z)
  PROVE  Run(x, A \o B, z)
<1>1. PICK g : IsRun(g, x, A, y)
  BY DEF Run
<1>2. PICK h : IsRun(h, y, B, z)
  BY DEF Run
<1> DEFINE a == Len(A)
           b == Len(B)
           C == A \o B
           f == [k \in 0..(a + b) |-> IF k <= a THEN g[k] ELSE h[k - a]]
<1>3. a \in Nat /\ b \in Nat
  OBVIOUS
<1>4. /\ Len(C) = a + b
      /\ \A i \in 1..a : C[i] = A[i]
      /\ \A i \in 1..b : C[a + i] = B[i]
  BY Joined
<1> HIDE DEF C, a, b
<1>5. f[0] = x /\ f[a + b] = z
  <2>1. f[0] = g[0]
    BY <1>3
  <2>2. b = 0 => f[a + b] = g[a]
    BY <1>3
  <2>3. ASSUME b # 0  PROVE f[a + b] = h[b]
    <3>1. ~(a + b <= a) /\ (a + b) - a = b /\ a + b \in 0..(a + b)
      BY <1>3, <2>3
    <3>2. f[a + b] = h[(a + b) - a]
      BY <3>1
    <3> HIDE DEF f
    <3> QED BY <3>1, <3>2
  <2> HIDE DEF f
  <2> QED BY <1>1, <1>2, <2>1, <2>2, <2>3 DEF IsRun, a, b
<1>6. ASSUME NEW k \in 1..(a + b)  PROVE f[k] = TakeLine(f[k - 1], C[k])
  <2>1. CASE k <= a
    <3>1. k \in 1..a /\ k - 1 <= a /\ k - 1 \in 0..(a + b) /\ k \in 0..(a + b)
      BY <1>3, <2>1
    <3>2. f[k] = g[k] /\ f[k - 1] = g[k - 1]
      BY <2>1, <3>1
    <3> HIDE DEF f
    <3> QED BY <1>1, <1>4, <3>1, <3>2 DEF IsRun, a
  <2>2. CASE k > a
    <3> DEFINE j == k - a
    <3>1. j \in 1..b /\ k = a + j /\ k \in 0..(a + b) /\ k - 1 \in 0..(a + b) /\ ~(k <= a) /\ k - 1 - a = j - 1
      BY <1>3, <2>2
    <3>2. f[k] = h[j]
      BY <3>1
    <3>3. f[k - 1] = h[j - 1]
      <4>1. CASE k - 1 <= a
        <5>1. k - 1 = a /\ j - 1 = 0
          BY <1>3, <2>2, <4>1
        <5>2. f[k - 1] = g[a]
          BY <3>1, <4>1, <5>1
        <5> HIDE DEF f, j
        <5> QED BY <1>1, <1>2, <5>1, <5>2 DEF IsRun, a
      <4>2. CASE ~(k - 1 <= a)
        BY <3>1, <4>2
      <4> QED BY <4>1, <4>2
    <3> HIDE DEF f, j
    <3>4. C[k] = B[j]
      BY <1>4, <3>1
    <3>5. h[j] = TakeLine(h[j - 1], B[j])
      BY <1>2, <3>1 DEF IsRun, b
    <3> QED BY <3>2, <3>3, <3>4, <3>5
  <2>3. k <= a \/ k > a
    BY <1>3
  <2> QED BY <2>1, <2>2, <2>3
<1> HIDE DEF f
<1>7. IsRun(f, x, C, z)
  BY <1>4, <1>5, <1>6 DEF IsRun
<1> QED BY <1>7 DEF Run, C

\* What was parsed of the lines so far is well formed, and is reached line by line.
GoodInis == {x \in Ini : IniOK(x)}

LEMMA NoSectionsFit == IniOK(NoSections)
<1>1. NoSections.data \in [Sections -> Seq(Entries)] /\ NoSections.cur \in Sections
  BY DEF NoSections, Sections
<1>2. NoSections.order = <<0>> /\ 0 \in Sections /\ <<0>> \in Seq(Sections)
  BY DEF NoSections, Sections
<1>3. NoSections \in Ini
  BY <1>1, <1>2 DEF NoSections, Ini
<1>4. OrderOK(<<0>>) /\ 0 \in ToSet(<<0>>)
  BY <1>2 DEF OrderOK, ToSet
<1> QED BY <1>2, <1>3, <1>4 DEF NoSections, IniOK, Sections

\* mergeINI reads every file line by line into well-formed sections.
LEMMA ParsedRuns ==
  ASSUME NEW lines \in Seq(Lines)
  PROVE  IniOK(Parsed(lines)) /\ Run(NoSections, lines, Parsed(lines))
<1> DEFINE n == Len(lines)
           V == GoodInis
           step == [p \in (1..n) \X V |-> TakeLine(p[2], lines[p[1]])]
           f == CHOOSE it : it = [s \in SUBSET DOMAIN lines |->
                                   IF s = {} THEN NoSections ELSE TakeLine(it[s \ {Max(s)}], lines[Max(s)])]
<1>1. Parsed(lines) = f[DOMAIN lines]
  BY DEF Parsed, FoldLeft, MapThenFoldSet
<1>2. n \in Nat /\ DOMAIN lines = 1..n /\ \A k \in 1..n : lines[k] \in Lines
  OBVIOUS
<1> HIDE DEF n, V
<1>3. NoSections \in V
  BY NoSectionsFit DEF V, GoodInis, IniOK
<1>4. ASSUME NEW x \in V, NEW k \in 1..n  PROVE TakeLine(x, lines[k]) \in V
  BY <1>2, TakeLineKeeps DEF V, GoodInis, IniOK
<1>5. step \in Steps(n, V)
  BY <1>4 DEF Steps
<1>6. PICK g \in [SUBSET (1..n) -> V] : IsFold(g, n, NoSections, step)
  <2> HIDE DEF step
  <2> QED BY <1>2, <1>3, <1>5, FoldExists
<1>7. g = [s \in SUBSET DOMAIN lines |->
             IF s = {} THEN NoSections ELSE TakeLine(g[s \ {Max(s)}], lines[Max(s)])]
  <2>1. ASSUME NEW s \in SUBSET (1..n), s # {}
        PROVE  step[<<Max(s), g[s \ {Max(s)}]>>] = TakeLine(g[s \ {Max(s)}], lines[Max(s)])
    <3>1. Max(s) \in 1..n /\ g[s \ {Max(s)}] \in V
      BY <1>2, <2>1, NonemptyHasMax
    <3> QED BY <3>1
  <2>2. \A s \in SUBSET (1..n) : g[s] = IF s = {} THEN NoSections ELSE step[<<Max(s), g[s \ {Max(s)}]>>]
    <3> HIDE DEF step
    <3> QED BY <1>6 DEF IsFold
  <2> HIDE DEF step
  <2>3. \A s \in SUBSET (1..n) : g[s] = IF s = {} THEN NoSections ELSE TakeLine(g[s \ {Max(s)}], lines[Max(s)])
    BY <2>1, <2>2
  <2>4. DOMAIN lines = 1..n
    BY <1>2
  <2> QED BY <2>3, <2>4
<1>8. f = [s \in SUBSET DOMAIN lines |->
             IF s = {} THEN NoSections ELSE TakeLine(f[s \ {Max(s)}], lines[Max(s)])]
  BY <1>7
<1> HIDE DEF f
<1>9. f[1..0] = NoSections /\ \A k \in 1..n : f[1..k] = TakeLine(f[1..(k - 1)], lines[k])
  <2>1. 1..0 = {} /\ 1..0 \in SUBSET (1..n)
    OBVIOUS
  <2>2. \A s \in SUBSET (1..n) : f[s] = IF s = {} THEN NoSections ELSE TakeLine(f[s \ {Max(s)}], lines[Max(s)])
    <3>1. DOMAIN lines = 1..n
      BY <1>2
    <3> QED BY <1>8, <3>1
  <2>3. ASSUME NEW k \in 1..n  PROVE f[1..k] = TakeLine(f[1..(k - 1)], lines[k])
    <3>1. /\ 1..k \in SUBSET (1..n)
          /\ 1..k # {} /\ Max(1..k) = k /\ (1..k) \ {k} = 1..(k - 1)
      BY <1>2, Intervals
    <3>2. f[1..k] = TakeLine(f[(1..k) \ {Max(1..k)}], lines[Max(1..k)])
      BY <2>2, <3>1
    <3> QED BY <3>1, <3>2
  <2>4. f[1..0] = NoSections
    BY <2>1, <2>2
  <2> QED BY <2>3, <2>4
<1> DEFINE h == [k \in 0..n |-> f[1..k]]
           K == {k \in 0..n : IniOK(f[1..k])}
<1>10. h[0] = NoSections /\ \A k \in 1..n : h[k] = TakeLine(h[k - 1], lines[k])
  <2>1. 0 \in 0..n /\ \A k \in 1..n : k \in 0..n /\ k - 1 \in 0..n
    BY <1>2
  <2> QED BY <1>9, <2>1
<1>11. 0 \in K
  BY <1>2, <1>9, NoSectionsFit
<1>12. ASSUME NEW k \in 1..n, k - 1 \in K  PROVE k \in K
  <2>1. IniOK(TakeLine(f[1..(k - 1)], lines[k]))
    BY <1>2, <1>12, TakeLineKeeps
  <2>2. k \in 0..n
    BY <1>2
  <2> QED BY <1>9, <2>1, <2>2
<1>13. n \in K
  <2> HIDE DEF K
  <2>1. n \in Nat /\ \A k \in 0..n : k \in K
    BY <1>2, <1>11, <1>12, UpTo
  <2> QED BY <2>1
<1>14. h[n] = Parsed(lines)
  BY <1>1, <1>2
<1> HIDE DEF h
<1>15. IsRun(h, NoSections, lines, Parsed(lines))
  BY <1>10, <1>14 DEF IsRun, n
<1> QED BY <1>1, <1>2, <1>13, <1>15 DEF Run

\* A step function repeated n times.
IsRepeated(h, n, base, step) == h[0] = base /\ \A k \in 1..n : h[k] = step[<<k, h[k - 1]>>]
LEMMA Repeated ==
  ASSUME NEW n \in Nat, NEW V, NEW base \in V, NEW step \in Steps(n, V)
  PROVE  \E h \in [0..n -> V] : IsRepeated(h, n, base, step)
<1>1. PICK it \in [SUBSET (1..n) -> V] : IsFold(it, n, base, step)
  BY FoldExists
<1> DEFINE h == [k \in 0..n |-> it[1..k]]
<1>2. \A k \in 0..n : 1..k \in SUBSET (1..n)
  OBVIOUS
<1>3. h \in [0..n -> V]
  BY <1>2
<1>4. h[0] = base
  <2>1. 1..0 = {} /\ 0 \in 0..n /\ {} \in SUBSET (1..n)
    OBVIOUS
  <2>2. it[{}] = base
    BY <1>1, <2>1 DEF IsFold
  <2>3. h[0] = it[1..0]
    BY <2>1
  <2> HIDE DEF h
  <2> QED BY <2>1, <2>2, <2>3
<1>5. ASSUME NEW k \in 1..n  PROVE h[k] = step[<<k, h[k - 1]>>]
  <2>1. /\ 1..k \in SUBSET (1..n)
        /\ 1..k # {} /\ Max(1..k) = k /\ (1..k) \ {k} = 1..(k - 1)
    BY Intervals
  <2>2. it[1..k] = step[<<Max(1..k), it[(1..k) \ {Max(1..k)}]>>]
    BY <1>1, <2>1 DEF IsFold
  <2>3. h[k] = it[1..k] /\ h[k - 1] = it[1..(k - 1)]
    <3>1. k \in 0..n /\ k - 1 \in 0..n
      OBVIOUS
    <3> QED BY <3>1
  <2> HIDE DEF h
  <2> QED BY <2>1, <2>2, <2>3
<1> HIDE DEF h
<1> QED BY <1>3, <1>4, <1>5 DEF IsRepeated

\* h[k] is the first k of the sequences, joined.
IsFlat(h, seqs) == h[0] = <<>> /\ \A k \in 1..Len(seqs) : h[k] = h[k - 1] \o seqs[k]

\* FlattenSeq joins them all.
LEMMA Flattened ==
  ASSUME NEW S, NEW seqs \in Seq(Seq(S))
  PROVE  \E h \in [0..Len(seqs) -> Seq(S)] : IsFlat(h, seqs) /\ FlattenSeq(seqs) = h[Len(seqs)]
<1> DEFINE n == Len(seqs)
           V == Seq(S)
           step == [p \in (1..n) \X V |-> p[2] \o seqs[p[1]]]
           f == CHOOSE g : g = [i \in 1..n |-> IF i = 1 THEN seqs[i] ELSE g[i - 1] \o seqs[i]]
<1>1. n \in Nat /\ \A i \in 1..n : seqs[i] \in V
  OBVIOUS
<1>2. FlattenSeq(seqs) = IF n = 0 THEN seqs ELSE f[n]
  BY DEF FlattenSeq
<1>3. n = 0 => seqs = <<>>
  OBVIOUS
<1> HIDE DEF n
<1>4. <<>> \in V /\ \A a, b \in V : a \o b \in V /\ <<>> \o a = a
  OBVIOUS
<1> HIDE DEF V
<1>5. step \in Steps(n, V)
  BY <1>1, <1>4 DEF Steps
<1>6. PICK h \in [0..n -> V] : h[0] = <<>> /\ \A k \in 1..n : h[k] = step[<<k, h[k - 1]>>]
  <2> DEFINE empty == <<>>
  <2>1. empty \in V
    BY <1>4
  <2> HIDE DEF step, empty
  <2>2. PICK h \in [0..n -> V] : IsRepeated(h, n, empty, step)
    BY <1>1, <1>5, <2>1, Repeated
  <2> QED BY <2>2 DEF IsRepeated, empty
<1>7. ASSUME NEW k \in 1..n  PROVE h[k] = h[k - 1] \o seqs[k]
  <2>1. h[k - 1] \in V
    BY <1>1
  <2> QED BY <1>6, <2>1
<1>8. \A i \in 1..n : i = 1 => h[i] = seqs[i]
  <2>1. h[0] = <<>>
    BY <1>6
  <2>2. \A i \in 1..n : i = 1 => i - 1 = 0
    OBVIOUS
  <2>3. \A i \in 1..n : i = 1 => h[i] = <<>> \o seqs[i]
    BY <1>7, <2>1, <2>2
  <2> QED BY <1>1, <1>4, <2>3
<1>9. f = [i \in 1..n |-> IF i = 1 THEN seqs[i] ELSE f[i - 1] \o seqs[i]]
  <2> DEFINE g == [i \in 1..n |-> h[i]]
  <2>1. ASSUME NEW i \in 1..n  PROVE g[i] = IF i = 1 THEN seqs[i] ELSE g[i - 1] \o seqs[i]
    <3>1. CASE i = 1
      BY <1>8, <3>1
    <3>2. CASE i # 1
      <4>1. i - 1 \in 1..n
        BY <1>1, <3>2
      <4> QED BY <1>7, <3>2, <4>1
    <3> QED BY <3>1, <3>2
  <2>2. g = [i \in 1..n |-> g[i]]
    OBVIOUS
  <2> HIDE DEF g
  <2>3. g = [i \in 1..n |-> IF i = 1 THEN seqs[i] ELSE g[i - 1] \o seqs[i]]
    BY <2>1, <2>2
  <2>4. PICK a : a = [i \in 1..n |-> IF i = 1 THEN seqs[i] ELSE a[i - 1] \o seqs[i]]
    BY <2>3
  <2> HIDE DEF step
  <2> QED BY <2>4, Zenon
<1> HIDE DEF f
<1> DEFINE T == {k \in 0..n : k = 0 \/ f[k] = h[k]}
<1>10. ASSUME NEW k \in 1..n, k - 1 \in T  PROVE k \in T
  <2>1. CASE k = 1
    <3>1. h[1] = seqs[1] /\ 1 \in 1..n /\ 1 \in 0..n
      BY <1>1, <1>8, <2>1
    <3>2. f[1] = seqs[1]
      BY <1>9, <3>1
    <3> QED BY <2>1, <3>1, <3>2
  <2>2. CASE k # 1
    <3>1. k - 1 \in 0..n /\ k - 1 # 0 /\ k \in 0..n
      BY <1>1, <2>2
    <3>2. f[k] = f[k - 1] \o seqs[k]
      BY <1>9, <2>2
    <3> QED BY <1>7, <1>10, <3>1, <3>2
  <2> QED BY <2>1, <2>2
<1>11. n \in T
  <2>1. 0 \in T
    BY <1>1
  <2> HIDE DEF T
  <2>2. n \in Nat /\ n \in 0..n
    BY <1>1
  <2> QED BY <1>10, <2>1, <2>2, UpTo
<1>12. FlattenSeq(seqs) = h[n]
  BY <1>2, <1>3, <1>6, <1>11
<1> QED BY <1>6, <1>7, <1>12 DEF IsFlat, n, V

\* One more sequence is joined at the end.
LEMMA FlattenedMore ==
  ASSUME NEW S, NEW seqs \in Seq(Seq(S)), NEW e \in Seq(S)
  PROVE  FlattenSeq(Append(seqs, e)) = FlattenSeq(seqs) \o e
<1> DEFINE n == Len(seqs)
           more == Append(seqs, e)
<1>1. /\ n \in Nat /\ more \in Seq(Seq(S)) /\ Len(more) = n + 1 /\ more[n + 1] = e
      /\ \A k \in 1..n : more[k] = seqs[k]
  OBVIOUS
<1> HIDE DEF more
<1>2. PICK h : IsFlat(h, seqs) /\ FlattenSeq(seqs) = h[n]
  BY Flattened
<1>3. PICK g : IsFlat(g, more) /\ FlattenSeq(more) = g[n + 1]
  BY <1>1, Flattened
<1> DEFINE T == {k \in 0..n : g[k] = h[k]}
<1>4. 0 \in T
  BY <1>1, <1>2, <1>3 DEF IsFlat
<1> HIDE DEF n
<1>5. ASSUME NEW k \in 1..n, k - 1 \in T  PROVE k \in T
  <2>1. k \in 0..n /\ k \in 1..(n + 1)
    BY <1>1
  <2>2. g[k] = g[k - 1] \o more[k] /\ h[k] = h[k - 1] \o seqs[k]
    BY <1>1, <1>2, <1>3, <2>1 DEF IsFlat, n
  <2> QED BY <1>1, <1>5, <2>1, <2>2
<1>6. n \in T
  <2> HIDE DEF T
  <2>1. n \in 0..n
    BY <1>1
  <2> QED BY <1>1, <1>4, <1>5, <2>1, UpTo
<1>7. n + 1 \in 1..(n + 1) /\ (n + 1) - 1 = n
  BY <1>1
<1>8. g[n + 1] = g[n] \o e
  BY <1>1, <1>3, <1>7 DEF IsFlat
<1> QED BY <1>2, <1>3, <1>6, <1>8 DEF more

LEMMA RunEmpty ==
  ASSUME NEW x
  PROVE  Run(x, <<>>, x)
<1> DEFINE g == [k \in 0..0 |-> x]
<1>1. g[0] = x /\ Len(<<>>) = 0
  OBVIOUS
<1>2. IsRun(g, x, <<>>, x)
  BY <1>1 DEF IsRun
<1> HIDE DEF g
<1> QED BY <1>2 DEF Run

\* x with the entries E in section s.
Filled(x, s, E) == [cur |-> x.cur, order |-> x.order, data |-> [x.data EXCEPT ![s] = E]]

LEMMA FilledIs ==
  ASSUME NEW x \in Ini, NEW s \in Sections, NEW E \in Seq(Entries)
  PROVE  LET y == Filled(x, s, E) IN
         /\ y \in Ini /\ y.cur = x.cur /\ y.order = x.order
         /\ y.data[s] = E /\ \A r \in Sections : r # s => y.data[r] = x.data[r]
         /\ (E = x.data[s] => y = x)
         /\ \A F \in Seq(Entries) : Filled(y, s, F) = Filled(x, s, F)
<1>1. /\ x.data \in [Sections -> Seq(Entries)] /\ x.cur \in Sections /\ x.order \in Seq(Sections)
      /\ x = [cur |-> x.cur, order |-> x.order, data |-> x.data]
  BY DEF Ini
<1> DEFINE D == [x.data EXCEPT ![s] = E]
<1>2. D \in [Sections -> Seq(Entries)] /\ D[s] = E /\ \A r \in Sections : r # s => D[r] = x.data[r]
  <2>1. \A r \in Sections : D[r] = IF r = s THEN E ELSE x.data[r]
    BY <1>1
  <2>2. D = [r \in Sections |-> D[r]]
    BY <1>1
  <2> HIDE DEF D
  <2> QED BY <1>1, <2>1, <2>2
<1>3. E = x.data[s] => D = x.data
  BY <1>1
<1>4. \A F \in Seq(Entries) : [D EXCEPT ![s] = F] = [x.data EXCEPT ![s] = F]
  BY <1>1
<1>6. Filled(x, s, E) = [cur |-> x.cur, order |-> x.order, data |-> D]
  BY DEF Filled
<1> HIDE DEF D
<1>7. Filled(x, s, E) \in Ini
  BY <1>1, <1>2, <1>6 DEF Ini
<1>8. \A F \in Seq(Entries) : Filled(Filled(x, s, E), s, F) = Filled(x, s, F)
  BY <1>4, <1>6 DEF Filled
<1>9. E = x.data[s] => Filled(x, s, E) = x
  BY <1>1, <1>3, <1>6
<1>10. Filled(x, s, E).cur = x.cur /\ Filled(x, s, E).order = x.order /\ Filled(x, s, E).data = D
  BY <1>6
<1> QED BY <1>2, <1>7, <1>8, <1>9, <1>10

LEMMA FilledExcept ==
  ASSUME NEW x \in Ini, NEW s, NEW E
  PROVE  [x EXCEPT !.data[s] = E] = Filled(x, s, E)
<1>1. PICK c, o, d : x = [cur |-> c, order |-> o, data |-> d]
  BY DEF Ini
<1>2. [[cur |-> c, order |-> o, data |-> d] EXCEPT !.data[s] = E]
        = [cur |-> c, order |-> o, data |-> [d EXCEPT ![s] = E]]
  OBVIOUS
<1> QED BY <1>1, <1>2 DEF Filled

\* An entry is appended to the section that is read.
LEMMA TakesEntry ==
  ASSUME NEW x \in Ini, NEW e, e.is = "entry"
  PROVE  TakeLine(x, e) = Filled(x, x.cur, Append(x.data[x.cur], e))
<1> DEFINE F == Append(x.data[x.cur], e)
<1>1. TakeLine(x, e) = [x EXCEPT !.data[x.cur] = F]
  BY DEF TakeLine
<1> HIDE DEF F
<1>2. [x EXCEPT !.data[x.cur] = F] = Filled(x, x.cur, F)
  BY FilledExcept
<1> QED BY <1>1, <1>2 DEF F

\* An entry is a line.
LEMMA EntriesAreLines == Entries \in SUBSET Lines /\ \A e \in Entries : e.is = "entry" /\ e.key \in Names
BY DEF Entries, Lines, KeyLine

\* The entries of the section that is read are appended to it.
LEMMA RunEntries ==
  ASSUME NEW x \in Ini, x.data[x.cur] = <<>>, NEW E \in Seq(Entries)
  PROVE  Run(x, E, Filled(x, x.cur, E))
<1> DEFINE n == Len(E)
           s == x.cur
           g == [k \in 0..n |-> Filled(x, s, SubSeq(E, 1, k))]
<1>1. n \in Nat /\ s \in Sections /\ \A k \in 1..n : E[k] \in Entries
  BY DEF Ini
<1>2. /\ SubSeq(E, 1, 0) = <<>> /\ SubSeq(E, 1, n) = E
      /\ \A k \in 0..n : SubSeq(E, 1, k) \in Seq(Entries)
      /\ \A k \in 1..n : SubSeq(E, 1, k) = Append(SubSeq(E, 1, k - 1), E[k])
  OBVIOUS
<1> HIDE DEF n, s
<1>3. g[0] = x /\ g[n] = Filled(x, s, E)
  <2>1. 0 \in 0..n /\ n \in 0..n
    BY <1>1
  <2>2. g[0] = Filled(x, s, <<>>)
    BY <1>2, <2>1
  <2>3. Filled(x, s, <<>>) = x
    <3>1. <<>> \in Seq(Entries)
      OBVIOUS
    <3> DEFINE none == <<>>
    <3>2. none \in Seq(Entries) /\ none = x.data[s] /\ s \in Sections
      BY <1>1, <3>1 DEF s
    <3> HIDE DEF none
    <3>3. Filled(x, s, none) = x
      BY <3>2, FilledIs
    <3> QED BY <3>3 DEF none
  <2> QED BY <1>2, <2>1, <2>2, <2>3
<1>4. ASSUME NEW k \in 1..n  PROVE g[k] = TakeLine(g[k - 1], E[k])
  <2> DEFINE P == SubSeq(E, 1, k - 1)
             y == Filled(x, s, P)
  <2>1. k \in 0..n /\ k - 1 \in 0..n
    BY <1>1
  <2>2. g[k - 1] = y /\ g[k] = Filled(x, s, Append(P, E[k]))
    BY <1>2, <2>1
  <2>3. P \in Seq(Entries) /\ E[k] \in Entries /\ E[k].is = "entry" /\ Append(P, E[k]) \in Seq(Entries)
    <3>1. Append(P, E[k]) \in Seq(Entries)
      BY <1>2, <2>1
    <3> QED BY <1>1, <1>2, <2>1, <3>1, EntriesAreLines
  <2> HIDE DEF g, P
  <2>4. /\ y \in Ini /\ y.cur = s /\ y.data[s] = P
        /\ Filled(y, s, Append(P, E[k])) = Filled(x, s, Append(P, E[k]))
    <3>1. y \in Ini /\ y.cur = x.cur /\ y.data[s] = P
      BY <1>1, <2>3, FilledIs
    <3> DEFINE F == Append(P, E[k])
    <3>2. F \in Seq(Entries)
      BY <2>3
    <3> HIDE DEF F, P, s
    <3>3. Filled(Filled(x, s, P), s, F) = Filled(x, s, F)
      BY <1>1, <2>3, <3>2, FilledIs
    <3> QED BY <3>1, <3>3 DEF s, F
  <2> HIDE DEF y
  <2>5. TakeLine(y, E[k]) = Filled(y, s, Append(P, E[k]))
    BY <2>3, <2>4, TakesEntry
  <2> QED BY <2>2, <2>4, <2>5
<1> HIDE DEF g
<1>5. IsRun(g, x, E, Filled(x, s, E))
  BY <1>3, <1>4 DEF IsRun, n
<1> QED BY <1>5 DEF Run, s

\* x with the new section s and its entries E.
Opened(x, s, E) == [cur |-> s, order |-> Append(x.order, s), data |-> [x.data EXCEPT ![s] = E]]

\* The header of a new section and its entries open it.
LEMMA RunSection ==
  ASSUME NEW x, IniOK(x), NEW s \in Names, s \notin ToSet(x.order), NEW E \in Seq(Entries)
  PROVE  /\ IniOK(Opened(x, s, E))
         /\ <<Header(s)>> \o E \in Seq(Lines) /\ Run(x, <<Header(s)>> \o E, Opened(x, s, E))
<1> DEFINE y == [cur |-> s, order |-> Append(x.order, s), data |-> x.data]
<1>1. Header(s) \in Lines /\ Header(s).is = "section" /\ Header(s).key = s /\ s \in Sections
  BY DEF Header, Lines, Sections
<1>2. x \in Ini /\ x.data[s] = <<>> /\ OrderOK(x.order) /\ x.order \in Seq(Sections)
  BY <1>1 DEF IniOK, OrderOK
<1>3. TakeLine(x, Header(s)) = y
  <2>1. TakeLine(x, Header(s)) = [x EXCEPT !.cur = s, !.order = Append(x.order, s)]
    BY <1>1 DEF TakeLine
  <2> QED BY <1>2, <2>1 DEF Ini
<1>4. IniOK(y) /\ y.cur = s /\ y.data = x.data /\ y.order = Append(x.order, s)
  BY <1>1, <1>3, TakeLineKeeps
<1>5. Run(x, <<Header(s)>>, y)
  <2> DEFINE g == [k \in 0..1 |-> IF k = 0 THEN x ELSE y]
  <2>1. g[0] = x /\ g[1] = y /\ Len(<<Header(s)>>) = 1 /\ <<Header(s)>>[1] = Header(s)
    OBVIOUS
  <2> HIDE DEF g, y
  <2>2. IsRun(g, x, <<Header(s)>>, y)
    BY <1>3, <2>1 DEF IsRun
  <2> QED BY <2>2 DEF Run
<1>6. Filled(y, s, E) = Opened(x, s, E)
  BY DEF Filled, Opened
<1> HIDE DEF y
<1>7. Run(y, E, Opened(x, s, E))
  <2>1. y \in Ini /\ y.data[y.cur] = <<>>
    BY <1>2, <1>4 DEF IniOK
  <2> QED BY <1>4, <1>6, <2>1, RunEntries
<1>8. E \in Seq(Lines) /\ <<Header(s)>> \in Seq(Lines) /\ <<Header(s)>> \o E \in Seq(Lines)
  <2>1. E \in Seq(Lines)
    BY EntriesAreLines
  <2>2. <<Header(s)>> \in Seq(Lines)
    BY <1>1
  <2> QED BY <2>1, <2>2, Joined
<1>9. IniOK(Opened(x, s, E))
  <2>1. /\ Filled(y, s, E) \in Ini /\ Filled(y, s, E).cur = s /\ Filled(y, s, E).order = y.order
        /\ \A r \in Sections : r # s => Filled(y, s, E).data[r] = y.data[r]
    <3>1. y \in Ini /\ y.cur = s
      BY <1>4 DEF IniOK
    <3> HIDE DEF y
    <3> QED BY <1>1, <3>1, FilledIs
  <2>2. s \in ToSet(y.order)
    BY <1>4 DEF IniOK
  <2> HIDE DEF y
  <2> QED BY <1>4, <1>6, <2>1, <2>2 DEF IniOK
<1> QED BY <1>5, <1>7, <1>8, <1>9, RunJoined

\* The lines that are written back, section by section.
Blocks(x) == [i \in DOMAIN x.order |-> Section(x, x.order[i])]

LEMMA SectionFits ==
  ASSUME NEW x \in Ini, NEW s \in Sections
  PROVE  Section(x, s) \in Seq(Lines)
<1>1. x.data[s] \in Seq(Lines)
  BY EntriesAreLines DEF Ini
<1>2. CASE s = 0
  BY <1>1, <1>2 DEF Section
<1>3. CASE s # 0
  <2>1. <<Header(s)>> \in Seq(Lines)
    BY <1>3 DEF Header, Lines, Sections
  <2>2. <<Header(s)>> \o x.data[s] \in Seq(Lines)
    BY <1>1, <2>1, Joined
  <2> QED BY <1>1, <1>3, <2>2 DEF Section
<1> QED BY <1>2, <1>3

\* Each section is written back to one block, in the order of the sections.
LEMMA BlocksFit ==
  ASSUME NEW x, IniOK(x)
  PROVE  /\ Blocks(x) \in Seq(Seq(Lines)) /\ Len(Blocks(x)) = Len(x.order) /\ Len(x.order) \in Nat
         /\ \A i \in 1..Len(x.order) : x.order[i] \in Sections /\ Blocks(x)[i] = Section(x, x.order[i])
         /\ Emitted(x) = FlattenSeq(Blocks(x)) /\ Emitted(x) \in Seq(Lines)
<1>1. x \in Ini /\ x.order \in Seq(Sections) /\ Len(x.order) \in Nat /\ DOMAIN x.order = 1..Len(x.order)
  BY DEF IniOK, Ini
<1>2. \A i \in 1..Len(x.order) : x.order[i] \in Sections /\ Section(x, x.order[i]) \in Seq(Lines)
  BY <1>1, SectionFits
<1> DEFINE n == Len(x.order)
           V == Seq(Lines)
           B(i) == Section(x, x.order[i])
<1>3. Blocks(x) = [i \in 1..n |-> B(i)]
  BY <1>1 DEF Blocks
<1> HIDE DEF n, V, B
<1>4. Blocks(x) \in Seq(V) /\ Len(Blocks(x)) = n /\ \A i \in 1..n : Blocks(x)[i] = B(i)
  <2>1. n \in Nat /\ \A i \in 1..n : B(i) \in V
    BY <1>1, <1>2 DEF n, V, B
  <2> QED BY <1>3, <2>1
<1>5. Emitted(x) = FlattenSeq(Blocks(x))
  BY DEF Emitted, Blocks
<1>6. FlattenSeq(Blocks(x)) \in Seq(Lines)
  <2>1. PICK h \in [0..n -> Seq(Lines)] : FlattenSeq(Blocks(x)) = h[n]
    BY <1>4, Flattened DEF V
  <2>2. n \in 0..n
    BY <1>1 DEF n
  <2> QED BY <2>1, <2>2
<1> QED BY <1>1, <1>2, <1>4, <1>5, <1>6 DEF n, V, B

\* A new section is written back after the others.
LEMMA EmittedOpened ==
  ASSUME NEW x, IniOK(x), NEW s \in Names, s \notin ToSet(x.order), NEW E \in Seq(Entries)
  PROVE  Emitted(Opened(x, s, E)) = Emitted(x) \o Section(Opened(x, s, E), s)
<1> DEFINE y == Opened(x, s, E)
           n == Len(x.order)
           e == Section(y, s)
<1>1. s \in Sections /\ x \in Ini /\ n \in Nat /\ x.order \in Seq(Sections)
  BY BlocksFit DEF Sections, IniOK, Ini
<1>2. y.order = Append(x.order, s) /\ y.data = [x.data EXCEPT ![s] = E] /\ IniOK(y)
  BY RunSection DEF Opened
<1>3. /\ Len(y.order) = n + 1 /\ y.order[n + 1] = s
      /\ \A i \in 1..n : y.order[i] = x.order[i] /\ x.order[i] # s /\ x.order[i] \in Sections
  <2>1. /\ Len(y.order) = n + 1 /\ y.order[n + 1] = s
        /\ \A i \in 1..n : y.order[i] = x.order[i]
    BY <1>1, <1>2, Appended
  <2>2. \A i \in 1..n : x.order[i] \in ToSet(x.order) /\ x.order[i] \in Sections
    BY <1>1 DEF ToSet
  <2> QED BY <2>1, <2>2
<1>4. \A i \in 1..n : y.data[x.order[i]] = x.data[x.order[i]]
  BY <1>1, <1>2, <1>3 DEF Ini
<1> HIDE DEF y
<1>5. /\ Blocks(y) \in Seq(Seq(Lines)) /\ Len(Blocks(y)) = n + 1
      /\ \A i \in 1..(n + 1) : Blocks(y)[i] = Section(y, y.order[i])
      /\ Emitted(y) = FlattenSeq(Blocks(y))
  BY <1>2, <1>3, BlocksFit
<1>6. /\ Blocks(x) \in Seq(Seq(Lines)) /\ Len(Blocks(x)) = n
      /\ \A i \in 1..n : Blocks(x)[i] = Section(x, x.order[i])
      /\ Emitted(x) = FlattenSeq(Blocks(x))
  BY BlocksFit
<1>7. \A i \in 1..n : Section(y, y.order[i]) = Section(x, x.order[i])
  BY <1>3, <1>4 DEF Section
<1>8. Section(y, s) \in Seq(Lines)
  BY <1>1, <1>2, SectionFits DEF IniOK
<1>9. Blocks(y) = Append(Blocks(x), Section(y, s))
  <2> DEFINE V == Seq(Lines)
             a == Blocks(y)
             b == Blocks(x)
             c == Section(y, s)
  <2>1. a \in Seq(V) /\ b \in Seq(V) /\ c \in V /\ Len(a) = n + 1 /\ Len(b) = n
    BY <1>5, <1>6, <1>8
  <2>2. a[n + 1] = c /\ \A i \in 1..n : a[i] = b[i]
    <3>1. n + 1 \in 1..(n + 1) /\ \A i \in 1..n : i \in 1..(n + 1)
      BY <1>1
    <3> QED BY <1>3, <1>5, <1>6, <1>7, <3>1
  <2> HIDE DEF a, b, c, V, n
  <2>3. a = Append(b, c)
    BY <2>1, <2>2
  <2> QED BY <2>3 DEF a, b, c
<1>10. FlattenSeq(Append(Blocks(x), Section(y, s))) = FlattenSeq(Blocks(x)) \o Section(y, s)
  BY <1>6, <1>8, FlattenedMore
<1> QED BY <1>5, <1>6, <1>9, <1>10 DEF y

\* "" has no header.
LEMMA SectionPlain ==
  ASSUME NEW x \in Ini
  PROVE  /\ Section(x, 0) = x.data[0]
         /\ \A s \in Names : Section(x, s) = IF x.data[s] = <<>> THEN <<>> ELSE <<Header(s)>> \o x.data[s]
<1>1. 0 \in Sections /\ x.data[0] \in Seq(Entries)
  BY DEF Sections, Ini
<1>2. Section(x, 0) = x.data[0]
  BY <1>1 DEF Section
<1>3. \A s \in Names : s # 0
  BY ConfigAssumption
<1> QED BY <1>2, <1>3 DEF Section

\* What is written back is the file with only the section "".
LEMMA OnlyPlain ==
  ASSUME NEW E \in Seq(Entries)
  PROVE  LET x == Filled(NoSections, 0, E) IN
         /\ IniOK(x) /\ Run(NoSections, E, x) /\ Emitted(x) = E /\ ToSet(x.order) = {0}
         /\ \A s \in Sections : x.data[s] = IF s = 0 THEN E ELSE <<>>
<1> DEFINE x == Filled(NoSections, 0, E)
<1>1. /\ 0 \in Sections /\ NoSections \in Ini /\ NoSections.cur = 0 /\ NoSections.order = <<0>>
      /\ IniOK(NoSections)
  BY NoSectionsFit DEF Sections, IniOK, NoSections
<1>2. \A s \in Sections : NoSections.data[s] = <<>>
  BY DEF NoSections, Sections
<1>3. /\ x \in Ini /\ x.cur = 0 /\ x.order = <<0>> /\ x.data[0] = E
      /\ \A s \in Sections : s # 0 => x.data[s] = <<>>
  BY <1>1, <1>2, FilledIs
<1>4. Run(NoSections, E, x)
  BY <1>1, <1>2, RunEntries
<1> HIDE DEF x
<1>5. ToSet(<<0>>) = {0} /\ OrderOK(<<0>>)
  BY <1>1 DEF ToSet, OrderOK
<1>6. IniOK(x)
  BY <1>3, <1>5 DEF IniOK
<1>7. Emitted(x) = E
  <2>1. /\ Blocks(x) \in Seq(Seq(Lines)) /\ Len(Blocks(x)) = 1
        /\ Emitted(x) = FlattenSeq(Blocks(x)) /\ Blocks(x)[1] = Section(x, 0)
    <3>1. Len(x.order) = 1 /\ x.order[1] = 0 /\ 1 \in 1..1
      BY <1>3
    <3> QED BY <1>6, <3>1, BlocksFit
  <2>2. Section(x, 0) = E
    BY <1>3, SectionPlain
  <2>3. PICK h : IsFlat(h, Blocks(x)) /\ FlattenSeq(Blocks(x)) = h[1]
    BY <2>1, Flattened
  <2>4. h[1] = <<>> \o E
    <3>1. 1 \in 1..Len(Blocks(x)) /\ 1 - 1 = 0
      BY <2>1
    <3>2. h[0] = <<>> /\ h[1] = h[1 - 1] \o Blocks(x)[1]
      BY <2>3, <3>1 DEF IsFlat
    <3> QED BY <2>1, <2>2, <3>1, <3>2
  <2>5. <<>> \o E = E
    OBVIOUS
  <2> QED BY <2>1, <2>3, <2>4, <2>5
<1> QED BY <1>3, <1>4, <1>5, <1>6, <1>7 DEF x

\* Reading what was written back gives the same sections, and these are written
\* as they were.
LEMMA Reparsed ==
  ASSUME NEW ini, IniOK(ini)
  PROVE  LET x == Parsed(Emitted(ini)) IN
         Emitted(ini) \in Seq(Lines) /\ IniOK(x) /\ x.data = ini.data /\ Emitted(x) = Emitted(ini)
<1> DEFINE o == ini.order
           n == Len(o)
           Part(j) == {o[i] : i \in 1..j}
<1>1. /\ ini \in Ini /\ n \in Nat /\ n > 0 /\ o[1] = 0 /\ \A i, j \in 1..n : i # j => o[i] # o[j]
      /\ \A s \in Sections : ini.data[s] \in Seq(Entries) /\ (ini.data[s] # <<>> => s \in Part(n))
  BY DEF IniOK, OrderOK, Ini, ToSet
<1>2. /\ Blocks(ini) \in Seq(Seq(Lines)) /\ Len(Blocks(ini)) = n
      /\ \A i \in 1..n : o[i] \in Sections /\ Blocks(ini)[i] = Section(ini, o[i])
      /\ Emitted(ini) = FlattenSeq(Blocks(ini)) /\ Emitted(ini) \in Seq(Lines)
  BY BlocksFit
<1>3. PICK h \in [0..n -> Seq(Lines)] : IsFlat(h, Blocks(ini)) /\ Emitted(ini) = h[n]
  BY <1>2, Flattened
<1>4. h[0] = <<>> /\ \A i \in 1..n : h[i] = h[i - 1] \o Section(ini, o[i]) /\ h[i - 1] \in Seq(Lines)
  <2>1. h[0] = <<>> /\ \A i \in 1..n : h[i] = h[i - 1] \o Blocks(ini)[i]
    BY <1>2, <1>3 DEF IsFlat
  <2>2. \A i \in 1..n : i - 1 \in 0..n
    BY <1>1
  <2> HIDE DEF n
  <2> QED BY <1>2, <1>3, <2>1, <2>2
<1> DEFINE Data(j, x) == \A s \in Sections : x.data[s] = IF s \in Part(j) THEN ini.data[s] ELSE <<>>
           Is(j, x) ==
             /\ IniOK(x) /\ Run(NoSections, h[j], x) /\ Emitted(x) = h[j]
             /\ ToSet(x.order) \subseteq Part(j) /\ Data(j, x)
           K == {j \in 0..n : j = 0 \/ \E x : Is(j, x)}
<1> HIDE DEF n
<1>5. 1 \in K
  <2> DEFINE x == Filled(NoSections, 0, ini.data[0])
  <2>1. 0 \in Sections /\ ini.data[0] \in Seq(Entries) /\ Part(1) = {0} /\ 1 \in 1..n /\ 1 \in 0..n
    BY <1>1 DEF Sections
  <2>2. h[1] = ini.data[0]
    <3>1. h[1] = <<>> \o Section(ini, 0)
      <4>1. \A i \in 1..n : i = 1 => h[i] = h[0] \o Section(ini, o[i])
        <5>1. \A i \in 1..n : i = 1 => i - 1 = 0
          OBVIOUS
        <5> QED BY <1>4, <5>1
      <4> QED BY <1>1, <1>4, <2>1, <4>1
    <3> QED BY <1>1, <2>1, <3>1, SectionPlain
  <2>3. /\ IniOK(x) /\ Run(NoSections, ini.data[0], x) /\ Emitted(x) = ini.data[0] /\ ToSet(x.order) = {0}
        /\ \A s \in Sections : x.data[s] = IF s = 0 THEN ini.data[0] ELSE <<>>
    BY <2>1, OnlyPlain
  <2> HIDE DEF x, Part
  <2>4. Data(1, x)
    BY <2>1, <2>3
  <2>5. Is(1, x)
    <3> HIDE DEF Data
    <3> QED BY <2>1, <2>2, <2>3, <2>4
  <2> HIDE DEF Is
  <2> QED BY <2>1, <2>5
<1>6. ASSUME NEW k \in 1..n, k # 1, k - 1 \in K  PROVE k \in K
  <2> DEFINE s == o[k]
             E == ini.data[s]
  <2>1. /\ k - 1 \in 1..n /\ k \in 0..n /\ k - 1 # 0 /\ s \in Sections /\ E \in Seq(Entries)
        /\ s # 0 /\ s \in Names /\ s \notin Part(k - 1)
        /\ Part(k) = Part(k - 1) \cup {s} /\ h[k] = h[k - 1] \o Section(ini, s) /\ h[k - 1] \in Seq(Lines)
    <3>1. k - 1 \in 1..n /\ k \in 0..n /\ k - 1 # 0 /\ 1 \in 1..n /\ \A i \in 1..(k - 1) : i \in 1..n /\ i # k
      BY <1>1, <1>6
    <3>2. s \in Sections /\ E \in Seq(Entries)
      BY <1>1, <1>2
    <3>3. s # 0 /\ s \in Names
      BY <1>1, <1>6, <3>1, <3>2 DEF Sections
    <3>4. s \notin Part(k - 1)
      BY <1>1, <3>1
    <3>5. Part(k) = Part(k - 1) \cup {s}
      <4>1. 1..k = 1..(k - 1) \cup {k}
        OBVIOUS
      <4> QED BY <4>1
    <3> QED BY <1>4, <3>1, <3>2, <3>3, <3>4, <3>5
  <2>2. PICK x : Is(k - 1, x)
    <3> HIDE DEF Is
    <3> QED BY <1>6, <2>1
  <2> HIDE DEF Part, s, E
  <2>3. s \notin ToSet(x.order) /\ x \in Ini /\ x.data[s] = <<>>
    BY <2>1, <2>2 DEF IniOK
  <2>4. CASE E = <<>>
    <3>1. h[k] = h[k - 1]
      <4>1. Section(ini, s) = <<>>
        BY <1>1, <2>1, <2>4, SectionPlain DEF E
      <4>2. \A a \in Seq(Lines) : a \o <<>> = a
        OBVIOUS
      <4> QED BY <2>1, <4>1, <4>2
    <3>2. Data(k, x)
      BY <2>1, <2>2, <2>3, <2>4 DEF E
    <3>3. Is(k, x)
      <4> HIDE DEF Data
      <4> QED BY <2>1, <2>2, <3>1, <3>2
    <3> HIDE DEF Is
    <3> QED BY <2>1, <3>3
  <2>5. CASE E # <<>>
    <3> DEFINE y == Opened(x, s, E)
               L == <<Header(s)>> \o E
    <3>1. Section(ini, s) = L
      BY <1>1, <2>1, <2>5, SectionPlain DEF E
    <3>2. IniOK(y) /\ L \in Seq(Lines) /\ Run(x, L, y)
      BY <2>1, <2>2, <2>3, RunSection
    <3>3. y.data = [x.data EXCEPT ![s] = E] /\ y.order = Append(x.order, s)
      BY DEF Opened
    <3>4. ToSet(y.order) = ToSet(x.order) \cup {s}
      BY <2>1, <2>3, <3>3, Appended DEF Ini
    <3>5. y.data[s] = E /\ \A r \in Sections : r # s => y.data[r] = x.data[r]
      BY <2>1, <2>3, <3>3 DEF Ini
    <3>6. Emitted(y) = Emitted(x) \o Section(y, s)
      BY <2>1, <2>2, <2>3, EmittedOpened
    <3> HIDE DEF y
    <3>7. Section(y, s) = L
      BY <2>1, <2>5, <3>2, <3>5, SectionPlain DEF IniOK
    <3>8. Run(NoSections, h[k - 1] \o L, y)
      BY <2>1, <2>2, <3>2, RunJoined
    <3>9. Data(k, y)
      BY <2>1, <2>2, <3>5 DEF E
    <3>10. Is(k, y)
      <4> HIDE DEF Data, L
      <4> QED BY <2>1, <2>2, <3>1, <3>2, <3>4, <3>6, <3>7, <3>8, <3>9
    <3> HIDE DEF Is
    <3> QED BY <2>1, <3>10
  <2> QED BY <2>4, <2>5
<1>7. PICK x : Is(n, x)
  <2> HIDE DEF Is
  <2>1. 0 \in K
    BY <1>1
  <2>2. \A k \in 1..n : k - 1 \in K => k \in K
    <3> HIDE DEF K
    <3> QED BY <1>5, <1>6
  <2>3. n \in K
    <3> HIDE DEF K
    <3>1. n \in 0..n
      BY <1>1
    <3> QED BY <1>1, <2>1, <2>2, <3>1, UpTo
  <2> QED BY <1>1, <2>3
<1>8. x = Parsed(Emitted(ini))
  BY <1>2, <1>3, <1>7, ParsedRuns, RunUnique
<1>9. x.data = ini.data
  <2>1. \A s \in Sections : x.data[s] = ini.data[s]
    <3> HIDE DEF Part
    <3> QED BY <1>1, <1>7
  <2>2. x.data \in [Sections -> Seq(Entries)] /\ ini.data \in [Sections -> Seq(Entries)]
    BY <1>1, <1>7 DEF IniOK, Ini
  <2> QED BY <2>1, <2>2
<1> QED BY <1>2, <1>3, <1>7, <1>8, <1>9

\* The first entry of a key.
LEMMA FoundFirst ==
  ASSUME NEW E \in Seq(Entries), NEW k
  PROVE  LET i == Found(E, k) IN
         \/ i = 0 /\ \A j \in 1..Len(E) : E[j].key # k
         \/ i \in 1..Len(E) /\ E[i].key = k /\ \A j \in 1..Len(E) : E[j].key = k => i <= j
<1> DEFINE I == {i \in 1..Len(E) : E[i].key = k}
<1>1. Found(E, k) = IF I # {} THEN Min(I) ELSE 0
  BY DEF Found, SelectInSeq
<1>2. ASSUME I # {}  PROVE Min(I) \in I /\ \A j \in I : Min(I) <= j
  <2>1. I \in SUBSET Nat
    OBVIOUS
  <2> HIDE DEF I
  <2>2. \E m \in I : \A j \in I : m <= j
    BY <1>2, <2>1, LeastNatural
  <2> QED BY <2>2 DEF Min
<1> HIDE DEF I
<1>3. CASE I = {}
  BY <1>1, <1>3 DEF I
<1>4. CASE I # {}
  <2>1. Found(E, k) = Min(I)
    BY <1>1, <1>4
  <2>2. Min(I) \in 1..Len(E) /\ E[Min(I)].key = k /\ \A j \in 1..Len(E) : E[j].key = k => Min(I) <= j
    BY <1>2, <1>4 DEF I
  <2> QED BY <2>1, <2>2
<1> QED BY <1>3, <1>4

LEMMA FoundIs ==
  ASSUME NEW E \in Seq(Entries), NEW k, NEW i \in 1..Len(E), E[i].key = k,
         \A j \in 1..Len(E) : j < i => E[j].key # k
  PROVE  Found(E, k) = i
<1> DEFINE f == Found(E, k)
<1>1. \/ f = 0 /\ \A j \in 1..Len(E) : E[j].key # k
      \/ f \in 1..Len(E) /\ E[f].key = k /\ \A j \in 1..Len(E) : E[j].key = k => f <= j
  BY FoundFirst
<1> HIDE DEF f
<1> QED BY <1>1 DEF f

\* The value of a key among the entries E.
At(E, k) == LET i == Found(E, k) IN IF i = 0 THEN Nothing ELSE E[i].val
LastAt(E, k) == LET i == SelectLastInSeq(E, LAMBDA e : e.key = k) IN IF i = 0 THEN Nothing ELSE E[i].val
IndicesOf(E, k) == {i \in 1..Len(E) : E[i].key = k}
Once(E, k) == \A i, j \in IndicesOf(E, k) : i = j
PutEntry(E, e) == LET i == Found(E, e.key) IN IF i = 0 THEN Append(E, e) ELSE [E EXCEPT ![i] = e]

LEMMA EntryFits ==
  /\ \A e \in Entries : e.key \in Names /\ e.val \in Values /\ e.is = "entry"
  /\ \A e \in Entries, g \in Entries : e.key = g.key /\ e.val = g.val => e = g
BY DEF Entries, KeyLine

\* The last entry of a key, which is the first if there is no other.
LEMMA LastOf ==
  ASSUME NEW E \in Seq(Entries), NEW k
  PROVE  /\ LastAt(E, k) = IF IndicesOf(E, k) = {} THEN Nothing ELSE E[Max(IndicesOf(E, k))].val
         /\ Once(E, k) => LastAt(E, k) = At(E, k)
<1> DEFINE I == IndicesOf(E, k)
           f == Found(E, k)
           last == SelectLastInSeq(E, LAMBDA e : e.key = k)
<1>1. last = IF I # {} THEN Max(I) ELSE 0
  BY DEF SelectLastInSeq, IndicesOf
<1>2. I # {} => Max(I) \in I
  <2>1. Len(E) \in Nat /\ I \in SUBSET (1..Len(E))
    BY DEF IndicesOf
  <2> HIDE DEF I
  <2> QED BY <2>1, MaxOfIndices
<1>3. \A i \in I : i # 0
  BY DEF IndicesOf
<1>4. LastAt(E, k) = IF last = 0 THEN Nothing ELSE E[last].val
  BY DEF LastAt
<1> HIDE DEF last
<1>5. LastAt(E, k) = IF I = {} THEN Nothing ELSE E[Max(I)].val
  <2> HIDE DEF I
  <2> QED BY <1>1, <1>2, <1>3, <1>4
<1>6. \/ f = 0 /\ \A j \in 1..Len(E) : E[j].key # k
      \/ f \in 1..Len(E) /\ E[f].key = k
  BY FoundFirst
<1>7. At(E, k) = IF f = 0 THEN Nothing ELSE E[f].val
  BY DEF At
<1> HIDE DEF f
<1>8. ASSUME Once(E, k)  PROVE LastAt(E, k) = At(E, k)
  <2>1. CASE f = 0
    <3>1. I = {}
      BY <1>6, <2>1 DEF IndicesOf
    <3> QED BY <1>5, <1>7, <2>1, <3>1
  <2>2. CASE f # 0
    <3>1. f \in I
      BY <1>6, <2>2 DEF IndicesOf
    <3>2. Max(I) = f
      <4> HIDE DEF I
      <4>1. Max(I) \in I
        BY <1>2, <3>1
      <4> QED BY <1>8, <3>1, <4>1 DEF Once, I
    <3> HIDE DEF I
    <3> QED BY <1>5, <1>7, <2>2, <3>1, <3>2
  <2> QED BY <2>1, <2>2
<1> QED BY <1>5, <1>8

\* A put entry is found, the others are found as before; what was there once is.
LEMMA EntryPut ==
  ASSUME NEW E \in Seq(Entries), NEW e \in Entries
  PROVE  LET F == PutEntry(E, e) IN
         /\ F \in Seq(Entries) /\ F # <<>> /\ At(F, e.key) = e.val
         /\ \A k : k # e.key => At(F, k) = At(E, k) /\ LastAt(F, k) = LastAt(E, k)
         /\ \A k : Once(E, k) => Once(F, k)
         /\ At(E, e.key) = e.val => F = E /\ E # <<>>
<1> DEFINE F == PutEntry(E, e)
           n == Len(E)
           f == Found(E, e.key)
<1>1. n \in Nat /\ \A i \in 1..n : E[i] \in Entries
  OBVIOUS
<1>2. \/ f = 0 /\ \A j \in 1..n : E[j].key # e.key
      \/ f \in 1..n /\ E[f].key = e.key /\ \A j \in 1..n : E[j].key = e.key => f <= j
  BY FoundFirst
<1>3. F = IF f = 0 THEN Append(E, e) ELSE [E EXCEPT ![f] = e]
  BY DEF PutEntry
<1> HIDE DEF F, f
<1> DEFINE m == IF f = 0 THEN n + 1 ELSE f
<1>4. /\ F \in Seq(Entries) /\ Len(F) = (IF f = 0 THEN n + 1 ELSE n) /\ F[m] = e
      /\ \A j \in 1..n : j # m => F[j] = E[j]
      /\ m \in 1..Len(F)
  <2>1. CASE f = 0
    BY <1>1, <1>3, <2>1
  <2>2. CASE f # 0
    <3>1. f \in 1..n
      BY <1>2, <2>2
    <3>2. F = [j \in 1..n |-> IF j = f THEN e ELSE E[j]]
      <4>1. DOMAIN E = 1..n
        OBVIOUS
      <4> HIDE DEF n
      <4> QED BY <1>3, <2>2, <4>1
    <3>3. \A j \in 1..n : (IF j = f THEN e ELSE E[j]) \in Entries
      BY <1>1
    <3>4. F \in Seq(Entries) /\ Len(F) = n
      <4> DEFINE B(j) == IF j = f THEN e ELSE E[j]
      <4>1. F = [j \in 1..n |-> B(j)] /\ \A j \in 1..n : B(j) \in Entries
        BY <3>2, <3>3
      <4> HIDE DEF B, n
      <4> QED BY <1>1, <4>1
    <3> QED BY <2>2, <3>1, <3>2, <3>4
  <2> QED BY <2>1, <2>2
<1>5. \A j \in 1..Len(F) : j # m => j \in 1..n
  BY <1>1, <1>4
<1> HIDE DEF n
<1>6. ASSUME NEW j \in 1..Len(F), j < m  PROVE F[j].key # e.key
  <2>1. j \in 1..n /\ F[j] = E[j]
    BY <1>4, <1>5, <1>6
  <2>2. E[j].key # e.key
    BY <1>1, <1>2, <1>6, <2>1
  <2> QED BY <2>1, <2>2
<1> HIDE DEF m
<1>7. At(F, e.key) = e.val
  <2>1. Found(F, e.key) = m
    BY <1>4, <1>6, FoundIs
  <2>2. m # 0
    BY <1>4
  <2> QED BY <1>4, <2>1, <2>2 DEF At
<1>8. ASSUME NEW k, k # e.key
      PROVE  /\ At(F, k) = At(E, k) /\ LastAt(F, k) = LastAt(E, k)
             /\ Once(E, k) => Once(F, k)
  <2> DEFINE a == Found(E, k)
             b == Found(F, k)
  <2>1. \/ a = 0 /\ \A j \in 1..n : E[j].key # k
        \/ a \in 1..n /\ E[a].key = k /\ \A j \in 1..n : E[j].key = k => a <= j
    BY FoundFirst DEF n
  <2>2. \/ b = 0 /\ \A j \in 1..Len(F) : F[j].key # k
        \/ b \in 1..Len(F) /\ F[b].key = k /\ \A j \in 1..Len(F) : F[j].key = k => b <= j
    BY <1>4, FoundFirst
  <2> HIDE DEF a, b
  <2>3. \A j \in 1..n : j \in 1..Len(F) /\ (E[j].key = k => F[j].key = k)
    <3>1. \A j \in 1..n : j \in 1..Len(F)
      BY <1>1, <1>4
    <3>2. \A j \in 1..n : E[j].key = k => j # m
      <4>1. \A j \in 1..n : j # n + 1
        BY <1>1
      <4> QED BY <1>2, <1>8, <4>1 DEF m
    <3> QED BY <1>4, <3>1, <3>2
  <2>4. \A j \in 1..Len(F) : F[j].key = k => j \in 1..n /\ E[j].key = k /\ F[j] = E[j]
    <3>1. \A j \in 1..Len(F) : F[j].key = k => j # m
      BY <1>4, <1>8
    <3> QED BY <1>4, <1>5, <3>1
  <2>7. IndicesOf(F, k) = IndicesOf(E, k) /\ \A j \in IndicesOf(F, k) : F[j] = E[j]
    BY <2>3, <2>4 DEF IndicesOf, n
  <2>8. Once(E, k) => Once(F, k)
    BY <2>7 DEF Once
  <2>9. LastAt(F, k) = LastAt(E, k)
    <3> DEFINE I == IndicesOf(E, k)
    <3>1. /\ LastAt(E, k) = IF I = {} THEN Nothing ELSE E[Max(I)].val
          /\ LastAt(F, k) = IF I = {} THEN Nothing ELSE F[Max(I)].val
      BY <1>4, <2>7, LastOf
    <3>2. I # {} => Max(I) \in I
      <4>1. n \in Nat /\ I \in SUBSET (1..n)
        BY <1>1 DEF IndicesOf, n
      <4> HIDE DEF I, n
      <4> QED BY <4>1, MaxOfIndices
    <3>3. I # {} => F[Max(I)] = E[Max(I)]
      BY <2>7, <3>2
    <3> HIDE DEF I
    <3> QED BY <3>1, <3>3
  <2>5. CASE a = 0
    <3>1. b = 0
      BY <1>1, <2>1, <2>2, <2>4, <2>5
    <3> QED BY <2>5, <2>8, <2>9, <3>1 DEF At, a, b
  <2>6. CASE a # 0
    <3>1. a \in 1..n /\ E[a].key = k /\ F[a].key = k /\ a \in 1..Len(F)
      BY <2>1, <2>3, <2>6
    <3>2. b \in 1..Len(F) /\ F[b].key = k /\ b <= a
      BY <2>2, <3>1
    <3>3. b \in 1..n /\ E[b].key = k /\ F[b] = E[b]
      BY <2>4, <3>2
    <3>4. a <= b
      BY <2>1, <2>6, <3>3
    <3>5. a = b
      BY <1>1, <3>1, <3>2, <3>3, <3>4
    <3> QED BY <2>6, <2>8, <2>9, <3>3, <3>5 DEF At, a, b
  <2> QED BY <2>5, <2>6
<1>9. ASSUME At(E, e.key) = e.val  PROVE F = E /\ E # <<>>
  <2>1. f # 0
    BY <1>9, ConfigAssumption, EntryFits DEF At, f, Scalars
  <2>2. f \in 1..n /\ E[f].key = e.key /\ E[f].val = e.val
    BY <1>2, <1>9, <2>1 DEF At, f
  <2>3. E[f] = e
    BY <1>1, <2>2, EntryFits
  <2>4. F = E
    BY <1>3, <2>1, <2>3
  <2>5. E # <<>>
    BY <2>2 DEF n
  <2> QED BY <2>4, <2>5
<1>10. F # <<>>
  BY <1>4
<1>11. ASSUME Once(E, e.key)  PROVE Once(F, e.key)
  <2>1. ASSUME NEW j \in IndicesOf(F, e.key), j # m  PROVE FALSE
    <3>1. j \in 1..n /\ E[j].key = e.key
      BY <1>4, <1>5, <2>1 DEF IndicesOf
    <3>2. j \in IndicesOf(E, e.key) /\ f \in IndicesOf(E, e.key) /\ f # 0
      BY <1>1, <1>2, <3>1 DEF IndicesOf, n
    <3>3. j = f
      BY <1>11, <3>2 DEF Once
    <3> QED BY <2>1, <3>2, <3>3 DEF m
  <2> QED BY <2>1 DEF Once
<1>12. \A k : Once(E, k) => Once(F, k)
  BY <1>8, <1>11
<1> QED BY <1>4, <1>7, <1>8, <1>9, <1>10, <1>12 DEF F

\* What a reader takes from the sections of x.
Value(x, d) == At(x.data[d[1]], d[2])
LastValue(x, d) == LastAt(x.data[d[1]], d[2])
Single(x, d) == Once(x.data[d[1]], d[2])

\* set: the value of the key is the one that was set, the others stay.
LEMMA EntrySet ==
  ASSUME NEW x, IniOK(x), NEW s \in Sections, NEW e \in Entries
  PROVE  LET y == SetEntry(x, s, e) IN
         /\ IniOK(y)
         /\ \A d \in Sections \X Names :
              /\ Value(y, d) = IF d = <<s, e.key>> THEN e.val ELSE Value(x, d)
              /\ d # <<s, e.key>> => LastValue(y, d) = LastValue(x, d)
              /\ Single(x, d) => Single(y, d)
         /\ Value(x, <<s, e.key>>) = e.val => y = x
<1> DEFINE F == PutEntry(x.data[s], e)
           o == IF s \in ToSet(x.order) THEN x.order ELSE Append(x.order, s)
           y == [cur |-> x.cur, order |-> o, data |-> [x.data EXCEPT ![s] = F]]
<1>1. x \in Ini /\ x.data[s] \in Seq(Entries) /\ x.cur \in Sections /\ OrderOK(x.order)
  BY DEF IniOK, Ini
<1>2. SetEntry(x, s, e) = y
  <2>1. PICK c, q, d : x = [cur |-> c, order |-> q, data |-> d]
    BY <1>1 DEF Ini
  <2>2. SetEntry(x, s, e) = [x EXCEPT !.order = o, !.data[s] = F]
    BY DEF SetEntry, PutEntry
  <2> HIDE DEF F, o
  <2> QED BY <2>1, <2>2
<1>3. /\ F \in Seq(Entries) /\ F # <<>> /\ At(F, e.key) = e.val
      /\ \A k : k # e.key => At(F, k) = At(x.data[s], k) /\ LastAt(F, k) = LastAt(x.data[s], k)
      /\ \A k : Once(x.data[s], k) => Once(F, k)
      /\ At(x.data[s], e.key) = e.val => F = x.data[s] /\ x.data[s] # <<>>
  BY <1>1, EntryPut
<1>4. OrderOK(o) /\ ToSet(o) = ToSet(x.order) \cup {s}
  <2>1. CASE s \in ToSet(x.order)
    BY <1>1, <2>1
  <2>2. CASE s \notin ToSet(x.order)
    BY <1>1, <2>2, OrderGrows
  <2> QED BY <2>1, <2>2
<1>5. At(x.data[s], e.key) = e.val => o = x.order
  BY <1>3 DEF IniOK
<1> HIDE DEF F, o
<1>6. /\ y \in Ini /\ y.cur = x.cur /\ y.order = o /\ y.data[s] = F
      /\ \A r \in Sections : r # s => y.data[r] = x.data[r]
  <2> DEFINE D == [x.data EXCEPT ![s] = F]
  <2>1. D \in [Sections -> Seq(Entries)] /\ D[s] = F /\ \A r \in Sections : r # s => D[r] = x.data[r]
    <3>1. x.data \in [Sections -> Seq(Entries)]
      BY <1>1 DEF Ini
    <3>2. \A r \in Sections : D[r] = IF r = s THEN F ELSE x.data[r]
      BY <3>1
    <3>3. D = [r \in Sections |-> D[r]]
      BY <3>1
    <3> HIDE DEF D
    <3> QED BY <1>3, <3>1, <3>2, <3>3
  <2>2. o \in Seq(Sections)
    BY <1>4 DEF OrderOK
  <2> HIDE DEF D
  <2>3. [cur |-> x.cur, order |-> o, data |-> D] \in Ini
    BY <1>1, <2>1, <2>2 DEF Ini
  <2>4. y = [cur |-> x.cur, order |-> o, data |-> D]
    BY DEF D
  <2> HIDE DEF y
  <2> QED BY <2>1, <2>3, <2>4
<1>7. Value(x, <<s, e.key>>) = e.val => y = x
  <2>1. Value(x, <<s, e.key>>) = At(x.data[s], e.key)
    BY DEF Value
  <2>2. ASSUME o = x.order, F = x.data[s]  PROVE y = x
    BY <1>1, <2>2 DEF Ini
  <2> QED BY <1>3, <1>5, <2>1, <2>2
<1> HIDE DEF y
<1>8. IniOK(y)
  BY <1>4, <1>6 DEF IniOK
<1>9. ASSUME NEW d \in Sections \X Names
      PROVE  /\ Value(y, d) = IF d = <<s, e.key>> THEN e.val ELSE Value(x, d)
             /\ d # <<s, e.key>> => LastValue(y, d) = LastValue(x, d)
             /\ Single(x, d) => Single(y, d)
  <2>1. d = <<d[1], d[2]>> /\ d[1] \in Sections
    OBVIOUS
  <2>2. CASE d[1] # s
    BY <1>6, <2>1, <2>2 DEF Value, LastValue, Single
  <2>3. CASE d[1] = s
    BY <1>3, <1>6, <2>1, <2>3 DEF Value, LastValue, Single
  <2> QED BY <2>2, <2>3
<1> QED BY <1>2, <1>7, <1>8, <1>9

\* The sections after every asked value was set.
AllSet(x, asked, y) ==
  /\ IniOK(y)
  /\ \A d \in Sections \X Names :
       /\ Value(y, d) = IF d \in DOMAIN asked THEN asked[d] ELSE Value(x, d)
       /\ d \notin DOMAIN asked => LastValue(y, d) = LastValue(x, d)
       /\ Single(x, d) => Single(y, d)
  /\ (\A d \in DOMAIN asked : Value(x, d) = asked[d]) => y = x

\* Each asked key is set once, in the order of the dotted texts.
LEMMA SetAllSets ==
  ASSUME NEW ini, IniOK(ini), NEW asked, IsMap(asked, Sections \X Names, Values)
  PROVE  AllSet(ini, asked, SetAll(ini, asked))
<1> DEFINE T == DOMAIN asked
           ds == Ordered(T, Earlier)
           n == Len(ds)
           V == GoodInis
           Set(x, d) == SetEntry(x, d[1], KeyLine(d[2], asked[d]))
           step == [p \in (1..n) \X V |-> Set(p[2], ds[p[1]])]
           f == CHOOSE it : it = [s \in SUBSET DOMAIN ds |->
                                   IF s = {} THEN ini ELSE Set(it[s \ {Max(s)}], ds[Max(s)])]
<1>1. SetAll(ini, asked) = f[DOMAIN ds]
  BY DEF SetAll, FoldLeft, MapThenFoldSet
<1>2. T \subseteq Sections \X Names /\ IsFiniteSet(T) /\ \A d \in T : asked[d] \in Values
  BY DEF IsMap
<1> HIDE DEF T
<1>3. /\ ds \in Seq(T) /\ \A d \in T : \E i \in 1..n : ds[i] = d
      /\ n \in Nat /\ DOMAIN ds = 1..n
  <2>1. T \in SUBSET (Nat \X Nat)
    <3>1. Sections \subseteq Nat /\ Names \subseteq Nat
      BY ConfigAssumption DEF Sections
    <3> QED BY <1>2, <3>1
  <2>2. ds \in SetToSeqs(T)
    BY <1>2, <2>1, OrderedPairs
  <2> HIDE DEF ds
  <2>3. ds \in Seq(T) /\ \A d \in T : \E i \in 1..Len(ds) : ds[i] = d
    BY <1>2, <2>2, SeqsCover
  <2> QED BY <2>3
<1> HIDE DEF ds, n
<1>4. ASSUME NEW d \in T
      PROVE  /\ d[1] \in Sections /\ KeyLine(d[2], asked[d]) \in Entries /\ d = <<d[1], d[2]>>
             /\ KeyLine(d[2], asked[d]).key = d[2] /\ KeyLine(d[2], asked[d]).val = asked[d]
  BY <1>2 DEF Entries, KeyLine
<1>5. ASSUME NEW x, IniOK(x), NEW d \in T
      PROVE  /\ IniOK(Set(x, d))
             /\ \A c \in Sections \X Names :
                  /\ Value(Set(x, d), c) = IF c = d THEN asked[d] ELSE Value(x, c)
                  /\ c # d => LastValue(Set(x, d), c) = LastValue(x, c)
                  /\ Single(x, c) => Single(Set(x, d), c)
             /\ Value(x, d) = asked[d] => Set(x, d) = x
  <2> DEFINE e == KeyLine(d[2], asked[d])
             s == d[1]
  <2>1. s \in Sections /\ e \in Entries /\ d = <<s, e.key>> /\ e.val = asked[d]
    BY <1>4
  <2>2. Set(x, d) = SetEntry(x, s, e)
    OBVIOUS
  <2> HIDE DEF e, s, Set
  <2>3. /\ IniOK(SetEntry(x, s, e))
        /\ \A c \in Sections \X Names :
             /\ Value(SetEntry(x, s, e), c) = IF c = <<s, e.key>> THEN e.val ELSE Value(x, c)
             /\ c # <<s, e.key>> => LastValue(SetEntry(x, s, e), c) = LastValue(x, c)
             /\ Single(x, c) => Single(SetEntry(x, s, e), c)
        /\ Value(x, <<s, e.key>>) = e.val => SetEntry(x, s, e) = x
    BY <1>5, <2>1, EntrySet
  <2> QED BY <2>1, <2>2, <2>3
<1> HIDE DEF Set
<1>6. ini \in V /\ \A k \in 1..n : ds[k] \in T
  BY <1>3 DEF GoodInis, IniOK, n
<1>7. step \in Steps(n, V)
  <2>1. \A x \in V, k \in 1..n : Set(x, ds[k]) \in V
    BY <1>5, <1>6 DEF GoodInis, IniOK
  <2> HIDE DEF V
  <2> QED BY <2>1 DEF Steps
<1> HIDE DEF V
<1>8. PICK g \in [SUBSET (1..n) -> V] : IsFold(g, n, ini, step)
  <2> HIDE DEF step
  <2> QED BY <1>3, <1>6, <1>7, FoldExists
<1>9. g = [s \in SUBSET DOMAIN ds |-> IF s = {} THEN ini ELSE Set(g[s \ {Max(s)}], ds[Max(s)])]
  <2>1. ASSUME NEW s \in SUBSET (1..n), s # {}
        PROVE  step[<<Max(s), g[s \ {Max(s)}]>>] = Set(g[s \ {Max(s)}], ds[Max(s)])
    <3>1. Max(s) \in 1..n /\ g[s \ {Max(s)}] \in V
      BY <1>3, <2>1, NonemptyHasMax
    <3> QED BY <3>1
  <2>2. \A s \in SUBSET (1..n) : g[s] = IF s = {} THEN ini ELSE step[<<Max(s), g[s \ {Max(s)}]>>]
    <3> HIDE DEF step
    <3> QED BY <1>8 DEF IsFold
  <2> HIDE DEF step
  <2> QED BY <1>3, <1>8, <2>1, <2>2
<1>10. f = [s \in SUBSET DOMAIN ds |-> IF s = {} THEN ini ELSE Set(f[s \ {Max(s)}], ds[Max(s)])]
  BY <1>9
<1> HIDE DEF f
<1>11. f[1..0] = ini /\ \A k \in 1..n : f[1..k] = Set(f[1..(k - 1)], ds[k])
  <2>1. 1..0 = {} /\ 1..0 \in SUBSET (1..n)
    OBVIOUS
  <2>2. f[1..0] = ini
    BY <1>3, <1>10, <2>1
  <2>3. ASSUME NEW k \in 1..n  PROVE f[1..k] = Set(f[1..(k - 1)], ds[k])
    <3>1. /\ 1..k \in SUBSET (1..n)
          /\ 1..k # {} /\ Max(1..k) = k /\ (1..k) \ {k} = 1..(k - 1)
      BY <1>3, Intervals
    <3> QED BY <1>3, <1>10, <3>1
  <2> QED BY <2>2, <2>3
<1> DEFINE Upto(k) == {ds[j] : j \in 1..k}
           Right(k) ==
             /\ IniOK(f[1..k])
             /\ \A c \in Sections \X Names :
                  /\ Value(f[1..k], c) = IF c \in Upto(k) THEN asked[c] ELSE Value(ini, c)
                  /\ c \notin Upto(k) => LastValue(f[1..k], c) = LastValue(ini, c)
                  /\ Single(ini, c) => Single(f[1..k], c)
             /\ (\A d \in T : Value(ini, d) = asked[d]) => f[1..k] = ini
           K == {k \in 0..n : Right(k)}
<1>12. 0 \in K
  <2>1. Upto(0) = {} /\ 0 \in 0..n
    BY <1>3
  <2> HIDE DEF Upto
  <2> QED BY <1>11, <2>1
<1>13. ASSUME NEW k \in 1..n, k - 1 \in K  PROVE k \in K
  <2> DEFINE a == f[1..(k - 1)]
  <2>1. /\ IniOK(a) /\ f[1..k] = Set(a, ds[k]) /\ ds[k] \in T
        /\ \A c \in Sections \X Names :
             /\ Value(a, c) = IF c \in Upto(k - 1) THEN asked[c] ELSE Value(ini, c)
             /\ c \notin Upto(k - 1) => LastValue(a, c) = LastValue(ini, c)
             /\ Single(ini, c) => Single(a, c)
        /\ (\A d \in T : Value(ini, d) = asked[d]) => a = ini
    <3> HIDE DEF Upto
    <3> QED BY <1>6, <1>11, <1>13
  <2> HIDE DEF a
  <2>2. Upto(k) = Upto(k - 1) \cup {ds[k]}
    <3>1. 1..k = (1..(k - 1)) \cup {k}
      OBVIOUS
    <3> QED BY <3>1
  <2>3. k \in 0..n
    BY <1>3
  <2> HIDE DEF Upto
  <2>4. /\ IniOK(f[1..k])
        /\ \A c \in Sections \X Names :
             /\ Value(f[1..k], c) = IF c = ds[k] THEN asked[ds[k]] ELSE Value(a, c)
             /\ c # ds[k] => LastValue(f[1..k], c) = LastValue(a, c)
             /\ Single(a, c) => Single(f[1..k], c)
        /\ Value(a, ds[k]) = asked[ds[k]] => f[1..k] = a
    BY <1>5, <2>1
  <2>5. Right(k)
    BY <2>1, <2>2, <2>4
  <2> HIDE DEF Right
  <2> QED BY <2>3, <2>5
<1>14. n \in K
  <2> HIDE DEF K
  <2>1. n \in Nat /\ \A k \in 0..n : k \in K
    BY <1>3, <1>12, <1>13, UpTo
  <2> QED BY <2>1
<1>15. Upto(n) = T
  BY <1>3, <1>6
<1> HIDE DEF Upto
<1> QED BY <1>1, <1>3, <1>14, <1>15 DEF AllSet, T

\* mergeINI: what a reader finds in the merged file, and that merging again changes nothing.
LEMMA MergedINI ==
  ASSUME NEW lines \in Seq(Lines), NEW asked, IsMap(asked, Sections \X Names, Values)
  PROVE  LET m == MergeINI(lines, asked) IN
         /\ m \in Seq(Lines)
         /\ \A d \in Sections \X Names :
              /\ FirstINI(m, d) = IF d \in DOMAIN asked THEN asked[d] ELSE FirstINI(lines, d)
              /\ d \notin DOMAIN asked => LastINI(m, d) = LastINI(lines, d)
              /\ d \in DOMAIN asked /\ ~Repeats(lines, d) => LastINI(m, d) = asked[d]
         /\ MergeINI(m, asked) = m
<1> DEFINE x == Parsed(lines)
           y == SetAll(x, asked)
           m == Emitted(y)
           z == Parsed(m)
           S == Sections \X Names
<1>1. IniOK(x)
  BY ParsedRuns
<1>2. AllSet(x, asked, y)
  BY <1>1, SetAllSets
<1>3. m = MergeINI(lines, asked) /\ MergeINI(m, asked) = Emitted(SetAll(z, asked))
  BY DEF MergeINI
<1>4. \A d \in S : /\ FirstINI(lines, d) = Value(x, d) /\ FirstINI(m, d) = Value(z, d)
                   /\ LastINI(lines, d) = LastValue(x, d) /\ LastINI(m, d) = LastValue(z, d)
  BY DEF FirstINI, LastINI, Value, LastValue, At, LastAt
<1>11. ASSUME NEW d \in S, ~Repeats(lines, d)  PROVE Single(x, d)
  <2>1. x.data[d[1]] \in Seq(Entries)
    BY <1>1 DEF IniOK, Ini
  <2>2. DOMAIN x.data[d[1]] = 1..Len(x.data[d[1]])
    BY <2>1
  <2> QED BY <1>11, <2>2 DEF Repeats, Single, Once, IndicesOf
<1> HIDE DEF x, y
<1>5. IniOK(y)
  BY <1>2 DEF AllSet
<1>6. m \in Seq(Lines) /\ IniOK(z) /\ z.data = y.data /\ Emitted(z) = m
  BY <1>5, Reparsed
<1> HIDE DEF z
<1>7. AllSet(z, asked, SetAll(z, asked))
  BY <1>6, SetAllSets
<1>8. \A d \in S : Value(z, d) = Value(y, d) /\ LastValue(z, d) = LastValue(y, d)
  BY <1>6 DEF Value, LastValue
<1> HIDE DEF m
<1>9. ASSUME NEW d \in S
      PROVE  /\ FirstINI(m, d) = IF d \in DOMAIN asked THEN asked[d] ELSE FirstINI(lines, d)
             /\ d \notin DOMAIN asked => LastINI(m, d) = LastINI(lines, d)
             /\ d \in DOMAIN asked /\ ~Repeats(lines, d) => LastINI(m, d) = asked[d]
  <2>1. /\ Value(y, d) = IF d \in DOMAIN asked THEN asked[d] ELSE Value(x, d)
        /\ d \notin DOMAIN asked => LastValue(y, d) = LastValue(x, d)
        /\ Single(x, d) => Single(y, d)
    BY <1>2 DEF AllSet
  <2>2. Single(y, d) => LastValue(y, d) = Value(y, d)
    <3>1. y.data[d[1]] \in Seq(Entries)
      BY <1>5 DEF IniOK, Ini
    <3> QED BY <3>1, LastOf DEF Single, LastValue, Value
  <2> QED BY <1>4, <1>8, <1>11, <2>1, <2>2
<1>10. SetAll(z, asked) = z
  <2>1. \A d \in DOMAIN asked : d \in S
    BY DEF IsMap
  <2>2. \A d \in DOMAIN asked : Value(z, d) = asked[d]
    BY <1>2, <1>8, <2>1 DEF AllSet
  <2> QED BY <1>7, <2>2 DEF AllSet
<1> QED BY <1>3, <1>6, <1>9, <1>10

(***************************************************************************)
(* Theorems.                                                                *)
(***************************************************************************)
ConfigInv ==
  /\ parser \in {"properties", "ini", "json", "yaml", "file"}
  /\ parser = "properties" => config \in Seq(PropertyLines) /\ IsMap(replace, Names, Values)
  /\ parser = "ini" => config \in Seq(Lines) /\ IsMap(replace, Sections \X Names, Values)
  /\ parser \in {"json", "yaml"} => config \in AllTrees /\ IsMap(replace, Dotted, Scalars)
  /\ parser = "file" => config \in Seq(Names) /\ IsMap(replace, Names, Names)

\* The replacements and the files a deploy starts from.
LEMMA MapsAre ==
  ASSUME NEW D, NEW R, NEW f \in Maps(D, R)
  PROVE  IsMap(f, D, R)
<1>1. PICK S \in Few(D, MaxAsked) \ {{}} : f \in [S -> R]
  BY DEF Maps
<1> QED BY <1>1 DEF Few, IsMap

LEMMA SeqsOf ==
  ASSUME NEW S, NEW n, NEW s \in SeqOf(S, n)
  PROVE  s \in Seq(S)
<1>1. PICK m \in 0..n : s \in [1..m -> S]
  BY DEF SeqOf
<1> QED BY <1>1

\* The invariant: files and replacements are of the parser's kind.
LEMMA ConfigInitInv == ConfigInit => ConfigInv
<1> SUFFICES ASSUME ConfigInit  PROVE ConfigInv
  OBVIOUS
<1>1. CASE parser = "properties"
  BY <1>1, MapsAre, SeqsOf DEF ConfigInit, ConfigInv, FilesOf, AskedOf, PropertyLines
<1>2. CASE parser = "ini"
  BY <1>2, MapsAre, SeqsOf DEF ConfigInit, ConfigInv, FilesOf, AskedOf, Sections
<1>3. CASE parser \in {"json", "yaml"}
  <2>1. replace \in Maps(Dotted, Scalars) /\ \E P \in SUBSET TreePaths : config \in Trees(P)
    <3>1. {q \in PathsOf(Names \cup Odd) : q[1] \in Names} \in SUBSET TreePaths
      BY DEF TreePaths
    <3> QED BY <1>3, <3>1, DottedArePaths DEF ConfigInit, FilesOf, AskedOf
  <2>2. config \in AllTrees
    <3>1. PICK S \in SUBSET TreePaths : config \in [S -> Values]
      BY <2>1 DEF Trees, Few
    <3>2. config \in [S -> Scalars]
      BY <3>1 DEF Scalars
    <3> QED BY <3>1, <3>2 DEF AllTrees
  <2> QED BY <1>3, <2>1, <2>2, MapsAre DEF ConfigInv
<1>4. CASE parser = "file"
  BY <1>4, MapsAre, SeqsOf DEF ConfigInit, ConfigInv, FilesOf, AskedOf
<1> QED BY <1>1, <1>2, <1>3, <1>4 DEF ConfigInit

\* What each parser merges, from a state that satisfies the invariant.
LEMMA MergedFits ==
  ASSUME ConfigInv
  PROVE  LET m == MergeConfig(parser, config, replace) IN
         /\ parser = "properties" => m = MergeProperties(config, replace) /\ m \in Seq(PropertyLines)
         /\ parser = "ini" => m = MergeINI(config, replace) /\ m \in Seq(Lines)
         /\ parser \in {"json", "yaml"} => m \in {config, MergeTree(config, replace)} /\ m \in AllTrees
         /\ parser = "file" => m = MergeFile(config, replace) /\ m \in Seq(Names)
<1> DEFINE m == MergeConfig(parser, config, replace)
<1>1. CASE parser = "properties"
  <2>1. m = MergeProperties(config, replace)
    BY <1>1 DEF MergeConfig
  <2>2. config \in Seq(PropertyLines) /\ IsMap(replace, Names, Values)
    BY <1>1 DEF ConfigInv
  <2>3. MergeProperties(config, replace) \in Seq(PropertyLines)
    BY <2>2, MergedProperties DEF IsMap
  <2> QED BY <1>1, <2>1, <2>3
<1>2. CASE parser = "ini"
  <2>1. m = MergeINI(config, replace)
    BY <1>2 DEF MergeConfig
  <2>2. MergeINI(config, replace) \in Seq(Lines)
    BY <1>2, MergedINI DEF ConfigInv
  <2> QED BY <1>2, <2>1, <2>2
<1>3. CASE parser \in {"json", "yaml"}
  <2>1. m \in {config, MergeTree(config, replace)}
    BY <1>3 DEF MergeConfig, MergeJSON
  <2>2. config \in AllTrees /\ MergeTree(config, replace) \in AllTrees
    BY <1>3, MergedTree DEF ConfigInv, Grown
  <2> QED BY <1>3, <2>1, <2>2
<1>4. CASE parser = "file"
  <2>1. m = MergeFile(config, replace)
    BY <1>4 DEF MergeConfig
  <2>2. MergeFile(config, replace) \in Seq(Names)
    BY <1>4, FileReplaced DEF ConfigInv, Replaced
  <2> QED BY <1>4, <2>1, <2>2
<1> QED BY <1>1, <1>2, <1>3, <1>4 DEF ConfigInv

LEMMA ConfigInvStep == ConfigInv /\ [ConfigNext]_configVars => ConfigInv'
<1> SUFFICES ASSUME ConfigInv, [ConfigNext]_configVars  PROVE ConfigInv'
  OBVIOUS
<1>1. CASE ApplyConfigFile
  <2> DEFINE m == MergeConfig(parser, config, replace)
  <2>1. config' = m /\ parser' = parser /\ replace' = replace
    BY <1>1 DEF ApplyConfigFile
  <2>2. /\ parser = "properties" => m \in Seq(PropertyLines)
        /\ parser = "ini" => m \in Seq(Lines)
        /\ parser \in {"json", "yaml"} => m \in AllTrees
        /\ parser = "file" => m \in Seq(Names)
    BY MergedFits
  <2> HIDE DEF m
  <2> QED BY <2>1, <2>2 DEF ConfigInv
<1>2. CASE UNCHANGED configVars
  BY <1>2 DEF configVars, ConfigInv
<1> QED BY <1>1, <1>2 DEF ConfigNext

\* Parser by parser, what the merged file says.
LEMMA InvReads == ConfigInv => ReadsAsAsked
<1> SUFFICES ASSUME ConfigInv  PROVE ReadsAsAsked
  OBVIOUS
<1> DEFINE m == MergeConfig(parser, config, replace)
           asked == DOMAIN replace
<1>1. CASE parser = "properties"
  <2>1. /\ m = MergeProperties(config, replace) /\ config \in Seq(PropertyLines)
        /\ asked \in SUBSET Names /\ IsFiniteSet(asked) /\ replace \in [asked -> Values]
    BY <1>1 DEF MergeConfig, ConfigInv, IsMap
  <2> HIDE DEF m, asked
  <2>2. \A k \in Names : ReadProperties(m, k) = IF k \in asked THEN replace[k] ELSE ReadProperties(config, k)
    BY <2>1, ReadsMergedProperties
  <2> QED BY <1>1, <2>2 DEF ReadsAsAsked, m, asked
<1>2. CASE parser = "ini"
  <2>1. m = MergeINI(config, replace) /\ config \in Seq(Lines) /\ IsMap(replace, Sections \X Names, Values)
    BY <1>2 DEF MergeConfig, ConfigInv
  <2> HIDE DEF m
  <2>2. \A d \in Sections \X Names :
          /\ FirstINI(m, d) = IF d \in asked THEN replace[d] ELSE FirstINI(config, d)
          /\ d \notin asked => LastINI(m, d) = LastINI(config, d)
          /\ d \in asked /\ ~Repeats(config, d) => LastINI(m, d) = replace[d]
    BY <2>1, MergedINI
  <2> QED BY <1>2, <2>2 DEF ReadsAsAsked, m, Sections
<1>3. CASE parser \in {"json", "yaml"}
  <2> DEFINE t == MergeTree(config, replace)
  <2>1. config \in AllTrees /\ IsMap(replace, Dotted, Scalars)
    BY <1>3 DEF ConfigInv
  <2>2. (parser = "json" /\ Unwritable(t) /\ m = config) \/ m = t
    BY <1>3 DEF MergeConfig, MergeJSON
  <2> HIDE DEF m
  <2>3. \A p \in TreePaths :
          /\ p \in asked /\ (\A q \in asked : IsPrefix(p, q) => p = q) => ReadTree(t, p) = Plain[replace[p]]
          /\ (\A q \in asked : ~Related(p, q) /\ ~Swept(config, q, p)) => ReadTree(t, p) = ReadTree(Decoded(config), p)
    BY <2>1, ReadsMergedTree
  <2>4. \/ parser = "json" /\ Unwritable(MergeTree(config, replace)) /\ m = config
        \/ \A p \in TreePaths :
             /\ p \in asked /\ (\A q \in asked : IsPrefix(p, q) => p = q) => ReadTree(m, p) = Plain[replace[p]]
             /\ (\A q \in asked : ~Related(p, q) /\ ~Swept(config, q, p)) => ReadTree(m, p) = ReadTree(Decoded(config), p)
    BY <2>2, <2>3
  <2> QED BY <1>3, <2>4 DEF ReadsAsAsked, m, TreePaths
<1>4. CASE parser = "file"
  <2>1. m = MergeFile(config, replace) /\ config \in Seq(Names) /\ IsMap(replace, Names, Names)
    BY <1>4 DEF MergeConfig, ConfigInv
  <2> HIDE DEF m
  <2>2. asked \cap Range(replace) = {} => \A i \in 1..Len(config) :
          m[i] = IF config[i] \in asked THEN replace[config[i]] ELSE config[i]
    BY <2>1, FileReplaced DEF Replaced
  <2>3. DOMAIN config = 1..Len(config)
    BY <2>1
  <2> QED BY <1>4, <2>2, <2>3 DEF ReadsAsAsked, m
<1> QED BY <1>1, <1>2, <1>3, <1>4 DEF ConfigInv

LEMMA InvMergedOnce == ConfigInv => MergedOnce
<1> SUFFICES ASSUME ConfigInv, ~(parser = "file" /\ DOMAIN replace \cap Range(replace) # {})
             PROVE  LET m == MergeConfig(parser, config, replace) IN MergeConfig(parser, m, replace) = m
  BY DEF MergedOnce
<1>1. CASE parser = "properties"
  <2>1. config \in Seq(PropertyLines) /\ IsMap(replace, Names, Values)
    BY <1>1 DEF ConfigInv
  <2>2. LET m == MergeProperties(config, replace) IN MergeProperties(m, replace) = m
    BY <2>1, PropertiesMergedOnce DEF IsMap
  <2> QED BY <1>1, <2>2 DEF MergeConfig
<1>2. CASE parser = "ini"
  <2>1. LET m == MergeINI(config, replace) IN MergeINI(m, replace) = m
    BY <1>2, MergedINI DEF ConfigInv
  <2> QED BY <1>2, <2>1 DEF MergeConfig
<1>3. CASE parser \in {"json", "yaml"}
  <2>1. LET m == MergeTree(config, replace) IN MergeTree(m, replace) = m
    BY <1>3, TreeMergedOnce DEF ConfigInv
  <2> QED BY <1>3, <2>1 DEF MergeConfig, MergeJSON
<1>4. CASE parser = "file"
  <2>1. LET m == MergeFile(config, replace) IN MergeFile(m, replace) = m
    BY <1>4, FileMergedOnce DEF ConfigInv
  <2> QED BY <1>4, <2>1 DEF MergeConfig
<1> QED BY <1>1, <1>2, <1>3, <1>4 DEF ConfigInv

\* Whatever file a deploy finds and whatever values the panel asks for, what the
\* program reads after applyConfigFiles is what was asked, and of the other keys
\* what it read before: for files and replacements of every size.
THEOREM ReadsAsAskedCorrect == ConfigSpec => []ReadsAsAsked
<1>1. ConfigSpec => []ConfigInv
  BY ConfigInitInv, ConfigInvStep, PTL DEF ConfigSpec
<1> QED BY <1>1, InvReads, PTL

\* A second deploy with the same values finds nothing to change in a file that
\* the first one merged: no appended key, section or entry piles up.
THEOREM MergedOnceCorrect == ConfigSpec => []MergedOnce
<1>1. ConfigSpec => []ConfigInv
  BY ConfigInitInv, ConfigInvStep, PTL DEF ConfigSpec
<1> QED BY <1>1, InvMergedOnce, PTL
=============================================================================
