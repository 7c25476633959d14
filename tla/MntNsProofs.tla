----------------------------- MODULE MntNsProofs -----------------------------
(***************************************************************************)
(* Theorems about the id maps, the ids, the Defers, the namespaces and the *)
(* mounts of MntNs, for all worlds: any accounts, paths, mounts,           *)
(* directories and grants, and ids of any width.                           *)
(***************************************************************************)
EXTENDS MntNs, SequenceTheorems, WellFoundedInduction, TLAPS

-----------------------------------------------------------------------------
(* make_id_map *)

\* The ids that an extent of the map covers, and what they are translated to.
LEMMA ExtentFields ==
  ASSUME NEW i, NEW o, NEW n
  PROVE  /\ Extent(i, o, n).inside = i
         /\ Extent(i, o, n).outside = o
         /\ Extent(i, o, n).count = n
  BY DEF Extent

(***************************************************************************)
(* Every extent of the map is one of the calls of add: the id itself below *)
(* and above the two ids and between them, and user to untrusted.          *)
(***************************************************************************)
LEMMA ExtentKinds ==
  ASSUME NEW user \in Ids, NEW untrusted \in Ids,
         NEW e \in make_id_map(user, untrusted)
  PROVE  /\ e.inside \in Nat /\ e.outside \in Nat /\ e.count \in Nat \ {0}
         /\ e.inside + e.count <= max_mapped + 1
         /\ e.outside + e.count <= max_mapped + 1
         /\ \/ e.inside = user /\ e.outside = untrusted /\ e.count = 1
            \/ /\ e.inside = e.outside
               /\ ~Covers(e, user) \/ user = untrusted
               /\ ~Covers(e, untrusted) \/ user = untrusted
<1> USE MaxMappedAssumption
<1>1. user \in Int /\ untrusted \in Int /\ 0 <= user /\ user <= max_mapped
      /\ 0 <= untrusted /\ untrusted <= max_mapped
  BY DEF Ids
<1>2. CASE user = untrusted
  BY <1>1, <1>2, ExtentFields DEF make_id_map, Extents
<1>3. CASE user < untrusted
  <2>1. \/ e = Extent(0, 0, user)
        \/ e = Extent(user, untrusted, 1)
        \/ e = Extent(user + 1, user + 1, untrusted - user - 1)
        \/ e = Extent(untrusted + 1, untrusted + 1, max_mapped - untrusted)
    BY <1>1, <1>3 DEF make_id_map, Extents
  <2>2. e.count # 0
    BY DEF make_id_map
  <2>3. QED
    BY <1>1, <1>3, <2>1, <2>2, ExtentFields DEF Covers
<1>4. CASE user > untrusted
  <2>1. \/ e = Extent(0, 0, untrusted)
        \/ e = Extent(untrusted + 1, untrusted + 1, user - untrusted - 1)
        \/ e = Extent(user, untrusted, 1)
        \/ e = Extent(user + 1, user + 1, max_mapped - user)
    BY <1>1, <1>4 DEF make_id_map, Extents
  <2>2. e.count # 0
    BY DEF make_id_map
  <2>3. QED
    BY <1>1, <1>4, <2>1, <2>2, ExtentFields DEF Covers
<1>5. QED
  BY <1>1, <1>2, <1>3, <1>4

\* Every id but untrusted is covered: user by its own extent, and the others
\* by one that leaves them as they are.
LEMMA ExtentExists ==
  ASSUME NEW user \in Ids, NEW untrusted \in Ids, NEW id \in Ids,
         id = user \/ id # untrusted
  PROVE  \E e \in make_id_map(user, untrusted) :
           Covers(e, id) /\ e.outside + (id - e.inside) =
                              (IF id = user THEN untrusted ELSE id)
<1> USE MaxMappedAssumption
<1>1. user \in Int /\ untrusted \in Int /\ id \in Int
      /\ 0 <= user /\ user <= max_mapped /\ 0 <= untrusted
      /\ untrusted <= max_mapped /\ 0 <= id /\ id <= max_mapped
  BY DEF Ids
<1> DEFINE Good(e) == /\ e \in make_id_map(user, untrusted)
                      /\ Covers(e, id)
                      /\ e.outside + (id - e.inside) =
                           (IF id = user THEN untrusted ELSE id)
<1>2. CASE user = untrusted
  <2>1. Good(Extent(0, 0, max_mapped + 1))
    BY <1>1, <1>2, ExtentFields DEF make_id_map, Extents, Covers
  <2>2. QED
    BY <2>1
<1>3. CASE id = user /\ user # untrusted
  <2>1. Good(Extent(user, untrusted, 1))
    BY <1>1, <1>3, ExtentFields DEF make_id_map, Extents, Covers
  <2>2. QED
    BY <2>1
<1>4. CASE user < untrusted /\ id # user /\ id # untrusted
  <2>1. CASE id < user
    <3>1. Good(Extent(0, 0, user))
      BY <1>1, <1>4, <2>1, ExtentFields DEF make_id_map, Extents, Covers
    <3>2. QED
      BY <3>1
  <2>2. CASE user < id /\ id < untrusted
    <3>1. Good(Extent(user + 1, user + 1, untrusted - user - 1))
      BY <1>1, <1>4, <2>2, ExtentFields DEF make_id_map, Extents, Covers
    <3>2. QED
      BY <3>1
  <2>3. CASE untrusted < id
    <3>1. Good(Extent(untrusted + 1, untrusted + 1, max_mapped - untrusted))
      BY <1>1, <1>4, <2>3, ExtentFields DEF make_id_map, Extents, Covers
    <3>2. QED
      BY <3>1
  <2>4. QED
    BY <1>1, <1>4, <2>1, <2>2, <2>3
<1>5. CASE user > untrusted /\ id # user /\ id # untrusted
  <2>1. CASE id < untrusted
    <3>1. Good(Extent(0, 0, untrusted))
      BY <1>1, <1>5, <2>1, ExtentFields DEF make_id_map, Extents, Covers
    <3>2. QED
      BY <3>1
  <2>2. CASE untrusted < id /\ id < user
    <3>1. Good(Extent(untrusted + 1, untrusted + 1, user - untrusted - 1))
      BY <1>1, <1>5, <2>2, ExtentFields DEF make_id_map, Extents, Covers
    <3>2. QED
      BY <3>1
  <2>3. CASE user < id
    <3>1. Good(Extent(user + 1, user + 1, max_mapped - user))
      BY <1>1, <1>5, <2>3, ExtentFields DEF make_id_map, Extents, Covers
    <3>2. QED
      BY <3>1
  <2>4. QED
    BY <1>1, <1>5, <2>1, <2>2, <2>3
<1>6. QED
  BY <1>1, <1>2, <1>3, <1>4, <1>5

(***************************************************************************)
(* make_id_map maps user to untrusted, leaves untrusted unmapped, and      *)
(* leaves everything else identical (cred.cc).                             *)
(***************************************************************************)
THEOREM MakeIdMapCorrect ==
  ASSUME NEW user \in Ids, NEW untrusted \in Ids, NEW id \in Ids
  PROVE  Lookup(make_id_map(user, untrusted), id) = Intended(user, untrusted, id)
<1> USE MaxMappedAssumption
<1> DEFINE map == make_id_map(user, untrusted)
<1>1. user \in Int /\ untrusted \in Int /\ id \in Int
  BY DEF Ids
<1>2. ASSUME NEW e \in map, Covers(e, id)
      PROVE  /\ id = user \/ id # untrusted
             /\ e.outside + (id - e.inside) = (IF id = user THEN untrusted ELSE id)
  BY <1>1, <1>2, ExtentKinds DEF Covers
<1>3. CASE id = user \/ id # untrusted
  <2>1. PICK e \in map : Covers(e, id) /\ e.outside + (id - e.inside) =
                           (IF id = user THEN untrusted ELSE id)
    BY <1>3, ExtentExists
  <2>2. QED
    BY <1>2, <1>3, <2>1 DEF Lookup, Intended
<1>4. CASE id # user /\ id = untrusted
  BY <1>2, <1>4 DEF Lookup, Intended
<1>5. QED
  BY <1>3, <1>4

(***************************************************************************)
(* The kernel accepts every map that make_id_map makes: its extents do not *)
(* overlap on either side, and no id in them wraps around.                 *)
(***************************************************************************)
THEOREM MakeIdMapAccepted ==
  ASSUME NEW user \in Ids, NEW untrusted \in Ids
  PROVE  Accepted(make_id_map(user, untrusted))
<1> USE MaxMappedAssumption
<1> DEFINE map == make_id_map(user, untrusted)
<1>1. user \in Int /\ untrusted \in Int /\ 0 <= user /\ user <= max_mapped
      /\ 0 <= untrusted /\ untrusted <= max_mapped
  BY DEF Ids
<1>2. ASSUME NEW e \in map, NEW f \in map, e # f
      PROVE  /\ Apart(e.inside, f.inside, e.count, f.count)
             /\ Apart(e.outside, f.outside, e.count, f.count)
  <2>1. CASE user = untrusted
    BY <1>1, <1>2, <2>1 DEF make_id_map, Extents
  <2>2. CASE user < untrusted
    <3> DEFINE Parts == {Extent(0, 0, user),
                         Extent(user, untrusted, 1),
                         Extent(user + 1, user + 1, untrusted - user - 1),
                         Extent(untrusted + 1, untrusted + 1, max_mapped - untrusted)}
    <3>1. e \in Parts /\ f \in Parts
      BY <1>1, <2>2 DEF make_id_map, Extents
    <3>2. QED
      BY <1>1, <1>2, <2>2, <3>1 DEF Extent, Apart
  <2>3. CASE user > untrusted
    <3> DEFINE Parts == {Extent(0, 0, untrusted),
                         Extent(untrusted + 1, untrusted + 1, user - untrusted - 1),
                         Extent(user, untrusted, 1),
                         Extent(user + 1, user + 1, max_mapped - user)}
    <3>1. e \in Parts /\ f \in Parts
      BY <1>1, <2>3 DEF make_id_map, Extents
    <3>2. QED
      BY <1>1, <1>2, <2>3, <3>1 DEF Extent, Apart
  <2>4. QED
    BY <1>1, <2>1, <2>2, <2>3
<1>3. ASSUME NEW e \in map
      PROVE  /\ e.inside >= 0 /\ e.outside >= 0 /\ e.count > 0
             /\ e.inside + e.count <= max_mapped + 1
             /\ e.outside + e.count <= max_mapped + 1
  BY ExtentKinds
<1>4. QED
  BY <1>2, <1>3 DEF Accepted

-----------------------------------------------------------------------------
(* make_idmap_ns *)

IdMapInv ==
  /\ user_cred_ \in Credentials
  /\ untrusted_cred_ \in Credentials
  /\ idpc \in {"uid_map", "done"}
       => gid_map = make_id_map(user_cred_.gid, untrusted_cred_.gid)
  /\ idpc = "done"
       => uid_map = make_id_map(user_cred_.uid, untrusted_cred_.uid)

LEMMA IdMapInvariant == IdSpec => []IdMapInv
<1>1. IdInit => IdMapInv
  BY DEF IdInit, IdMapInv
<1>2. IdMapInv /\ [IdNext]_idVars => IdMapInv'
  BY DEF IdMapInv, IdNext, idVars, IdGoto, ForkIdmap, WriteGidMap, WriteUidMap, IdFail
<1>3. QED
  BY <1>1, <1>2, PTL DEF IdSpec

(***************************************************************************)
(* The namespace of a strict jail translates every user id and group id as *)
(* intended, for all ids and accounts (make_idmap_ns, jai.cc).             *)
(***************************************************************************)
THEOREM NamespaceMapsAsIntended == IdSpec => []MapsAsIntended
<1>1. IdMapInv => MapsAsIntended
  <2> SUFFICES ASSUME IdMapInv, idpc = "done", NEW id \in Ids
               PROVE  /\ Lookup(uid_map, id)
                           = Intended(user_cred_.uid, untrusted_cred_.uid, id)
                      /\ Lookup(gid_map, id)
                           = Intended(user_cred_.gid, untrusted_cred_.gid, id)
    BY DEF MapsAsIntended
  <2>1. /\ user_cred_.uid \in Ids /\ user_cred_.gid \in Ids
        /\ untrusted_cred_.uid \in Ids /\ untrusted_cred_.gid \in Ids
    BY DEF IdMapInv, Credentials
  <2>2. QED
    BY <2>1, MakeIdMapCorrect DEF IdMapInv
<1>2. QED
  BY <1>1, IdMapInvariant, PTL

(***************************************************************************)
(* No map of make_idmap_ns is ever rejected by the kernel.                 *)
(***************************************************************************)
THEOREM NamespaceMapsAccepted == IdSpec => []MapsAccepted
<1>1. IdMapInv => MapsAccepted
  <2> SUFFICES ASSUME IdMapInv PROVE MapsAccepted
    OBVIOUS
  <2>1. /\ user_cred_.uid \in Ids /\ user_cred_.gid \in Ids
        /\ untrusted_cred_.uid \in Ids /\ untrusted_cred_.gid \in Ids
    BY DEF IdMapInv, Credentials
  <2>2. QED
    BY <2>1, MakeIdMapAccepted DEF MapsAccepted
<1>2. QED
  BY <1>1, IdMapInvariant, PTL

-----------------------------------------------------------------------------
(* asuser and the Defers *)

\* What no step changes.
Fixed == UNCHANGED << conf, user_cred_, untrusted_cred_ >>
Accounts == {user_cred_, untrusted_cred_}

LEMMA LaunchShape ==
  /\ LaunchIds.uid.e = 0 /\ LaunchIds.uid.s = 0
  /\ LaunchIds = [uid |-> [r |-> LaunchIds.uid.r, e |-> 0, s |-> 0],
                  gid |-> [r |-> LaunchIds.gid.r, e |-> LaunchIds.gid.r, s |-> LaunchIds.gid.r],
                  groups |-> LaunchIds.groups]
  BY DEF LaunchIds, Three

LEMMA FixedLaunch ==
  ASSUME Fixed
  PROVE  /\ LaunchIds' = LaunchIds /\ sbcred' = sbcred /\ LaunchEffective' = LaunchEffective
         /\ \A c : LoweredTo(c)' = LoweredTo(c)
  BY DEF Fixed, LaunchIds, sbcred, LaunchEffective, LoweredTo

\* What root's make_effective does when it succeeds, and when it does not.
LEMMA MakeEffective ==
  ASSUME NEW i, NEW c, NEW o \in make_effective(i, c),
         i = [uid |-> [r |-> i.uid.r, e |-> i.uid.e, s |-> 0],
              gid |-> [r |-> i.gid.r, e |-> i.gid.e, s |-> i.gid.s], groups |-> i.groups]
  PROVE  /\ o.ok \in BOOLEAN
         /\ o.ok => o.ids = [uid |-> [r |-> i.uid.r, e |-> c.uid, s |-> 0],
                             gid |-> [r |-> i.gid.r, e |-> c.gid, s |-> i.gid.s],
                             groups |-> c.groups]
         /\ ~o.ok => o.ids.uid.e = 0
<1> DEFINE root   == Escalate(i)
           groups == [root EXCEPT !.groups = c.groups]
           gid    == [groups EXCEPT !.gid.e = c.gid]
           uid    == [gid EXCEPT !.uid.e = c.uid]
<1>1. root = [uid |-> [r |-> i.uid.r, e |-> 0, s |-> 0],
              gid |-> [r |-> i.gid.r, e |-> i.gid.e, s |-> i.gid.s], groups |-> i.groups]
  BY DEF Escalate
<1> HIDE DEF root
<1>2. groups = [uid |-> [r |-> i.uid.r, e |-> 0, s |-> 0],
                gid |-> [r |-> i.gid.r, e |-> i.gid.e, s |-> i.gid.s], groups |-> c.groups]
  BY <1>1
<1> HIDE DEF groups
<1>3. gid = [uid |-> [r |-> i.uid.r, e |-> 0, s |-> 0],
             gid |-> [r |-> i.gid.r, e |-> c.gid, s |-> i.gid.s], groups |-> c.groups]
  BY <1>2
<1> HIDE DEF gid
<1>4. uid = [uid |-> [r |-> i.uid.r, e |-> c.uid, s |-> 0],
             gid |-> [r |-> i.gid.r, e |-> c.gid, s |-> i.gid.s], groups |-> c.groups]
  BY <1>3
<1> HIDE DEF uid
<1>5. o = Outcome(uid, TRUE) \/ \E f \in {root, groups, gid} : o = Outcome(f, FALSE)
  BY <1>1 DEF make_effective, root, groups, gid, uid
<1>6. CASE o = Outcome(uid, TRUE)
  <2>1. o.ok = TRUE /\ o.ids = uid
    BY <1>6 DEF Outcome
  <2> QED
    BY <1>4, <2>1
<1>7. ASSUME NEW f \in {root, groups, gid}, o = Outcome(f, FALSE)
      PROVE  o.ok = FALSE /\ o.ids.uid.e = 0
  <2>1. o.ok = FALSE /\ o.ids = f
    BY <1>7 DEF Outcome
  <2>2. f.uid.e = 0
    BY <1>1, <1>2, <1>3, <1>7
  <2> QED
    BY <2>1, <2>2
<1> QED
  BY <1>5, <1>6, <1>7

\* asuser goes into the scope of its Defer, or throws and leaves root.
LEMMA AsuserStep ==
  ASSUME NEW outer, AsRoot(outer), Fixed, NEW c \in Accounts, NEW from, NEW to,
         Lower(from, to, c)
  PROVE  \/ pc' = to /\ AsUser(outer)'
         \/ pc' = "unwind" /\ RootLeft(outer)'
<1>1. /\ ids = [uid |-> [r |-> ids.uid.r, e |-> ids.uid.e, s |-> 0],
                gid |-> [r |-> ids.gid.r, e |-> ids.gid.e, s |-> ids.gid.s],
                groups |-> ids.groups]
      /\ ids.uid.e = 0 /\ ids.uid.r = LaunchIds.uid.r
      /\ ids.gid.r = LaunchIds.gid.r /\ ids.gid.e = LaunchIds.gid.r
      /\ ids.gid.s = LaunchIds.gid.r /\ ids.groups = LaunchIds.groups
  BY LaunchShape DEF AsRoot
<1>2. CASE asuser(c) /\ pc' = to
  <2>1. CASE Arm(Nothing) /\ UNCHANGED ids
    BY <1>2, <2>1, FixedLaunch DEF AsRoot, AsUser, Arm
  <2>2. CASE Arm(RestoreIds(get_effective))
             /\ \E o \in make_effective(ids, Target(c)) : o.ok /\ ids' = o.ids
    <3>1. ids' = LoweredTo(c)
      BY <1>1, <2>2, MakeEffective DEF LoweredTo, Target
    <3>2. get_effective = LaunchEffective
      BY <1>1 DEF get_effective, LaunchEffective
    <3> QED
      BY <1>2, <2>2, <3>1, <3>2, FixedLaunch DEF AsRoot, AsUser, Arm, Accounts, Fixed
  <2> QED
    BY <1>2, <2>1, <2>2 DEF asuser
<1>3. CASE asuserThrows(c) /\ pc' = "unwind"
  <2>1. PICK o \in make_effective(ids, Target(c)) : ~o.ok /\ ids' = o.ids
    BY <1>1, <1>3 DEF asuserThrows
  <2>2. o.ids.uid.e = 0
    BY <1>1, <2>1, MakeEffective
  <2>3. ids'.uid.e = 0 /\ UNCHANGED defers
    BY <1>3, <2>1, <2>2 DEF asuserThrows
  <2> QED
    BY <1>3, <2>3 DEF AsRoot, RootLeft, Root, euid
<1> QED
  BY <1>2, <1>3 DEF Lower

\* A Defer brings the ids of the launch back, or throws and leaves root.
LEMMA RestoreStep ==
  ASSUME NEW outer \in {<< >>, << RestoreNs >>}, AsUser(outer), Fixed,
         NEW ok \in BOOLEAN, Restore(ok)
  PROVE  /\ ok => AsRoot(outer)'
         /\ ~ok => RootLeft(outer)'
<1>1. ASSUME NEW x, defers = Append(outer, x)
      PROVE  Innermost = x /\ defers' = outer
  BY <1>1 DEF Innermost, Restore, Disarm
<1>2. CASE ids = LaunchIds /\ defers = Append(outer, Nothing)
  <2>1. ok /\ UNCHANGED ids /\ defers' = outer
    BY <1>1, <1>2 DEF Restore, Nothing
  <2> QED
    BY <1>2, <2>1, FixedLaunch DEF AsRoot
<1>3. ASSUME NEW c \in Accounts, ids = LoweredTo(c),
             defers = Append(outer, RestoreIds(LaunchEffective))
      PROVE  (ok => AsRoot(outer)') /\ (~ok => RootLeft(outer)')
  <2>1. Innermost = RestoreIds(LaunchEffective) /\ defers' = outer
    BY <1>1, <1>3
  <2>2. PICK o \in make_effective(ids, LaunchEffective) : o.ok = ok /\ ids' = o.ids
    BY <2>1 DEF Restore, Nothing, RestoreIds
  <2>3. ids = [uid |-> [r |-> ids.uid.r, e |-> ids.uid.e, s |-> 0],
               gid |-> [r |-> ids.gid.r, e |-> ids.gid.e, s |-> ids.gid.s],
               groups |-> ids.groups]
    BY <1>3 DEF LoweredTo
  <2>4. ASSUME ok
        PROVE  ids' = LaunchIds
    <3>1. ids' = [uid |-> [r |-> ids.uid.r, e |-> 0, s |-> 0],
                  gid |-> [r |-> ids.gid.r, e |-> LaunchIds.gid.r, s |-> ids.gid.s],
                  groups |-> LaunchIds.groups]
      <4>1. o.ok
        BY <2>2, <2>4
      <4> QED
        BY <2>2, <2>3, <4>1, MakeEffective DEF LaunchEffective
    <3>2. ids.uid.r = LaunchIds.uid.r /\ ids.gid.r = LaunchIds.gid.r
          /\ ids.gid.s = LaunchIds.gid.r
      BY <1>3 DEF LoweredTo
    <3> QED
      BY <3>1, <3>2, LaunchShape
  <2>5. ~ok => ids'.uid.e = 0
    BY <2>2, <2>3, MakeEffective
  <2> QED
    BY <2>1, <2>4, <2>5, FixedLaunch DEF AsRoot, RootLeft, Root, euid
<1> QED
  BY <1>2, <1>3 DEF AsUser, Accounts
\* There is something to restore, and not the namespace.
LEMMA UserIsInScope ==
  ASSUME NEW outer \in {<< >>, << RestoreNs >>}, AsUser(outer)
  PROVE  defers # << >> /\ Innermost # RestoreNs
<1>1. PICK x \in {Nothing, RestoreIds(LaunchEffective)} : defers = Append(outer, x)
  BY DEF AsUser
<1>2. defers # << >> /\ Innermost = x
  BY <1>1 DEF Innermost
<1>3. Nothing.does # RestoreNs.does /\ RestoreIds(LaunchEffective).does # RestoreNs.does
  BY DEF Nothing, RestoreNs, RestoreIds
<1> QED
  BY <1>2, <1>3

\* make_real, by root, leaves no id of the launch when it succeeds.
LEMMA MakeRealStep ==
  ASSUME NEW c, NEW o \in make_real(LaunchIds, c)
  PROVE  /\ o.ok => o.ids = [uid |-> Three(c.uid), gid |-> Three(c.gid), groups |-> c.groups]
         /\ ~o.ok => o.ids.uid.e = 0
<1> DEFINE i      == LaunchIds
           root   == Escalate(i)
           groups == [root EXCEPT !.groups = c.groups]
           gid    == IF c.gid = i.gid.r THEN groups ELSE [groups EXCEPT !.gid = Three(c.gid)]
           uid    == [gid EXCEPT !.uid = Three(c.uid)]
<1>1. root = [uid |-> [r |-> i.uid.r, e |-> 0, s |-> 0],
              gid |-> Three(i.gid.r), groups |-> i.groups]
  BY LaunchShape DEF Escalate, Three
<1> HIDE DEF root
<1>2. groups = [uid |-> [r |-> i.uid.r, e |-> 0, s |-> 0],
                gid |-> Three(i.gid.r), groups |-> c.groups]
  BY <1>1
<1> HIDE DEF groups
<1>3. gid = [uid |-> [r |-> i.uid.r, e |-> 0, s |-> 0],
             gid |-> Three(c.gid), groups |-> c.groups]
  BY <1>2
<1> HIDE DEF gid
<1>4. uid = [uid |-> Three(c.uid), gid |-> Three(c.gid), groups |-> c.groups]
  BY <1>3
<1> HIDE DEF uid
<1>5. o = Outcome(uid, TRUE) \/ \E f \in {root, groups, gid} : o = Outcome(f, FALSE)
  BY <1>1 DEF make_real, root, groups, gid, uid
<1>6. CASE o = Outcome(uid, TRUE)
  BY <1>4, <1>6 DEF Outcome
<1>7. ASSUME NEW f \in {root, groups, gid}, o = Outcome(f, FALSE)
      PROVE  o.ok = FALSE /\ o.ids.uid.e = 0
  <2>1. o.ok = FALSE /\ o.ids = f
    BY <1>7 DEF Outcome
  <2>2. f.uid.e = 0
    BY <1>1, <1>2, <1>3, <1>7
  <2> QED
    BY <2>1, <2>2
<1> QED
  BY <1>5, <1>6, <1>7

-----------------------------------------------------------------------------
(* The invariant *)

\* What PrivInv says at each kind of place.
LEMMA Places ==
  ASSUME PrivInv
  PROVE  /\ pc \in Outside => AsRoot(<< >>) /\ (pc \notin Child => cur = "old")
         /\ pc = "config" => AsUser(<< >>) /\ cur = "old"
         /\ pc \in InMakeMntNs => AsRoot(<< RestoreNs >>)
         /\ pc \in LoweredThere => AsUser(<< RestoreNs >>)
         /\ pc \in Programs => OfTheProgram
         /\ pc = "unwind" => \/ (AsUser(<< >>) \/ RootLeft(<< >>)) /\ cur = "old"
                             \/ AsUser(<< RestoreNs >>) \/ RootLeft(<< RestoreNs >>)
         /\ pc = "failed" => Root /\ cur = "old"
         /\ pc \in {"exited", "terminated"} => Root \/ OfTheProgram
  BY DEF PrivInv, Outside, InMakeMntNs, LoweredThere, Programs

\* At the launch, and wherever the Defers have been run, jai is root.
LEMMA RootThere == ASSUME NEW outer, AsRoot(outer) PROVE RootLeft(outer)
  BY LaunchShape DEF AsRoot, RootLeft, Root, euid

LEMMA SameIds ==
  ASSUME Fixed, UNCHANGED privVars
  PROVE  /\ \A outer : (AsRoot(outer) => AsRoot(outer)') /\ (AsUser(outer) => AsUser(outer)')
         /\ \A outer : RootLeft(outer) => RootLeft(outer)'
         /\ (Root => Root') /\ (OfTheProgram => OfTheProgram')
<1>1. ids' = ids /\ defers' = defers /\ sbcred' = sbcred
  BY FixedLaunch DEF privVars
<1>2. ASSUME NEW outer
      PROVE  (AsRoot(outer) => AsRoot(outer)') /\ (AsUser(outer) => AsUser(outer)')
             /\ (RootLeft(outer) => RootLeft(outer)')
  BY <1>1, FixedLaunch DEF AsRoot, AsUser, RootLeft, Root, euid, Fixed
<1> QED
  BY <1>1, <1>2 DEF Root, euid, OfTheProgram, Three

\* Root goes on in make_mnt_ns, throws, or exits.
LEMMA RootGoesOn ==
  ASSUME PrivInv, Fixed, UNCHANGED privVars,
         pc \in InMakeMntNs, pc' \in InMakeMntNs \cup {"unwind", "exited"}
  PROVE  PrivInv'
<1>1. AsRoot(<< RestoreNs >>)'
  BY Places, SameIds
<1>2. RootLeft(<< RestoreNs >>)'
  BY Places, RootThere, SameIds
<1>3. pc' \in InMakeMntNs \/ pc' = "unwind" \/ pc' = "exited"
  OBVIOUS
<1> QED
  BY <1>1, <1>2, <1>3 DEF PrivInv, RootLeft

\* So does an account, in the scope of its Defer.
LEMMA UserGoesOn ==
  ASSUME PrivInv, Fixed, UNCHANGED privVars,
         pc \in LoweredThere, pc' \in LoweredThere \cup {"unwind"}
  PROVE  PrivInv'
<1>1. AsUser(<< RestoreNs >>)'
  BY Places, SameIds
<1> QED
  BY <1>1 DEF PrivInv

\* asuser in make_mnt_ns.
LEMMA GoesLower ==
  ASSUME PrivInv, Fixed, NEW c \in Accounts,
         NEW from \in InMakeMntNs, NEW to \in LoweredThere, Lower(from, to, c)
  PROVE  PrivInv'
<1>1. pc = from
  BY DEF Lower
<1>2. AsRoot(<< RestoreNs >>)
  BY <1>1, Places
<1> QED
  BY <1>2, AsuserStep DEF PrivInv

\* The end of the scope of an asuser in make_mnt_ns.
LEMMA GoesBack ==
  ASSUME PrivInv, Fixed, pc \in LoweredThere, NEW to \in InMakeMntNs,
         \/ Restore(TRUE) /\ pc' = to
         \/ Restore(FALSE) /\ pc' \in {"unwind", "terminated"}
  PROVE  PrivInv'
<1>1. AsUser(<< RestoreNs >>)
  BY Places
<1>2. CASE Restore(TRUE) /\ pc' = to
  BY <1>1, <1>2, RestoreStep DEF PrivInv
<1>3. CASE Restore(FALSE) /\ pc' \in {"unwind", "terminated"}
  BY <1>1, <1>3, RestoreStep DEF PrivInv, RootLeft
<1> QED
  BY <1>2, <1>3

LEMMA PrivInitInv == Init => PrivInv
  BY DEF Init, PrivInv, AsRoot, Outside

\* The steps of root in make_mnt_ns, of an account there, and those between.
RootSteps ==
  \/ MakePrivateTmp \/ NoPasswd \/ ClonePasswd \/ MakePrivateRun \/ ReuseOverlay
  \/ MountOverlay \/ CloneHome \/ SetAttr \/ Unshare \/ MakeReadOnly \/ DetachShared
  \/ PlaceTmp \/ PlaceVarTmp \/ PlaceHome \/ PlacePasswd \/ PlaceRun \/ RefuseHome
  \/ GrantCwd \/ GrantNext \/ ToOld \/ CloneSource \/ ToNew \/ AttachGrant
  \/ GrantsDone \/ Compare \/ Cover \/ NextBlocked \/ MakeIdMapNs
UserSteps ==
  \/ MakeBlacklist \/ MakeSandboxHome \/ OpenSource \/ OpenTarget \/ MakeTarget
  \/ CheckTarget \/ OpenBlocked
LowerSteps ==
  \/ ReadPasswd \/ MakeOverlay \/ ReopenOverlay \/ EnsureSandboxHome
  \/ LowerForSource \/ LowerForTarget \/ LowerForMake \/ LowerForBlock
BackSteps ==
  \/ ResetPasswd \/ MakeWork \/ ResetSource \/ ResetBeforeMake \/ ResetTarget
  \/ ResetBlocked \/ ReturnOverlay \/ ReturnSandboxHome \/ SkipBlocked

LEMMA RootStepsKeep == PrivInv /\ RootSteps => PrivInv'
<1> SUFFICES ASSUME PrivInv, RootSteps PROVE PrivInv'
  OBVIOUS
<1> USE DEF Step, Goto, Place, Same, Fixed, idVars, InMakeMntNs
<1>1. CASE MakePrivateTmp
  BY <1>1, RootGoesOn DEF MakePrivateTmp
<1>2. CASE NoPasswd
  BY <1>2, RootGoesOn DEF NoPasswd
<1>3. CASE ClonePasswd
  BY <1>3, RootGoesOn DEF ClonePasswd
<1>4. CASE MakePrivateRun
  BY <1>4, RootGoesOn DEF MakePrivateRun
<1>5. CASE ReuseOverlay
  BY <1>5, RootGoesOn DEF ReuseOverlay
<1>6. CASE MountOverlay
  BY <1>6, RootGoesOn DEF MountOverlay
<1>7. CASE CloneHome
  BY <1>7, RootGoesOn DEF CloneHome
<1>8. CASE SetAttr
  BY <1>8, RootGoesOn DEF SetAttr
<1>9. CASE Unshare
  BY <1>9, RootGoesOn DEF Unshare
<1>10. CASE MakeReadOnly
  BY <1>10, RootGoesOn DEF MakeReadOnly
<1>11. CASE DetachShared
  BY <1>11, RootGoesOn DEF DetachShared
<1>12. CASE PlaceTmp
  BY <1>12, RootGoesOn DEF PlaceTmp
<1>13. CASE PlaceVarTmp
  BY <1>13, RootGoesOn DEF PlaceVarTmp
<1>14. CASE PlaceHome
  BY <1>14, RootGoesOn DEF PlaceHome
<1>15. CASE PlacePasswd
  BY <1>15, RootGoesOn DEF PlacePasswd
<1>16. CASE PlaceRun
  BY <1>16, RootGoesOn DEF PlaceRun
<1>17. CASE RefuseHome
  BY <1>17, RootGoesOn DEF RefuseHome
<1>18. CASE GrantCwd
  BY <1>18, RootGoesOn DEF GrantCwd
<1>19. CASE GrantNext
  BY <1>19, RootGoesOn DEF GrantNext
<1>20. CASE ToOld
  BY <1>20, RootGoesOn DEF ToOld
<1>21. CASE CloneSource
  BY <1>21, RootGoesOn DEF CloneSource
<1>22. CASE ToNew
  BY <1>22, RootGoesOn DEF ToNew
<1>23. CASE AttachGrant
  BY <1>23, RootGoesOn DEF AttachGrant
<1>24. CASE GrantsDone
  BY <1>24, RootGoesOn DEF GrantsDone
<1>25. CASE Compare
  BY <1>25, RootGoesOn DEF Compare
<1>26. CASE Cover
  BY <1>26, RootGoesOn DEF Cover
<1>27. CASE NextBlocked
  BY <1>27, RootGoesOn DEF NextBlocked
<1>28. CASE MakeIdMapNs
  BY <1>28, RootGoesOn DEF MakeIdMapNs, IdNext, ForkIdmap, WriteGidMap, WriteUidMap, IdFail
<1> QED
  BY <1>1, <1>2, <1>3, <1>4, <1>5, <1>6, <1>7, <1>8, <1>9, <1>10, <1>11, <1>12, <1>13,
     <1>14, <1>15, <1>16, <1>17, <1>18, <1>19, <1>20, <1>21, <1>22, <1>23, <1>24,
     <1>25, <1>26, <1>27, <1>28
     DEF RootSteps

LEMMA UserStepsKeep == PrivInv /\ UserSteps => PrivInv'
<1> SUFFICES ASSUME PrivInv, UserSteps PROVE PrivInv'
  OBVIOUS
<1> USE DEF Step, Goto, Same, Fixed, idVars, LoweredThere
<1>1. CASE MakeBlacklist
  BY <1>1, UserGoesOn DEF MakeBlacklist
<1>2. CASE MakeSandboxHome
  BY <1>2, UserGoesOn DEF MakeSandboxHome
<1>3. CASE OpenSource
  BY <1>3, UserGoesOn DEF OpenSource
<1>4. CASE OpenTarget
  BY <1>4, UserGoesOn DEF OpenTarget
<1>5. CASE MakeTarget
  BY <1>5, UserGoesOn DEF MakeTarget
<1>6. CASE CheckTarget
  BY <1>6, UserGoesOn DEF CheckTarget
<1>7. CASE OpenBlocked
  BY <1>7, UserGoesOn DEF OpenBlocked
<1> QED
  BY <1>1, <1>2, <1>3, <1>4, <1>5, <1>6, <1>7
     DEF UserSteps

LEMMA LowerStepsKeep == PrivInv /\ LowerSteps => PrivInv'
<1> SUFFICES ASSUME PrivInv, LowerSteps PROVE PrivInv'
  OBVIOUS
<1>1. user_cred_ \in Accounts /\ sbcred \in Accounts
  BY DEF Accounts, sbcred
<1> USE <1>1 DEF Fixed, idVars, InMakeMntNs, LoweredThere
<1>2. CASE ReadPasswd
  <2>1. Lower("passwd", "link_passwd", user_cred_)
    BY <1>2 DEF ReadPasswd
  <2>2. Fixed
    BY <2>1 DEF Lower
  <2> QED
    BY <2>1, <2>2, GoesLower
<1>3. CASE MakeOverlay
  <2>1. Lower("home", "changes", user_cred_)
    BY <1>3 DEF MakeOverlay
  <2>2. Fixed
    BY <2>1 DEF Lower
  <2> QED
    BY <2>1, <2>2, GoesLower
<1>4. CASE ReopenOverlay
  <2>1. Lower("reopen", "reopened", user_cred_)
    BY <1>4 DEF ReopenOverlay
  <2>2. Fixed
    BY <2>1 DEF Lower
  <2> QED
    BY <2>1, <2>2, GoesLower
<1>5. CASE EnsureSandboxHome
  <2>1. Lower("home", "sandbox_home", user_cred_)
    BY <1>5 DEF EnsureSandboxHome
  <2>2. Fixed
    BY <2>1 DEF Lower
  <2> QED
    BY <2>1, <2>2, GoesLower
<1>6. CASE LowerForSource
  <2>1. Lower("lower_src", "open_src", user_cred_)
    BY <1>6 DEF LowerForSource
  <2>2. Fixed
    BY <2>1 DEF Lower
  <2> QED
    BY <2>1, <2>2, GoesLower
<1>7. CASE LowerForTarget
  <2>1. Lower("lower_dst", "open_dst", user_cred_)
    BY <1>7 DEF LowerForTarget
  <2>2. Fixed
    BY <2>1 DEF Lower
  <2> QED
    BY <2>1, <2>2, GoesLower
<1>8. CASE LowerForMake
  <2>1. Lower("lower_sb", "make_dst", sbcred)
    BY <1>8 DEF LowerForMake
  <2>2. Fixed
    BY <2>1 DEF Lower
  <2> QED
    BY <2>1, <2>2, GoesLower
<1>9. CASE LowerForBlock
  <2>1. Lower("block", "open_block", sbcred)
    BY <1>9 DEF LowerForBlock
  <2>2. Fixed
    BY <2>1 DEF Lower
  <2> QED
    BY <2>1, <2>2, GoesLower
<1> QED
  BY <1>2, <1>3, <1>4, <1>5, <1>6, <1>7, <1>8, <1>9
     DEF LowerSteps

LEMMA BackStepsKeep == PrivInv /\ BackSteps => PrivInv'
<1> SUFFICES ASSUME PrivInv, BackSteps PROVE PrivInv'
  OBVIOUS
<1> USE DEF Reset, Leave, Fixed, idVars, InMakeMntNs, LoweredThere
<1>1. CASE ResetPasswd
  BY <1>1, GoesBack DEF ResetPasswd
<1>2. CASE MakeWork
  BY <1>2, GoesBack DEF MakeWork
<1>3. CASE ResetSource
  BY <1>3, GoesBack DEF ResetSource
<1>4. CASE ResetBeforeMake
  BY <1>4, GoesBack DEF ResetBeforeMake
<1>5. CASE ResetTarget
  BY <1>5, GoesBack DEF ResetTarget
<1>6. CASE ResetBlocked
  BY <1>6, GoesBack DEF ResetBlocked
<1>7. CASE ReturnOverlay
  BY <1>7, GoesBack DEF ReturnOverlay
<1>8. CASE ReturnSandboxHome
  BY <1>8, GoesBack DEF ReturnSandboxHome
<1>9. CASE SkipBlocked
  BY <1>9, GoesBack DEF SkipBlocked
<1> QED
  BY <1>1, <1>2, <1>3, <1>4, <1>5, <1>6, <1>7, <1>8, <1>9
     DEF BackSteps

\* The steps outside make_mnt_ns, and those of an exception.
LEMMA OtherStepsKeep ==
  ASSUME PrivInv,
         \/ MainAsUser \/ MainReset \/ OpenOldNs \/ ReturnNs \/ ChildSetNs \/ FixProc
         \/ MakeReal \/ Chdir \/ Throw \/ ExitNow \/ Unwind \/ UnwindNs \/ Caught
  PROVE  PrivInv'
<1>1. Fixed
  BY DEF MainAsUser, MainReset, OpenOldNs, ReturnNs, ChildSetNs, FixProc, MakeReal, Chdir,
         Throw, ExitNow, Unwind, UnwindNs, Caught, Lower, Reset, Step, Goto, Fixed, idVars
<1>2. CASE MainAsUser
  <2>1. AsRoot(<< >>) /\ cur' = "old" /\ user_cred_ \in Accounts
    BY <1>2, Places DEF MainAsUser, Lower, where, Outside, Child, Accounts
  <2> QED
    BY <1>1, <1>2, <2>1, AsuserStep DEF MainAsUser, PrivInv
<1>3. CASE MainReset
  <2>1. AsUser(<< >>) /\ cur' = "old"
    BY <1>3, Places DEF MainReset, Reset, where
  <2>2. \/ pc' = "oldns" /\ AsRoot(<< >>)'
        \/ pc' = "unwind" /\ RootLeft(<< >>)'
    BY <1>1, <1>3, <2>1, RestoreStep DEF MainReset, Reset
  <2> QED
    BY <2>1, <2>2 DEF PrivInv, Outside
<1>4. CASE OpenOldNs
  <2>1. AsRoot(<< >>)
    BY <1>4, Places DEF OpenOldNs, Outside
  <2>2. AsRoot(<< RestoreNs >>)'
    BY <1>1, <1>4, <2>1, FixedLaunch DEF OpenOldNs, AsRoot, Arm
  <2>3. RootLeft(<< RestoreNs >>)'
    BY <1>1, <1>4, <2>1, <2>2, LaunchShape, FixedLaunch
       DEF OpenOldNs, AsRoot, RootLeft, Root, euid
  <2> QED
    BY <1>4, <2>2, <2>3 DEF OpenOldNs, PrivInv, InMakeMntNs
<1>5. CASE ReturnNs
  <2>1. AsRoot(<< RestoreNs >>)
    BY <1>5, Places DEF ReturnNs, Goto, InMakeMntNs
  <2>2. AsRoot(<< >>)' /\ cur' = "old" /\ pc' = "exec"
    BY <1>1, <1>5, <2>1, FixedLaunch DEF ReturnNs, AsRoot, Disarm, SetNs, Goto
  <2> QED
    BY <2>2 DEF PrivInv, Outside
<1>6. CASE ChildSetNs \/ FixProc
  <2>1. AsRoot(<< >>)'
    BY <1>1, <1>6, Places, SameIds DEF ChildSetNs, FixProc, Step, Goto, Outside
  <2> QED
    BY <1>6, <2>1 DEF ChildSetNs, FixProc, Step, Goto, PrivInv, Outside, Child
<1>7. CASE MakeReal
  <2>1. AsRoot(<< >>)
    BY <1>7, Places DEF MakeReal, Outside
  <2>2. PICK o \in make_real(ids, Target(sbcred)) :
          ids' = o.ids /\ pc' = IF o.ok THEN "chdir" ELSE "exited"
    BY <1>7 DEF MakeReal
  <2>3. \/ pc' = "chdir" /\ OfTheProgram'
        \/ pc' = "exited" /\ Root'
    BY <1>1, <2>1, <2>2, MakeRealStep, FixedLaunch DEF AsRoot, OfTheProgram, Target, Root, euid
  <2> QED
    BY <2>3 DEF PrivInv, Programs
<1>8. CASE Chdir
  BY <1>1, <1>8, Places, SameIds DEF Chdir, PrivInv, Programs
<1>9. CASE Throw
  <2>1. pc \in InMakeMntNs \cup LoweredThere \cup {"config", "oldns"}
    BY <1>9 DEF Throw, PrivInv, Final, Child, Outside, Programs
  <2>2. CASE pc = "config" \/ pc = "oldns"
    <3>1. cur' = "old" /\ (AsUser(<< >>) \/ RootLeft(<< >>))'
      BY <1>1, <1>9, <2>2, Places, SameIds, RootThere
         DEF Throw, Same, where, Outside, Child
    <3> QED
      BY <1>9, <3>1 DEF Throw, PrivInv
  <2> QED
    BY <1>1, <1>9, <2>1, <2>2, RootGoesOn, UserGoesOn DEF Throw
<1>10. CASE ExitNow
  <2>1. Root' \/ OfTheProgram'
    BY <1>1, <1>10, Places, SameIds, RootThere
       DEF ExitNow, Child, Outside, InMakeMntNs, Programs, RootLeft
  <2> QED
    BY <1>10, <2>1 DEF ExitNow, PrivInv
<1>11. CASE Unwind
  <2>1. cur' = cur
    BY <1>11 DEF Unwind, where
  <2>2. (AsUser(<< >>) /\ cur = "old") \/ AsUser(<< RestoreNs >>)
    BY <1>11, Places DEF Unwind, RootLeft, Innermost
  <2>3. ASSUME NEW outer \in {<< >>, << RestoreNs >>}, AsUser(outer)
        PROVE  \/ pc' = "unwind" /\ RootLeft(outer)'
               \/ pc' = "terminated" /\ Root'
    <3>1. CASE Restore(TRUE) /\ UNCHANGED pc
      <4>1. ids' = LaunchIds /\ defers' = outer
        BY <1>1, <2>3, <3>1, RestoreStep, FixedLaunch DEF AsRoot
      <4> QED
        BY <1>11, <3>1, <4>1, LaunchShape DEF Unwind, RootLeft, Root, euid
    <3>2. CASE Restore(FALSE) /\ pc' = "terminated"
      BY <1>1, <2>3, <3>2, RestoreStep DEF RootLeft
    <3> QED
      BY <1>11, <3>1, <3>2 DEF Unwind
  <2> QED
    BY <2>1, <2>2, <2>3 DEF PrivInv
<1>12. CASE UnwindNs
  <2>1. RootLeft(<< RestoreNs >>)
    BY <1>12, Places, UserIsInScope DEF UnwindNs, RootLeft
  <2>2. CASE SetNs("old") /\ Disarm /\ UNCHANGED pc
    <3>1. RootLeft(<< >>)' /\ cur' = "old" /\ pc' = "unwind"
      BY <1>12, <2>1, <2>2 DEF UnwindNs, RootLeft, Root, euid, Disarm, SetNs
    <3> QED
      BY <3>1 DEF PrivInv
  <2>3. CASE pc' = "exited"
    BY <1>12, <2>1, <2>3 DEF UnwindNs, RootLeft, Root, euid, PrivInv
  <2> QED
    BY <1>12, <2>2, <2>3 DEF UnwindNs
<1>13. CASE Caught
  <2>1. RootLeft(<< >>) /\ cur = "old"
    BY <1>13, Places, UserIsInScope DEF Caught, Step, Goto, RootLeft
  <2>2. Root' /\ cur' = "old"
    BY <1>13, <2>1 DEF Caught, Step, Same, where, privVars, RootLeft, Root, euid
  <2> QED
    BY <1>13, <2>2 DEF Caught, Step, Goto, PrivInv
<1> QED
  BY <1>2, <1>3, <1>4, <1>5, <1>6, <1>7, <1>8, <1>9, <1>10, <1>11, <1>12, <1>13

LEMMA PrivNextInv == PrivInv /\ [Next]_vars => PrivInv'
<1> SUFFICES ASSUME PrivInv, [Next]_vars PROVE PrivInv'
  OBVIOUS
<1>1. CASE UNCHANGED vars
  <2>1. Fixed /\ UNCHANGED << privVars, pc, cur >>
    BY <1>1 DEF vars, Fixed, idVars, where
  <2> QED
    BY <2>1, SameIds DEF PrivInv
<1>2. CASE Next
  BY <1>2, RootStepsKeep, UserStepsKeep, LowerStepsKeep, BackStepsKeep, OtherStepsKeep
     DEF Next, RootSteps, UserSteps, LowerSteps, BackSteps
<1> QED
  BY <1>1, <1>2

(***************************************************************************)
(* The invariant holds in every reachable state.                           *)
(***************************************************************************)
THEOREM PrivInvariant == Spec => []PrivInv
<1>1. Init => PrivInv
  BY PrivInitInv
<1>2. PrivInv /\ [Next]_vars => PrivInv'
  BY PrivNextInv
<1> QED
  BY <1>1, <1>2, PTL DEF Spec

(***************************************************************************)
(* Whatever the accounts are, and whichever of the calls fail: no process  *)
(* of jai that is not root has the groups of another account than its own, *)
(* and the program has no id but its account's.                            *)
(***************************************************************************)
THEOREM OneAccountAtATime == Spec => []IdsBelongTogether
<1>1. ASSUME PrivInv
      PROVE  IdsBelongTogether
  <2>1. \/ Root \/ OfTheProgram
        \/ \E c \in Accounts : ids = LoweredTo(c)
    BY <1>1, RootThere, LaunchShape DEF PrivInv, AsRoot, AsUser, RootLeft, Root, euid, Accounts
  <2>2. ASSUME NEW c \in Accounts, ids = LoweredTo(c)
        PROVE  IdsOf(c)
    BY <2>2 DEF LoweredTo, IdsOf, get_effective, Target
  <2>3. OfTheProgram => IdsOf(sbcred) /\ sbcred \in Accounts
    BY DEF OfTheProgram, Three, IdsOf, get_effective, Target, sbcred, Accounts
  <2>4. pc \in Programs => OfTheProgram
    BY <1>1, Places
  <2> QED
    BY <2>1, <2>2, <2>3, <2>4 DEF IdsBelongTogether, Root, Accounts, Programs
<1> QED
  BY <1>1, PrivInvariant, PTL

(***************************************************************************)
(* make_mnt_ns returns, and exceptions arrive in main, as root in the old  *)
(* mount namespace, and each round of its loops starts as root.            *)
(***************************************************************************)
THEOREM ScopesRestore == Spec => []EverythingRestored
<1>1. PrivInv => EverythingRestored
  BY Places, RootThere
     DEF EverythingRestored, InMakeMntNs, Outside, Child, AsRoot, RootLeft
<1> QED
  BY <1>1, PrivInvariant, PTL

-----------------------------------------------------------------------------
(* The mount namespaces *)

\* No mount of the old namespace is changed, if there is a new one.
OldKept == ns.new # << >> => ns'.old = ns.old

LEMMA NsInitInv == Init => NsInv
  BY DEF Init, NsInv, Early, Ending, InNewNs

\* The steps that change no mount and stay in their namespace go from one
\* place in it to another, or to the end.
NextPlaces == pc' \in Ending \/ (pc \in Early /\ pc' \in Early)
              \/ (pc \notin Early \cup Ending \cup {"private"}
                  /\ pc' \notin Early \cup {"private"}
                  /\ (pc' \in InNewNs => pc \in InNewNs))

LEMMA NsStays ==
  ASSUME NsInv, UNCHANGED where, NextPlaces
  PROVE  NsInv' /\ OldKept
  BY DEF NsInv, NextPlaces, OldKept, where, Early, Ending, InNewNs

QuietSteps ==
  \/ MakePrivateTmp \/ NoPasswd \/ ClonePasswd \/ MakePrivateRun
  \/ ReuseOverlay \/ CloneHome \/ SetAttr \/ RefuseHome \/ GrantCwd
  \/ GrantNext \/ CloneSource \/ Compare \/ NextBlocked \/ MakeIdMapNs
  \/ MakeBlacklist \/ MakeSandboxHome \/ OpenSource \/ OpenTarget
  \/ MakeTarget \/ CheckTarget \/ OpenBlocked \/ ReadPasswd \/ MakeOverlay
  \/ ReopenOverlay \/ EnsureSandboxHome \/ LowerForSource \/ LowerForTarget
  \/ LowerForMake \/ LowerForBlock \/ MainAsUser \/ ResetPasswd \/ MakeWork
  \/ ResetSource \/ ResetBeforeMake \/ ResetTarget \/ ResetBlocked
  \/ MainReset \/ ReturnOverlay \/ ReturnSandboxHome \/ SkipBlocked
  \/ OpenOldNs \/ MakeReal \/ Chdir \/ Throw \/ ExitNow \/ Unwind \/ Caught

LEMMA QuietStepsKeep == NsInv /\ QuietSteps => NsInv' /\ OldKept
<1> SUFFICES ASSUME NsInv, QuietSteps PROVE UNCHANGED where /\ NextPlaces
  BY NsStays
<1> USE DEF Step, Goto, Same, NextPlaces, Early, Ending, InNewNs
<1>1. CASE MakePrivateTmp
  BY <1>1 DEF MakePrivateTmp
<1>2. CASE NoPasswd
  BY <1>2 DEF NoPasswd
<1>3. CASE ClonePasswd
  BY <1>3 DEF ClonePasswd
<1>4. CASE MakePrivateRun
  BY <1>4 DEF MakePrivateRun
<1>5. CASE ReuseOverlay
  BY <1>5 DEF ReuseOverlay
<1>6. CASE CloneHome
  BY <1>6 DEF CloneHome
<1>7. CASE SetAttr
  BY <1>7 DEF SetAttr
<1>8. CASE RefuseHome
  BY <1>8 DEF RefuseHome
<1>9. CASE GrantCwd
  BY <1>9 DEF GrantCwd
<1>10. CASE GrantNext
  BY <1>10 DEF GrantNext
<1>11. CASE CloneSource
  BY <1>11 DEF CloneSource
<1>12. CASE Compare
  BY <1>12 DEF Compare
<1>13. CASE NextBlocked
  BY <1>13 DEF NextBlocked
<1>14. CASE MakeIdMapNs
  BY <1>14 DEF MakeIdMapNs
<1>15. CASE MakeBlacklist
  BY <1>15 DEF MakeBlacklist
<1>16. CASE MakeSandboxHome
  BY <1>16 DEF MakeSandboxHome
<1>17. CASE OpenSource
  BY <1>17 DEF OpenSource
<1>18. CASE OpenTarget
  BY <1>18 DEF OpenTarget
<1>19. CASE MakeTarget
  BY <1>19 DEF MakeTarget
<1>20. CASE CheckTarget
  BY <1>20 DEF CheckTarget
<1>21. CASE OpenBlocked
  BY <1>21 DEF OpenBlocked
<1>22. CASE ReadPasswd
  BY <1>22 DEF ReadPasswd, Lower
<1>23. CASE MakeOverlay
  BY <1>23 DEF MakeOverlay, Lower
<1>24. CASE ReopenOverlay
  BY <1>24 DEF ReopenOverlay, Lower
<1>25. CASE EnsureSandboxHome
  BY <1>25 DEF EnsureSandboxHome, Lower
<1>26. CASE LowerForSource
  BY <1>26 DEF LowerForSource, Lower
<1>27. CASE LowerForTarget
  BY <1>27 DEF LowerForTarget, Lower
<1>28. CASE LowerForMake
  BY <1>28 DEF LowerForMake, Lower
<1>29. CASE LowerForBlock
  BY <1>29 DEF LowerForBlock, Lower
<1>30. CASE MainAsUser
  BY <1>30 DEF MainAsUser, Lower
<1>31. CASE ResetPasswd
  BY <1>31 DEF ResetPasswd, Reset
<1>32. CASE MakeWork
  BY <1>32 DEF MakeWork, Reset
<1>33. CASE ResetSource
  BY <1>33 DEF ResetSource, Reset
<1>34. CASE ResetBeforeMake
  BY <1>34 DEF ResetBeforeMake, Reset
<1>35. CASE ResetTarget
  BY <1>35 DEF ResetTarget, Reset
<1>36. CASE ResetBlocked
  BY <1>36 DEF ResetBlocked, Reset
<1>37. CASE MainReset
  BY <1>37 DEF MainReset, Reset
<1>38. CASE ReturnOverlay
  BY <1>38 DEF ReturnOverlay, Leave
<1>39. CASE ReturnSandboxHome
  BY <1>39 DEF ReturnSandboxHome, Leave
<1>40. CASE SkipBlocked
  BY <1>40 DEF SkipBlocked, Leave
<1>41. CASE OpenOldNs
  BY <1>41 DEF OpenOldNs
<1>42. CASE MakeReal
  BY <1>42 DEF MakeReal
<1>43. CASE Chdir
  BY <1>43 DEF Chdir
<1>44. CASE Throw
  BY <1>44 DEF Throw, Child, Final
<1>45. CASE ExitNow
  BY <1>45 DEF ExitNow, Child, Final
<1>46. CASE Unwind
  BY <1>46 DEF Unwind, where
<1>47. CASE Caught
  BY <1>47 DEF Caught
<1> HIDE DEF Step, Goto, Same, NextPlaces, Early, Ending, InNewNs
<1> QED
  BY <1>1, <1>2, <1>3, <1>4, <1>5, <1>6, <1>7, <1>8, <1>9, <1>10, <1>11, <1>12,
     <1>13, <1>14, <1>15, <1>16, <1>17, <1>18, <1>19, <1>20, <1>21, <1>22, <1>23,
     <1>24, <1>25, <1>26, <1>27, <1>28, <1>29, <1>30, <1>31, <1>32, <1>33, <1>34,
     <1>35, <1>36, <1>37, <1>38, <1>39, <1>40, <1>41, <1>42, <1>43, <1>44, <1>45,
     <1>46, <1>47
     DEF QuietSteps

\* The steps to another namespace, and those that change mounts.
LEMMA OtherStepsKeepNs ==
  ASSUME NsInv,
         \/ MountOverlay \/ Unshare \/ MakeReadOnly \/ DetachShared
         \/ PlaceTmp \/ PlaceVarTmp \/ PlaceHome \/ PlacePasswd \/ PlaceRun
         \/ ToOld \/ ToNew \/ AttachGrant \/ GrantsDone \/ Cover \/ ReturnNs
         \/ ChildSetNs \/ FixProc \/ UnwindNs
  PROVE  NsInv' /\ OldKept
<1> USE DEF NsInv, Early, Ending, InNewNs, OldKept
<1>1. CASE MountOverlay
  <2>1. ns.new = << >> /\ cur = "old" /\ peers = FALSE /\ pc' = "reopen"
        /\ UNCHANGED << cur, peers >>
    BY <1>1 DEF MountOverlay, Step, Goto
  <2>2. PICK m : ns' = [ns EXCEPT !["old"] = m]
    BY <1>1, <2>1 DEF MountOverlay, Change
  <2> QED
    BY <2>1, <2>2
<1>2. CASE Unshare
  BY <1>2 DEF Unshare, Step, Goto
<1>3. CASE MakeReadOnly
  <2>1. PICK m : ns' = [ns EXCEPT !["new"] = m]
    BY <1>3 DEF MakeReadOnly
  <2> QED
    BY <1>3, <2>1 DEF MakeReadOnly, Step, Goto
<1>4. ASSUME cur = "new", peers = FALSE, NEW m, ns' = [ns EXCEPT ![cur] = m],
             UNCHANGED << cur, peers >>, pc' \notin Early \cup {"private"}
      PROVE  NsInv' /\ OldKept
  BY <1>4
<1>5. ASSUME cur = "new", peers = FALSE, NEW m, NEW p, Attach(m, p),
             UNCHANGED << cur, peers >>, pc' \notin Early \cup {"private"}
      PROVE  NsInv' /\ OldKept
  <2>1. ns' = [ns EXCEPT ![cur] = Append(ns[cur], At(p, m))]
    BY <1>5 DEF Attach, Change
  <2> QED
    BY <1>4, <1>5, <2>1
<1>6. CASE DetachShared
  <2>1. cur = "new" /\ peers = FALSE /\ pc' = "place_tmp" /\ UNCHANGED << cur, peers >>
    BY <1>6 DEF DetachShared, Step, Goto
  <2>2. PICK m : ns' = [ns EXCEPT ![cur] = m]
    BY <1>6, <2>1 DEF DetachShared, Change
  <2> QED
    BY <1>4, <2>1, <2>2
<1>7. ASSUME NEW from \in InNewNs, NEW to \in InNewNs \cup {"cwd"}, NEW m, NEW p,
             Place(from, to, m, p)
      PROVE  NsInv' /\ OldKept
  <2>1. cur = "new" /\ peers = FALSE /\ pc' = to /\ UNCHANGED << cur, peers >>
    BY <1>7 DEF Place, Goto
  <2>2. CASE UNCHANGED ns
    BY <2>1, <2>2
  <2>3. CASE Attach(m, p)
    BY <1>5, <2>1, <2>3
  <2> QED
    BY <1>7, <2>2, <2>3 DEF Place
<1>8. CASE PlaceTmp
  BY <1>7, <1>8 DEF PlaceTmp
<1>9. CASE PlaceVarTmp
  BY <1>7, <1>9 DEF PlaceVarTmp
<1>10. CASE PlaceHome
  BY <1>7, <1>10 DEF PlaceHome
<1>11. CASE PlacePasswd
  BY <1>7, <1>11 DEF PlacePasswd
<1>12. CASE PlaceRun
  BY <1>7, <1>12 DEF PlaceRun
<1>13. CASE ToOld \/ ToNew \/ GrantsDone \/ ReturnNs \/ ChildSetNs
  BY <1>13 DEF ToOld, ToNew, GrantsDone, ReturnNs, ChildSetNs, SetNs, Step, Goto
<1>14. CASE AttachGrant
  <2>1. cur = "new" /\ peers = FALSE /\ pc' = "grants" /\ UNCHANGED << cur, peers >>
        /\ Attach(tree.src, d)
    BY <1>14 DEF AttachGrant, Step, Goto
  <2> QED
    BY <1>5, <2>1
<1>15. CASE Cover
  <2>1. cur = "new" /\ peers = FALSE /\ pc' = "next_block" /\ UNCHANGED << cur, peers >>
    BY <1>15 DEF Cover, Step, Goto
  <2>2. PICK m, p : Attach(m, p)
    BY <1>15 DEF Cover
  <2> QED
    BY <1>5, <2>1, <2>2
<1>16. CASE FixProc
  <2>1. cur = "new" /\ peers = FALSE /\ pc' = "make_real" /\ UNCHANGED << cur, peers >>
    BY <1>16 DEF FixProc, Step, Goto
  <2>2. PICK m : ns' = [ns EXCEPT ![cur] = m]
    BY <1>16 DEF FixProc
  <2> QED
    BY <1>4, <2>1, <2>2
<1>17. CASE UnwindNs
  BY <1>17 DEF UnwindNs, SetNs
<1> QED
  BY <1>1, <1>2, <1>3, <1>6, <1>8, <1>9, <1>10, <1>11, <1>12, <1>13, <1>14, <1>15,
     <1>16, <1>17

LEMMA NsNextInv == NsInv /\ Next => NsInv' /\ OldKept
  BY QuietStepsKeep, OtherStepsKeepNs DEF Next, QuietSteps

LEMMA NsStutters == NsInv /\ UNCHANGED vars => NsInv'
  BY DEF NsInv, vars, where

(***************************************************************************)
(* No step of jai or of the jail's processes changes a mount outside once  *)
(* there is a new namespace, wherever an exception is thrown.              *)
(***************************************************************************)
THEOREM OutsideIsLeftAlone == Spec => OldNamespaceKept
<1>1. NsInv /\ [Next]_vars => NsInv'
  BY NsNextInv, NsStutters
<1>2. NsInv /\ [Next]_vars => [ns.new # << >> => ns'.old = ns.old]_vars
  BY NsNextInv DEF OldKept
<1> QED
  BY <1>1, <1>2, NsInitInv, PTL DEF Spec, OldNamespaceKept

-----------------------------------------------------------------------------
(* Paths and sequences of mounts *)

LEMMA LargestExists ==
  ASSUME NEW n \in Nat, NEW S \in SUBSET (1 .. n), S # {}
  PROVE  Max(S) \in S /\ \A y \in S : Max(S) >= y
<1> DEFINE T == {n - x : x \in S}
<1>1. T \in SUBSET Nat /\ T # {}
  <2>1. \A x \in S : n - x \in Nat
    OBVIOUS
  <2>2. T \subseteq Nat
    BY <2>1
  <2>3. PICK x \in S : TRUE
    OBVIOUS
  <2>4. n - x \in T
    BY <2>3
  <2> HIDE DEF T
  <2> QED
    BY <2>2, <2>4
<1>2. PICK t \in T : \A u \in T : ~ (<<u, t>> \in OpToRel(<, Nat))
  BY <1>1, NatLessThanWellFounded, WFMin
<1>3. PICK x \in S : t = n - x
  OBVIOUS
<1>4. ASSUME NEW y \in S PROVE x >= y
  <2>1. n - y \in T /\ ~ (n - y < n - x)
    BY <1>1, <1>2, <1>3 DEF OpToRel
  <2> QED
    BY <2>1
<1> QED
  BY <1>4 DEF Max

LEMMA FixedPaths ==
  /\ <<"proc">> \in Paths /\ <<"tmp">> \in Paths /\ <<"var", "tmp">> \in Paths
  /\ <<"etc", "passwd">> \in Paths /\ kRunRoot \in Paths /\ RunHome \in Paths /\ xdgrun \in Paths
  /\ << >> \in Paths
<1>0. /\ "proc" \in Name /\ "tmp" \in Name /\ "var" \in Name /\ "etc" \in Name
      /\ "passwd" \in Name /\ "run" \in Name /\ "jai" \in Name /\ "u" \in Name
      /\ "user" \in Name /\ "default.home" \in Name
  BY NameAssumption
<1> USE <1>0 DEF Paths
<1>1. <<"proc">> \in Paths /\ <<"tmp">> \in Paths
  OBVIOUS
<1>2. <<"var", "tmp">> \in Paths /\ <<"etc", "passwd">> \in Paths /\ <<"run", "jai">> \in Paths
  OBVIOUS
<1>3. <<"run", "user", "u">> \in Paths
  OBVIOUS
<1>4. <<"run", "jai", "u", "default.home">> \in Paths
  OBVIOUS
<1>5. << >> \in Paths
  OBVIOUS
<1> HIDE <1>0 DEF Paths
<1> QED
  BY <1>1, <1>2, <1>3, <1>4, <1>5 DEF kRunRoot, RunHome, xdgrun

LEMMA PathFacts ==
  ASSUME NEW p \in Paths
  PROVE  /\ contains(<< >>, p) /\ contains(p, p)
         /\ ~contains(Nowhere, p)
         /\ p # << >> => ~contains(p, << >>)
         /\ Rest(p, p) = << >>
<1>1. Len(p) \in Nat /\ Len(<< >>) = 0 /\ p \in Seq(Name)
  BY DEF Paths
<1>2. contains(<< >>, p) /\ contains(p, p)
  BY <1>1 DEF contains, IsPrefix
<1>3. ~contains(Nowhere, p)
  <2> SUFFICES ASSUME contains(Nowhere, p)
               PROVE  FALSE
    OBVIOUS
  <2>1. Len(p) >= 1 /\ SubSeq(<<"">>, 1, 1) = SubSeq(p, 1, 1)
    BY DEF contains, IsPrefix, Nowhere
  <2>2. SubSeq(<<"">>, 1, 1)[1] = ""
    OBVIOUS
  <2>3. Len(p) >= 1 /\ p \in Seq(Name)
    BY <1>1, <2>1
  <2> HIDE DEF contains
  <2>5. p[1] \in Name
    BY <2>3
  <2>6. SubSeq(p, 1, 1)[1] = p[1]
    BY <2>3
  <2>4. "" \notin Name
    BY NameAssumption
  <2> QED
    BY <2>1, <2>2, <2>4, <2>5, <2>6
<1>4. p # << >> => ~contains(p, << >>)
  BY <1>1 DEF contains, IsPrefix
<1>5. Rest(p, p) = << >>
  BY <1>1 DEF Rest
<1> HIDE DEF contains, Nowhere, Rest
<1> QED
  BY <1>2, <1>3, <1>4, <1>5

LEMMA MountOfMax ==
  ASSUME NEW s \in Seq(Attached), NEW p, NEW k \in 1 .. Len(s), contains(s[k].at, p)
  PROVE  /\ MountOf(s, p) \in 1 .. Len(s)
         /\ contains(s[MountOf(s, p)].at, p)
         /\ \A i \in 1 .. Len(s) : contains(s[i].at, p) => i <= MountOf(s, p)
<1> DEFINE I == {i \in 1 .. Len(s) : contains(s[i].at, p)}
<1>1. Len(s) \in Nat /\ I \in SUBSET (1 .. Len(s)) /\ I # {}
  OBVIOUS
<1>2. Max(I) \in I /\ \A y \in I : Max(I) >= y
  BY <1>1, LargestExists
<1>3. MountOf(s, p) = Max(I)
  BY <1>1 DEF MountOf, SelectLastInSeq
<1> QED
  BY <1>2, <1>3

LEMMA MountOfIs ==
  ASSUME NEW s \in Seq(Attached), NEW p, NEW n \in 1 .. Len(s), contains(s[n].at, p),
         \A i \in 1 .. Len(s) : i > n => ~contains(s[i].at, p)
  PROVE  MountOf(s, p) = n
  BY MountOfMax

LEMMA RestOK == ASSUME NEW p \in Paths, NEW q \in Paths PROVE Rest(p, q) \in Paths
<1>1. p \in Seq(Name) /\ Len(p) \in Nat /\ Len(q) \in Nat
  BY DEF Paths
<1>2. \A i \in Len(q) + 1 .. Len(p) : p[i] \in Name
  BY <1>1
<1> QED
  BY <1>1, <1>2, SubSeqProperties DEF Rest, Paths

\* The mount that shows a path is one that is still attached.
LEMMA Shown ==
  ASSUME NEW s, MountsOK(s), NEW p \in Paths
  PROVE  /\ MountOf(s, p) \in 1 .. Len(s)
         /\ contains(s[MountOf(s, p)].at, p)
         /\ \A i \in 1 .. Len(s) : contains(s[i].at, p) => i <= MountOf(s, p)
         /\ s[MountOf(s, p)] \in Attached /\ s[MountOf(s, p)].at \in Paths
<1> DEFINE n == MountOf(s, p)
<1>1. s \in Seq(Attached) /\ 1 \in 1 .. Len(s) /\ s[1].at = << >>
  BY DEF MountsOK
<1>2. contains(s[1].at, p)
  BY <1>1, PathFacts
<1>3. /\ n \in 1 .. Len(s) /\ contains(s[n].at, p)
      /\ \A i \in 1 .. Len(s) : contains(s[i].at, p) => i <= n
  BY <1>1, <1>2, MountOfMax
<1>4. s[n] \in Attached
  BY <1>1, <1>3
<1>5. s[n].at # Nowhere
  BY <1>3, PathFacts
<1>6. s[n].at \in Paths
  BY <1>4, <1>5 DEF Attached, Mounts
<1> QED
  BY <1>3, <1>4, <1>6

LEMMA Resolved ==
  ASSUME NEW s, MountsOK(s), NEW p \in Paths
  PROVE  Resolve(s, p).fs \in FileSystem /\ Resolve(s, p).path \in Paths
<1> DEFINE m == s[MountOf(s, p)]
<1>1. m \in Attached /\ m.at \in Paths
  BY Shown
<1>2. m.fs \in FileSystem /\ m.root \in Paths
  BY <1>1 DEF Attached, Mounts
<1>3. Rest(p, m.at) \in Paths
  BY <1>1, RestOK
<1>4. m.root \o Rest(p, m.at) \in Paths
  BY <1>2, <1>3, ConcatProperties DEF Paths
<1> QED
  BY <1>2, <1>4 DEF Resolve

LEMMA AppendOK ==
  ASSUME NEW s, MountsOK(s), NEW p \in Paths, NEW m, m.fs \in FileSystem, m.root \in Paths,
         m.attr \in SUBSET Flags
  PROVE  /\ MountsOK(Append(s, At(p, m)))
         /\ Len(s) \in Nat /\ DOMAIN s = 1 .. Len(s)
         /\ DOMAIN Append(s, At(p, m)) = 1 .. Len(s) + 1 /\ Len(Append(s, At(p, m))) = Len(s) + 1
         /\ Append(s, At(p, m))[Len(s) + 1] = At(p, m)
         /\ \A i \in 1 .. Len(s) : Append(s, At(p, m))[i] = s[i]
<1>1. At(p, m) \in Attached
  BY DEF At, Attached, Mounts
<1> HIDE DEF At
<1>2. s \in Seq(Attached) /\ Len(s) \in Nat /\ s # << >>
  BY DEF MountsOK
<1>3. Append(s, At(p, m)) \in Seq(Attached) /\ Len(s) >= 1
  BY <1>1, <1>2, AppendProperties
<1>4. /\ DOMAIN s = 1 .. Len(s)
      /\ DOMAIN Append(s, At(p, m)) = 1 .. Len(s) + 1 /\ Len(Append(s, At(p, m))) = Len(s) + 1
      /\ Append(s, At(p, m))[Len(s) + 1] = At(p, m)
      /\ \A i \in 1 .. Len(s) : Append(s, At(p, m))[i] = s[i]
  BY <1>1, <1>2, AppendProperties
<1>5. Append(s, At(p, m)) # << >>
  BY <1>3, <1>4
<1> QED
  BY <1>2, <1>3, <1>4, <1>5 DEF MountsOK

LEMMA TakeOffOK ==
  ASSUME NEW s, MountsOK(s), NEW p \in Paths, p # << >>, NEW first
  PROVE  /\ MountsOK(TakeOff(s, p, first))
         /\ DOMAIN TakeOff(s, p, first) = DOMAIN s
         /\ \A i \in DOMAIN s :
              \/ TakeOff(s, p, first)[i] = s[i]
              \/ /\ contains(p, s[i].at)
                 /\ TakeOff(s, p, first)[i] = [s[i] EXCEPT !.at = Nowhere]
<1> DEFINE t == TakeOff(s, p, first)
<1>1. s \in Seq(Attached) /\ Len(s) \in Nat /\ s # << >> /\ DOMAIN s = 1 .. Len(s) /\ Len(s) >= 1
  BY DEF MountsOK
<1>2. \A i \in DOMAIN s : \/ t[i] = s[i]
                          \/ contains(p, s[i].at) /\ t[i] = [s[i] EXCEPT !.at = Nowhere]
  BY DEF TakeOff
<1>3. \A i \in DOMAIN s : t[i] \in Attached
  <2> HIDE DEF t
  <2>1. ASSUME NEW i \in DOMAIN s
        PROVE  t[i] \in Attached
    <3>1. s[i] \in Attached
      BY <1>1
    <3>2. [s[i] EXCEPT !.at = Nowhere] \in Attached
      BY <3>1 DEF Attached, Mounts
    <3> QED
      BY <1>2, <3>1, <3>2
  <2> QED
    BY <2>1
<1>4. DOMAIN t = 1 .. Len(s)
  BY <1>1 DEF TakeOff
<1>5. t \in Seq(Attached) /\ Len(t) = Len(s)
  BY <1>1, <1>3, <1>4 DEF TakeOff
<1>6. t # << >>
  BY <1>1, <1>5
<1>7. t[1].at = << >>
  <2> HIDE DEF t
  <2>1. 1 \in DOMAIN s /\ s[1].at = << >>
    BY <1>1 DEF MountsOK
  <2>2. ~contains(p, << >>)
    BY PathFacts
  <2> QED
    BY <1>2, <2>1, <2>2
<1> HIDE DEF t
<1> QED
  BY <1>1, <1>2, <1>4, <1>5, <1>6, <1>7 DEF t, MountsOK


-----------------------------------------------------------------------------
(* What is granted, and where it ends up: steps that change no mount *)

\* A step that goes on in the code and leaves alone what JailInv is about.
Onward ==
  \/ pc' \in Ending
  \/ /\ pc' \in Collecting => pc \in Collecting
     /\ pc' \in Collecting \ {"tmp"} => pc \in Collecting \ {"tmp"}
     /\ pc' \in {"unshare", "private"} \cup Placing => pc \in {"unshare", "private"} \cup Placing
     /\ pc' \in Placing \cup {"cwd"} \cup (Late \ ProcFixed) =>
          pc \in Placing \cup {"cwd"} \cup (Late \ ProcFixed)
     /\ pc' # "place_vartmp"
     /\ pc' \in Late =>
          /\ pc \in Late
          /\ pc \in Body <=> pc' \in Body
          /\ pc \in ProcFixed <=> pc' \in ProcFixed
          /\ pc' \in Opened => pc \in Opened
          /\ pc' \in Cloned => pc \in Cloned
          /\ pc' \in AfterGrants => pc \in AfterGrants
          /\ pc' \in Blocking => pc \in Blocking \/ block # << >>
          /\ pc' \in {"reset_src", "clone_src"} => pc \in {"reset_src", "clone_src"}
     /\ pc' \in Early \/ pc \notin Early \cup Ending
Calm ==
  /\ UNCHANGED << conf, user_cred_, untrusted_cred_, ns, tree, todo, d, block >>
  /\ UNCHANGED dirs
  /\ Onward

\* The places where it matters who or where the process is.
Elsewhere == pc' \notin {"changes", "sandbox_home", "lower_src", "open_src", "make_dst"}

CalmSteps ==
  \/ NoPasswd \/ ReuseOverlay \/ RefuseHome \/ ToNew \/ Compare \/ MakeIdMapNs
  \/ OpenTarget \/ CheckTarget \/ OpenBlocked \/ ReadPasswd \/ ReopenOverlay
  \/ LowerForTarget \/ LowerForBlock \/ MainAsUser \/ ResetPasswd \/ MakeWork
  \/ ResetSource \/ ResetBeforeMake \/ ResetTarget \/ ResetBlocked \/ MainReset
  \/ ReturnOverlay \/ ReturnSandboxHome \/ SkipBlocked \/ MakeReal \/ Chdir \/ Throw
  \/ ExitNow \/ Unwind \/ Caught \/ ReturnNs \/ ChildSetNs \/ UnwindNs

LEMMA CalmStepsAre == CalmSteps => Calm /\ Elsewhere
<1> SUFFICES ASSUME CalmSteps PROVE Calm /\ Elsewhere
  OBVIOUS
<1> USE DEF Step, Goto, Same, where, files, loops, idVars, Calm, Onward, Elsewhere, Early, Ending,
            Collecting, Placing, Late, Body, Opened, Cloned, AfterGrants, ProcFixed, Blocking
<1>1. CASE NoPasswd
  BY <1>1 DEF NoPasswd
<1>2. CASE ReuseOverlay
  BY <1>2 DEF ReuseOverlay
<1>3. CASE RefuseHome
  BY <1>3 DEF RefuseHome
<1>4. CASE ToNew
  BY <1>4 DEF ToNew, SetNs
<1>5. CASE Compare
  BY <1>5 DEF Compare
<1>6. CASE MakeIdMapNs
  BY <1>6 DEF MakeIdMapNs, IdNext, ForkIdmap, WriteGidMap, WriteUidMap, IdFail
<1>7. CASE OpenTarget
  BY <1>7 DEF OpenTarget
<1>8. CASE CheckTarget
  BY <1>8 DEF CheckTarget
<1>9. CASE OpenBlocked
  BY <1>9 DEF OpenBlocked
<1>10. CASE ReadPasswd
  BY <1>10 DEF ReadPasswd, Lower
<1>11. CASE ReopenOverlay
  BY <1>11 DEF ReopenOverlay, Lower
<1>12. CASE LowerForTarget
  BY <1>12 DEF LowerForTarget, Lower
<1>13. CASE LowerForBlock
  BY <1>13 DEF LowerForBlock, Lower
<1>14. CASE MainAsUser
  BY <1>14 DEF MainAsUser, Lower
<1>15. CASE ResetPasswd
  BY <1>15 DEF ResetPasswd, Reset
<1>16. CASE MakeWork
  BY <1>16 DEF MakeWork, Reset
<1>17. CASE ResetSource
  BY <1>17 DEF ResetSource, Reset
<1>18. CASE ResetBeforeMake
  BY <1>18 DEF ResetBeforeMake, Reset
<1>19. CASE ResetTarget
  BY <1>19 DEF ResetTarget, Reset
<1>20. CASE ResetBlocked
  BY <1>20 DEF ResetBlocked, Reset
<1>21. CASE MainReset
  BY <1>21 DEF MainReset, Reset
<1>22. CASE ReturnOverlay
  BY <1>22 DEF ReturnOverlay, Leave
<1>23. CASE ReturnSandboxHome
  BY <1>23 DEF ReturnSandboxHome, Leave
<1>24. CASE SkipBlocked
  BY <1>24 DEF SkipBlocked, Leave
<1>25. CASE MakeReal
  BY <1>25 DEF MakeReal
<1>26. CASE Chdir
  BY <1>26 DEF Chdir
<1>27. CASE Throw
  BY <1>27 DEF Throw
<1>28. CASE ExitNow
  BY <1>28 DEF ExitNow
<1>29. CASE Unwind
  BY <1>29 DEF Unwind
<1>30. CASE Caught
  BY <1>30 DEF Caught
<1>31. CASE ReturnNs
  BY <1>31 DEF ReturnNs, SetNs
<1>32. CASE ChildSetNs
  BY <1>32 DEF ChildSetNs, SetNs
<1>33. CASE UnwindNs
  BY <1>33 DEF UnwindNs, SetNs
<1> HIDE DEF Step, Goto, Same, where, files, loops, idVars, Calm, Onward, Elsewhere, Early, Ending,
            Collecting, Placing, Late, Body, Opened, Cloned, AfterGrants, ProcFixed, Blocking
<1> QED
  BY <1>1, <1>2, <1>3, <1>4, <1>5, <1>6, <1>7, <1>8, <1>9, <1>10, <1>11, <1>12, <1>13,
     <1>14, <1>15, <1>16, <1>17, <1>18, <1>19, <1>20, <1>21, <1>22, <1>23, <1>24, <1>25,
     <1>26, <1>27, <1>28, <1>29, <1>30, <1>31, <1>32, <1>33
     DEF CalmSteps

\* All but ActsAs, which is about single places.
Grown == JailTypeOK /\ TreesConfined /\ GrantsInTime /\ MadeForTheUser

LEMMA Ends ==
  ASSUME NEW l \in Ending
  PROVE  /\ l \notin Collecting /\ l \notin Late /\ l \notin Body /\ l \notin Opened /\ l \notin Cloned
         /\ l \notin AfterGrants /\ l \notin ProcFixed /\ l \notin Blocking /\ l \notin Placing
         /\ l \notin {"unshare", "private", "cwd", "place_vartmp", "reset_src", "clone_src"}
  BY DEF Ending, Early, Collecting, Placing, Late, Body, Opened, Cloned, AfterGrants, ProcFixed,
         Blocking

LEMMA Within ==
  /\ Body \subseteq Late /\ Opened \subseteq Body /\ Cloned \subseteq Opened
  /\ AfterGrants \subseteq Late /\ Blocking \subseteq AfterGrants /\ ProcFixed \subseteq AfterGrants
  /\ {"reset_src", "clone_src"} \subseteq Opened /\ Late \cap Collecting = {}
  BY DEF Early, Collecting, Placing, Late, Body, Opened, Cloned, AfterGrants, ProcFixed, Blocking

LEMMA CalmKeeps == ASSUME Grown, Calm PROVE Grown'
<1> USE DEF Grown, Calm
<1>1. JailTypeOK'
  BY DEF JailTypeOK, Onward, Early, Ending, Blocking, Late, AfterGrants
<1>2. /\ attr' = attr /\ SandboxHome' = SandboxHome /\ Granted' = Granted
      /\ NoneElse' = NoneElse /\ MountsConfined' = MountsConfined
      /\ \A m : OwnMount(m)' = OwnMount(m)
  BY DEF attr, SandboxHome, Granted, NoneElse, MountsConfined, OwnMount, Confined, ForTheUser
<1>3. TreesConfined'
  <2>1. \A t \in {"tmp", "passwd", "rundir", "home"} : OwnMount(tree[t])'
    BY <1>2 DEF TreesConfined
  <2>2. CASE pc' \in Ending
    BY <2>1, <2>2, <1>2, Ends DEF TreesConfined
  <2>3. CASE pc' \notin Ending
    <3>1. pc' \in {"unshare", "private"} \cup Placing =>
            \A t \in {"tmp", "passwd", "rundir", "home"} : tree[t]' = NoMount \/ attr' \subseteq tree'[t].attr
      BY <1>2, <2>3 DEF TreesConfined, Onward
    <3>2. pc' \in Collecting \ {"tmp"} => tree'.tmp.fs = "tmp"
      BY <2>3 DEF TreesConfined, Onward
    <3>3. pc' # "place_vartmp"
      BY <2>3 DEF Onward
    <3>4. pc' \in Cloned => tree'.src.attr = attr'
      BY <1>2, <2>3, Within DEF TreesConfined, Onward
    <3>5. pc' \in Placing \cup {"cwd"} \cup (Late \ ProcFixed) => NoneElse'
      BY <1>2, <2>3 DEF TreesConfined, Onward
    <3>6. pc' \in ProcFixed => MountsConfined'
      BY <1>2, <2>3, Within DEF TreesConfined, Onward
    <3> QED
      BY <1>2, <2>1, <3>1, <3>2, <3>3, <3>4, <3>5, <3>6 DEF TreesConfined
  <2> QED
    BY <2>2, <2>3
<1>4. \A g : Allowed(g)' = Allowed(g) /\ TheUsersOwn(g)' = TheUsersOwn(g) /\ InPlace(g)' = InPlace(g)
  BY DEF Allowed, TheUsersOwn, InPlace, CanFind, OwnedBy, Open, Exists, Entry, Is
<1>5. GrantsInTime'
  <2>1. CASE pc' \in Ending
    BY <2>1, Ends DEF GrantsInTime
  <2>2. CASE pc' \notin Ending
    <3>1. /\ pc' \in Collecting => pc \in Collecting
          /\ pc' \in Late =>
               /\ pc \in Late /\ Ahead' = Ahead
               /\ (pc \in Body <=> pc' \in Body) /\ (pc \in ProcFixed <=> pc' \in ProcFixed)
               /\ pc' \in Opened => pc \in Opened
               /\ pc' \in AfterGrants => pc \in AfterGrants
               /\ pc' \in {"reset_src", "clone_src"} => pc \in {"reset_src", "clone_src"}
      BY <2>2 DEF Onward, Ahead
    <3> HIDE DEF Calm
    <3>2. UNCHANGED << conf, ns, tree, todo, d >>
      BY DEF Calm
    <3>3. /\ pc' \in Collecting => todo' = conf'.grant_directories_
          /\ pc' \in Late => Ahead' \subseteq Granted'
          /\ pc' \in AfterGrants => todo' = {}
      BY <1>2, <3>1, <3>2, Within DEF GrantsInTime
    <3>4. pc' \in Body => Allowed(d)' /\ NoneAbove(todo, d)'
      BY <1>4, <3>1, <3>2, Within DEF GrantsInTime, NoneAbove, Allowed
    <3>5. pc' \in Opened =>
            /\ [fs |-> tree'.src.fs, path |-> tree'.src.root] = Resolve(ns.old, d)'
            /\ TheUsersOwn(d)'
      BY <1>4, <3>1, <3>2, Within DEF GrantsInTime, TheUsersOwn
    <3>6. pc' \in {"reset_src", "clone_src"} => tree'.src.attr = {}
      BY <3>1, <3>2, Within DEF GrantsInTime
    <3>7. ASSUME pc' \in Late, NEW g \in Granted' \ Ahead'
          PROVE  /\ Allowed(g)' /\ TheUsersOwn(g)' /\ NoneAbove(Ahead, g)'
                 /\ InPlace(g)' \/ (pc' \in ProcFixed /\ contains(<<"proc">>, g))
      BY <1>2, <1>4, <3>1, <3>7 DEF GrantsInTime, NoneAbove
    <3> QED
      BY <3>3, <3>4, <3>5, <3>6, <3>7 DEF GrantsInTime
  <2> QED
    BY <2>1, <2>2
<1>6. MadeForTheUser'
  BY DEF MadeForTheUser, OverlayOf
<1> QED
  BY <1>1, <1>3, <1>5, <1>6

\* Before there is a jail.
LEMMA Soon ==
  ASSUME NEW l \in Early
  PROVE  /\ l \notin Late /\ l \notin Body /\ l \notin Opened /\ l \notin Cloned /\ l \notin Ending
         /\ l \notin AfterGrants /\ l \notin ProcFixed /\ l \notin Blocking /\ l \notin Placing
         /\ l \notin {"private", "cwd", "place_vartmp", "reset_src", "clone_src"}
  BY DEF Ending, Early, Placing, Late, Body, Opened, Cloned, AfterGrants, ProcFixed, Blocking

Trees == [{"tmp", "passwd", "rundir", "home", "src"} ->
           [fs : FileSystem, root : Paths, attr : SUBSET Flags]]
Kinds == {"tmp", "passwd", "rundir", "home"}

LEMMA EarlyKeeps ==
  ASSUME Grown, UNCHANGED << conf, d, block >>, pc' \in Early, MountsOK(ns'.old),
         todo' \subseteq Paths, pc' \in Collecting => todo' = conf.grant_directories_,
         tree' \in Trees, \A t \in Kinds : OwnMount(tree'[t]),
         pc' = "unshare" => \A t \in Kinds : tree'[t] = NoMount \/ attr \subseteq tree'[t].attr,
         pc' \in Collecting \ {"tmp"} => tree'.tmp.fs = "tmp",
         MadeForTheUser'
  PROVE  Grown'
<1>1. JailTypeOK'
  BY Soon DEF Grown, JailTypeOK, Trees
<1>2. attr' = attr /\ SandboxHome' = SandboxHome
  BY DEF attr, SandboxHome
<1>3. \A t \in Kinds : OwnMount(tree[t])'
  BY <1>2 DEF OwnMount
<1>4. TreesConfined'
  BY <1>2, <1>3, Soon DEF TreesConfined, Kinds
<1>5. GrantsInTime'
  BY Soon DEF GrantsInTime
<1> QED
  BY <1>1, <1>4, <1>5 DEF Grown

LEMMA MadeStays == ASSUME MadeForTheUser, UNCHANGED << conf, dirs >> PROVE MadeForTheUser'
  BY DEF MadeForTheUser, OverlayOf

\* A mount that make_mnt_ns makes.
LEMMA HoldOK ==
  ASSUME Grown, NEW t \in Kinds, NEW m \in [fs : FileSystem, root : Paths, attr : SUBSET Flags],
         OwnMount(m), t = "tmp" => m.fs = "tmp", Hold(t, m)
  PROVE  /\ tree' \in Trees /\ \A u \in Kinds : OwnMount(tree'[u])
         /\ tree'.tmp.fs = "tmp" \/ (tree'.tmp = tree.tmp /\ t # "tmp")
  BY DEF Grown, JailTypeOK, TreesConfined, Hold, Trees, Kinds

LEMMA MountOK ==
  /\ \A fs \in {"tmp", "passwd", "rundir", "overlay"} :
       /\ Mount(fs, << >>) \in [fs : FileSystem, root : Paths, attr : SUBSET Flags]
       /\ OwnMount(Mount(fs, << >>)) /\ Mount(fs, << >>).fs = fs
  /\ conf \in Worlds => Mount("host", SandboxHome) \in [fs : FileSystem, root : Paths, attr : SUBSET Flags]
  /\ OwnMount(Mount("host", SandboxHome))
<1>1. {"tmp", "passwd", "rundir", "overlay", "host"} \subseteq FileSystem /\ "default.home" \in Name
  BY NameAssumption
<1>2. << >> \in Paths
  BY FixedPaths
<1>3. conf \in Worlds => SandboxHome \in Paths
  <2>1. <<"default.home">> \in Seq(Name)
    BY <1>1
  <2>2. conf \in Worlds => conf.storagedir_ \in Seq(Name)
    BY WorldsAssumption DEF Paths
  <2> QED
    BY <2>1, <2>2, ConcatProperties DEF SandboxHome, Paths
<1> QED
  BY <1>1, <1>2, <1>3 DEF Mount, OwnMount

LEMMA MountingSteps ==
  ASSUME Grown, MakePrivateTmp \/ ClonePasswd \/ MakePrivateRun \/ CloneHome
  PROVE  Grown'
<1> USE DEF Step, Goto, loops, where, idVars, Early, Collecting, Kinds
<1>1. MountsOK(ns.old) /\ todo \subseteq Paths /\ conf \in Worlds /\ MadeForTheUser
      /\ tree \in Trees /\ \A t \in Kinds : OwnMount(tree[t])
  BY DEF Grown, JailTypeOK, TreesConfined, Trees
<1>2. pc \in Collecting => todo = conf.grant_directories_
  BY DEF Grown, GrantsInTime
<1>3. pc \in Collecting \ {"tmp"} => tree.tmp.fs = "tmp"
  BY DEF Grown, TreesConfined
<1>4. CASE MakePrivateTmp
  BY <1>1, <1>2, <1>4, EarlyKeeps, MadeStays, HoldOK, MountOK DEF MakePrivateTmp
<1>5. CASE ClonePasswd
  BY <1>1, <1>2, <1>3, <1>5, EarlyKeeps, MadeStays, HoldOK, MountOK DEF ClonePasswd
<1>6. CASE MakePrivateRun
  BY <1>1, <1>2, <1>3, <1>6, EarlyKeeps, MadeStays, HoldOK, MountOK DEF MakePrivateRun
<1>7. CASE CloneHome
  BY <1>1, <1>2, <1>3, <1>7, EarlyKeeps, MadeStays, HoldOK, MountOK DEF CloneHome, HomeMount
<1> QED
  BY <1>4, <1>5, <1>6, <1>7

LEMMA AttributesSet == ASSUME Grown, SetAttr PROVE Grown'
<1> USE DEF Step, Goto, loops, where, idVars, Early, Collecting, Kinds
<1>1. MountsOK(ns.old) /\ todo \subseteq Paths /\ conf \in Worlds /\ MadeForTheUser
      /\ tree \in Trees /\ \A t \in Kinds : OwnMount(tree[t])
  BY DEF Grown, JailTypeOK, TreesConfined, Trees
<1>2. todo = conf.grant_directories_ /\ tree.tmp.fs = "tmp"
  BY DEF SetAttr, Grown, GrantsInTime, TreesConfined
<1>3. attr \in SUBSET Flags
  BY DEF attr, Flags
<1>4. ASSUME NEW m \in [fs : FileSystem, root : Paths, attr : SUBSET Flags]
      PROVE  /\ AddAttr(m, attr) \in [fs : FileSystem, root : Paths, attr : SUBSET Flags]
             /\ AddAttr(m, attr).fs = m.fs /\ (OwnMount(m) => OwnMount(AddAttr(m, attr)))
             /\ attr \subseteq AddAttr(m, attr).attr
  BY <1>3 DEF AddAttr, OwnMount
<1>5. \A t \in DOMAIN tree : tree[t] \in [fs : FileSystem, root : Paths, attr : SUBSET Flags]
  BY <1>1 DEF Trees
<1>6. tree' = [t \in DOMAIN tree |-> IF tree[t] = NoMount THEN NoMount ELSE AddAttr(tree[t], attr)]
  BY DEF SetAttr
<1>7. tree' \in Trees
  BY <1>1, <1>4, <1>5, <1>6 DEF Trees
<1>8. \A t \in Kinds : /\ OwnMount(tree'[t])
                       /\ tree'[t] = NoMount \/ attr \subseteq tree'[t].attr
  BY <1>1, <1>4, <1>5, <1>6 DEF Trees
<1>9. tree'.tmp.fs = "tmp"
  BY <1>1, <1>2, <1>4, <1>5, <1>6 DEF Trees
<1>10. UNCHANGED << conf, d, block, todo, dirs, ns >> /\ pc' = "unshare"
  BY DEF SetAttr
<1> QED
  BY <1>1, <1>2, <1>7, <1>8, <1>9, <1>10, EarlyKeeps, MadeStays

LEMMA OldNsOpened == ASSUME Grown, OpenOldNs PROVE Grown'
<1> USE DEF files, where, idVars, Kinds
<1>1. MountsOK(ns.old) /\ todo \subseteq Paths /\ conf \in Worlds /\ MadeForTheUser
      /\ tree \in Trees /\ \A t \in Kinds : OwnMount(tree[t])
  BY DEF Grown, JailTypeOK, TreesConfined, Trees
<1>2. todo' = conf.grant_directories_ /\ conf.grant_directories_ \subseteq Paths
  BY <1>1, WorldsAssumption DEF OpenOldNs
<1>3. UNCHANGED << conf, ns, dirs, tree, d, block >> /\ pc' \in {"unwind", "tmp"}
  BY DEF OpenOldNs
<1>4. MadeForTheUser'
  BY <1>1, <1>3, MadeStays
<1>5. CASE pc' = "tmp"
  BY <1>1, <1>2, <1>3, <1>4, <1>5, EarlyKeeps DEF Early
<1>6. CASE pc' = "unwind"
  <2>1. pc' \in Ending /\ pc' \notin {"place_vartmp", "unshare", "private"}
    BY <1>6 DEF Ending
  <2>2. JailTypeOK'
    BY <1>1, <1>2, <1>3, <2>1, Ends DEF Grown, JailTypeOK
  <2>3. \A t \in Kinds : OwnMount(tree[t])'
    BY <1>1, <1>3 DEF OwnMount, SandboxHome
  <2>4. TreesConfined'
    BY <2>1, <2>3, Ends DEF TreesConfined
  <2>5. GrantsInTime'
    BY <2>1, Ends DEF GrantsInTime
  <2> QED
    BY <1>4, <2>2, <2>4, <2>5 DEF Grown
<1> QED
  BY <1>3, <1>5, <1>6

\* The directories that are made before there is a jail.
LEMMA MakingSteps ==
  ASSUME Grown, ActsAs, NsInv, MakeBlacklist \/ MakeSandboxHome \/ MountOverlay
  PROVE  Grown'
<1> USE DEF Step, Goto, loops, where, idVars, Early, Collecting, Kinds
<1>1. MountsOK(ns.old) /\ todo \subseteq Paths /\ conf \in Worlds /\ MadeForTheUser
      /\ tree \in Trees /\ \A t \in Kinds : OwnMount(tree[t])
  BY DEF Grown, JailTypeOK, TreesConfined, Trees
<1>2. pc \in Collecting => todo = conf.grant_directories_
  BY DEF Grown, GrantsInTime
<1>3. pc \in Collecting \ {"tmp"} => tree.tmp.fs = "tmp"
  BY DEF Grown, TreesConfined
<1>4. ASSUME NEW more, UNCHANGED conf, dirs' \subseteq dirs \cup more,
             \A x \in more : x.mode = "whiteout" \/ x.owner = "user" \/ x \in OverlayOf(conf.dirs)
      PROVE  MadeForTheUser'
  <2>1. OverlayOf(conf.dirs)' = OverlayOf(conf.dirs)
    BY <1>4 DEF OverlayOf
  <2> QED
    BY <1>1, <1>4, <2>1 DEF MadeForTheUser
<1>5. CASE MakeBlacklist
  <2>1. euid = user_cred_.uid
    BY <1>5 DEF MakeBlacklist, ActsAs
  <2>2. PICK hidden \in SUBSET conf.mask_files_ :
          dirs' = dirs \cup {Made("host", Changes, "private")} \cup {Whiteout(p) : p \in hidden}
    BY <1>5 DEF MakeBlacklist
  <2>3. MadeForTheUser'
    <3> DEFINE more == {Made("host", Changes, "private")} \cup {Whiteout(p) : p \in hidden}
    <3>1. \A x \in more : x.mode = "whiteout" \/ x.owner = "user"
      BY <2>1 DEF Made, Whiteout
    <3>2. dirs' \subseteq dirs \cup more /\ UNCHANGED conf
      BY <1>5, <2>2 DEF MakeBlacklist
    <3> HIDE DEF more
    <3> QED
      BY <1>4, <3>1, <3>2
  <2> QED
    BY <1>1, <1>2, <1>3, <1>5, <2>3, EarlyKeeps DEF MakeBlacklist
<1>6. CASE MakeSandboxHome
  <2>1. euid = user_cred_.uid
    BY <1>6 DEF MakeSandboxHome, ActsAs
  <2>2. dirs' \subseteq dirs \cup {Made("host", SandboxHome, "private")} /\ UNCHANGED conf
    BY <1>6 DEF MakeSandboxHome
  <2>3. Made("host", SandboxHome, "private").owner = "user"
    BY <2>1 DEF Made
  <2>4. MadeForTheUser'
    BY <1>4, <2>2, <2>3
  <2> QED
    BY <1>1, <1>2, <1>3, <1>6, <2>4, EarlyKeeps DEF MakeSandboxHome
<1>7. CASE MountOverlay
  <2>1. dirs' = dirs \cup OverlayOf({x \in dirs : ~Hidden(x)}) /\ UNCHANGED conf
    BY <1>7 DEF MountOverlay
  <2>2. ASSUME NEW y \in OverlayOf({x \in dirs : ~Hidden(x)})
        PROVE  y.mode = "whiteout" \/ y.owner = "user" \/ y \in OverlayOf(conf.dirs)
    <3>1. PICK x \in dirs :
            /\ Under(x, "host", conf.homepath_)
            /\ y = [fs |-> "overlay", path |-> Rest(x.path, conf.homepath_), owner |-> x.owner,
                    mode |-> x.mode]
      BY <2>2 DEF OverlayOf
    <3>2. CASE x \in conf.dirs
      BY <3>1, <3>2 DEF OverlayOf
    <3>3. x \notin OverlayOf(conf.dirs)
      <4>1. x.fs = "host"
        BY <3>1 DEF Under
      <4>2. \A z \in OverlayOf(conf.dirs) : z.fs = "overlay"
        BY DEF OverlayOf
      <4> QED
        BY <4>1, <4>2
    <3> QED
      BY <1>1, <3>1, <3>2, <3>3 DEF MadeForTheUser
  <2>3. MadeForTheUser'
    BY <1>4, <2>1, <2>2
  <2>4. ns'.old = Append(ns.old, At(RunHome, Mount("overlay", << >>)))
    BY <1>7 DEF MountOverlay, NsInv, Change, Ending
  <2>5. MountsOK(ns'.old)
    BY <1>1, <2>4, AppendOK, MountOK, FixedPaths
  <2> QED
    BY <1>1, <1>2, <1>3, <1>7, <2>3, <2>5, EarlyKeeps DEF MountOverlay
<1> QED
  BY <1>5, <1>6, <1>7

\* After asuser the effective user is the one it was called for.
LEMMA Lowered ==
  ASSUME NEW outer, AsRoot(outer), NEW c, NEW from, NEW to \in LoweredThere, Lower(from, to, c)
  PROVE  pc' = to => euid' = c.uid
<1>1. /\ ids = [uid |-> [r |-> ids.uid.r, e |-> ids.uid.e, s |-> 0],
                gid |-> [r |-> ids.gid.r, e |-> ids.gid.e, s |-> ids.gid.s],
                groups |-> ids.groups]
      /\ ids.uid.e = 0
  BY LaunchShape DEF AsRoot
<1>2. CASE pc' = to
  <2>1. asuser(c)
    BY <1>2 DEF Lower, LoweredThere
  <2>2. CASE (c.uid = 0 \/ ids.uid.e = c.uid) /\ UNCHANGED ids
    BY <1>1, <2>2 DEF euid
  <2>3. CASE \E o \in make_effective(ids, Target(c)) : o.ok /\ ids' = o.ids
    <3>1. PICK o \in make_effective(ids, Target(c)) : o.ok /\ ids' = o.ids
      BY <2>3
    <3>2. o.ids = [uid |-> [r |-> ids.uid.r, e |-> Target(c).uid, s |-> 0],
                   gid |-> [r |-> ids.gid.r, e |-> Target(c).gid, s |-> ids.gid.s],
                   groups |-> Target(c).groups]
      BY <1>1, <3>1, MakeEffective
    <3> QED
      BY <3>1, <3>2 DEF euid, Target
  <2> QED
    BY <2>1, <2>2, <2>3 DEF asuser
<1> QED
  BY <1>2

\* The steps to the places where it matters who and where the process is.
LEMMA LoweringSteps ==
  ASSUME PrivInv, ActsAs,
         MakeOverlay \/ EnsureSandboxHome \/ LowerForSource \/ LowerForMake \/ ToOld
  PROVE  Calm /\ ActsAs'
<1> USE DEF Goto, Step, where, files, loops, idVars, Calm, Onward, Early, Ending, Collecting, Placing,
            Late, Body, Opened, Cloned, AfterGrants, ProcFixed, Blocking, ActsAs, LoweredThere,
            InMakeMntNs
<1>1. pc \in InMakeMntNs => AsRoot(<< RestoreNs >>)
  BY Places
<1>2. CASE MakeOverlay
  <2>1. pc' = "changes" => euid' = user_cred_.uid
    BY <1>1, <1>2, Lowered DEF MakeOverlay, Lower
  <2> QED
    BY <1>2, <2>1 DEF MakeOverlay, Lower
<1>3. CASE EnsureSandboxHome
  <2>1. pc' = "sandbox_home" => euid' = user_cred_.uid
    BY <1>1, <1>3, Lowered DEF EnsureSandboxHome, Lower
  <2> QED
    BY <1>3, <2>1 DEF EnsureSandboxHome, Lower
<1>4. CASE LowerForMake
  <2>1. pc' = "make_dst" => euid' = sbcred.uid
    BY <1>1, <1>4, Lowered DEF LowerForMake, Lower
  <2>2. sbcred' = sbcred
    BY <1>4 DEF LowerForMake, Lower, sbcred
  <2> QED
    BY <1>4, <2>1, <2>2 DEF LowerForMake, Lower
<1>5. CASE ToOld
  BY <1>5 DEF ToOld, SetNs
<1>6. CASE LowerForSource
  <2>1. pc' = "open_src" => euid' = user_cred_.uid
    BY <1>1, <1>6, Lowered DEF LowerForSource, Lower
  <2>2. cur' = "old"
    BY <1>6 DEF LowerForSource, Lower
  <2> QED
    BY <1>6, <2>1, <2>2 DEF LowerForSource, Lower
<1> QED
  BY <1>2, <1>3, <1>4, <1>5, <1>6

-----------------------------------------------------------------------------
(* The mounts of the jail *)

MountSet == [fs : FileSystem, root : Paths, attr : SUBSET Flags]

LEMMA SameConf ==
  ASSUME UNCHANGED conf
  PROVE  /\ attr' = attr /\ SandboxHome' = SandboxHome /\ Granted' = Granted
         /\ \A m : OwnMount(m)' = OwnMount(m) /\ Confined(m)' = Confined(m)
  BY DEF attr, SandboxHome, Granted, OwnMount, Confined, ForTheUser

LEMMA WorldPaths ==
  ASSUME conf \in Worlds
  PROVE  /\ conf.homepath_ \in Paths /\ conf.homejaipath_ \in Paths /\ conf.storagedir_ \in Paths
         /\ conf.cwd_ \in Paths /\ conf.grant_directories_ \subseteq Paths /\ Granted \subseteq Paths
  BY WorldsAssumption DEF Granted

\* One more mount in the jail.
LEMMA Attaching ==
  ASSUME NsInv, JailTypeOK, pc \in InNewNs, NEW p \in Paths, NEW m \in MountSet, Attach(m, p)
  PROVE  /\ ns'.old = ns.old /\ MountsOK(ns.new) /\ MountsOK(ns'.new)
         /\ DOMAIN ns.new = 1 .. Len(ns.new) /\ Len(ns.new) \in Nat
         /\ DOMAIN ns'.new = 1 .. Len(ns.new) + 1 /\ Len(ns'.new) = Len(ns.new) + 1
         /\ ns'.new[Len(ns.new) + 1] = At(p, m)
         /\ \A i \in 1 .. Len(ns.new) : ns'.new[i] = ns.new[i]
<1>1. ns'.old = ns.old /\ ns'.new = Append(ns.new, At(p, m))
  BY DEF Attach, Change, NsInv, InNewNs, Ending
<1>2. MountsOK(ns.new)
  BY DEF JailTypeOK, InNewNs, Early, Ending
<1> QED
  BY <1>1, <1>2, AppendOK DEF MountSet

LEMMA OneMore ==
  ASSUME NsInv, JailTypeOK, pc \in InNewNs, NEW p \in Paths, NEW m \in MountSet, Attach(m, p),
         NoneElse, Confined(At(p, m)), UNCHANGED conf
  PROVE  NoneElse'
<1>1. ASSUME NEW i \in DOMAIN ns'.new
      PROVE  ns'.new[i].at = Nowhere \/ Confined(ns'.new[i])
  <2>1. (i \in DOMAIN ns.new /\ ns'.new[i] = ns.new[i]) \/ ns'.new[i] = At(p, m)
    BY Attaching
  <2> QED
    BY <2>1 DEF NoneElse
<1> QED
  BY <1>1, SameConf DEF NoneElse

LEMMA PlacingKeeps ==
  ASSUME Grown, UNCHANGED << conf, tree, todo, d, block, dirs >>, ns'.old = ns.old,
         pc \in {"unshare", "private"} \cup Placing, pc' \in {"private", "cwd"} \cup Placing,
         MountsOK(ns'.new), pc' # "private" => NoneElse',
         pc' = "place_vartmp" => ns'.new[Len(ns'.new)] = At(<<"tmp">>, tree.tmp)
  PROVE  Grown'
<1>1. JailTypeOK'
  BY DEF Grown, JailTypeOK, Placing, Blocking
<1>2. /\ pc \in Collecting \ {"tmp"} /\ pc' \in Collecting \ {"tmp"}
      /\ pc' \notin Late /\ pc' \notin Cloned /\ pc' \notin ProcFixed
      /\ pc' \notin Body /\ pc' \notin Opened /\ pc' \notin AfterGrants
      /\ pc' \notin {"unshare", "reset_src", "clone_src"}
      /\ pc' \in Placing \cup {"cwd"} => pc' # "private"
  BY DEF Collecting, Early, Placing, Late, Body, Opened, Cloned, AfterGrants, ProcFixed
<1>3. /\ \A t \in Kinds : OwnMount(tree[t])' /\ (tree[t]' = NoMount \/ attr' \subseteq tree'[t].attr)
      /\ tree'.tmp.fs = "tmp"
  BY <1>2, SameConf DEF Grown, TreesConfined, Kinds
<1>4. TreesConfined'
  <2>1. pc' = "place_vartmp" => ns'.new[Len(ns'.new)] = At(<<"tmp">>, tree'.tmp)
    OBVIOUS
  <2>2. pc' \in Placing \cup {"cwd"} \cup (Late \ ProcFixed) => NoneElse'
    BY <1>2
  <2> QED
    BY <1>2, <1>3, <2>1, <2>2 DEF TreesConfined, Kinds
<1>5. GrantsInTime'
  BY <1>2 DEF Grown, GrantsInTime
<1>6. MadeForTheUser'
  BY MadeStays DEF Grown
<1> QED
  BY <1>1, <1>4, <1>5, <1>6 DEF Grown

LEMMA UnsharingSteps == ASSUME Grown, NsInv, Unshare \/ MakeReadOnly PROVE Grown'
<1> USE DEF Step, Goto, loops, where, files, idVars
<1>1. CASE Unshare
  <2>1. ns'.new = ns.old /\ ns'.old = ns.old
    BY <1>1 DEF Unshare, NsInv
  <2>2. MountsOK(ns'.new)
    BY <2>1 DEF Grown, JailTypeOK
  <2> QED
    BY <1>1, <2>1, <2>2, PlacingKeeps DEF Unshare
<1>2. CASE MakeReadOnly
  <2> DEFINE new == [i \in DOMAIN ns.new |-> AddAttr(ns.new[i], {"ro", "nosuid"})]
  <2>1. ns'.new = new /\ ns'.old = ns.old
    BY <1>2 DEF MakeReadOnly, NsInv
  <2>2. MountsOK(ns.new)
    BY <1>2 DEF MakeReadOnly, Grown, JailTypeOK, Early, Ending
  <2>3. ns.new \in Seq(Attached) /\ Len(ns.new) \in Nat /\ DOMAIN ns.new = 1 .. Len(ns.new)
        /\ Len(ns.new) >= 1
    BY <2>2 DEF MountsOK
  <2>4. ASSUME NEW i \in DOMAIN ns.new
        PROVE  /\ new[i] \in Attached /\ new[i].at = ns.new[i].at
               /\ "nosuid" \in new[i].attr /\ "ro" \in new[i].attr
    <3>1. ns.new[i] \in Attached /\ new[i] = AddAttr(ns.new[i], {"ro", "nosuid"})
      BY <2>3
    <3> QED
      BY <3>1 DEF AddAttr, Attached, Mounts, Flags
  <2>5. DOMAIN new = 1 .. Len(ns.new)
    BY <2>3
  <2> HIDE DEF new
  <2>6. new \in Seq(Attached) /\ Len(new) = Len(ns.new)
    <3>1. new = [i \in 1 .. Len(ns.new) |-> new[i]]
      BY <2>3 DEF new
    <3> QED
      BY <2>3, <2>4, <3>1
  <2>7. MountsOK(new)
    BY <2>2, <2>3, <2>4, <2>6 DEF MountsOK
  <2>8. NoneElse'
    BY <2>1, <2>3, <2>4, <2>5 DEF NoneElse, Confined
  <2> QED
    BY <1>2, <2>1, <2>7, <2>8, PlacingKeeps DEF MakeReadOnly, Placing
<1> QED
  BY <1>1, <1>2

LEMMA Detaching ==
  ASSUME NEW s, MountsOK(s), \A i \in DOMAIN s : s[i].at = Nowhere \/ Confined(s[i]),
         NEW p \in Paths, p # << >>
  PROVE  /\ MountsOK(Detached(s, p))
         /\ \A i \in DOMAIN Detached(s, p) :
              Detached(s, p)[i].at = Nowhere \/ Confined(Detached(s, p)[i])
<1> DEFINE top == SelectLastInSeq(s, LAMBDA m : m.at = p)
<1>1. Detached(s, p) = s \/ Detached(s, p) = TakeOff(s, p, top)
  BY DEF Detached
<1> HIDE DEF top
<1>2. s \in Seq(Attached)
  BY DEF MountsOK
<1>3. \A i \in DOMAIN s : [s[i] EXCEPT !.at = Nowhere].at = Nowhere
  <2>1. \A i \in DOMAIN s : s[i] \in Attached
    BY <1>2
  <2> QED
    BY <2>1 DEF Attached, Mounts
<1>4. CASE Detached(s, p) = TakeOff(s, p, top)
  <2>1. /\ MountsOK(TakeOff(s, p, top)) /\ DOMAIN TakeOff(s, p, top) = DOMAIN s
        /\ \A i \in DOMAIN s : \/ TakeOff(s, p, top)[i] = s[i]
                              \/ TakeOff(s, p, top)[i] = [s[i] EXCEPT !.at = Nowhere]
    BY TakeOffOK
  <2>2. \A i \in DOMAIN s : TakeOff(s, p, top)[i].at = Nowhere \/ Confined(TakeOff(s, p, top)[i])
    <3> TAKE i \in DOMAIN s
    <3>1. CASE TakeOff(s, p, top)[i] = s[i]
      BY <3>1
    <3>2. CASE TakeOff(s, p, top)[i] = [s[i] EXCEPT !.at = Nowhere]
      BY <1>3, <3>2
    <3> QED
      BY <2>1, <3>1, <3>2
  <2> QED
    BY <1>4, <2>1, <2>2
<1> QED
  BY <1>1, <1>4

LEMMA SharedDetached == ASSUME Grown, NsInv, DetachShared PROVE Grown'
<1> DEFINE a == Detached(ns.new, kRunRoot)
           b == Detached(a, <<"tmp">>)
           c == Detached(b, <<"var", "tmp">>)
<1>1. ns'.new = c /\ ns'.old = ns.old
  BY DEF DetachShared, Step, Goto, NsInv, InNewNs, Ending, Change
<1>2. MountsOK(ns.new) /\ NoneElse
  BY DEF DetachShared, Step, Goto, Grown, JailTypeOK, TreesConfined, Early, Ending, Placing
<1>3. kRunRoot # << >> /\ <<"tmp">> # << >> /\ <<"var", "tmp">> # << >>
  BY DEF kRunRoot
<1> HIDE DEF a, b, c
<1>4. MountsOK(a) /\ \A i \in DOMAIN a : a[i].at = Nowhere \/ Confined(a[i])
  BY <1>2, <1>3, Detaching, FixedPaths DEF a, NoneElse
<1>5. MountsOK(b) /\ \A i \in DOMAIN b : b[i].at = Nowhere \/ Confined(b[i])
  BY <1>3, <1>4, Detaching, FixedPaths DEF b
<1>6. MountsOK(c) /\ \A i \in DOMAIN c : c[i].at = Nowhere \/ Confined(c[i])
  BY <1>3, <1>5, Detaching, FixedPaths DEF c
<1>7. NoneElse'
  BY <1>1, <1>6, SameConf DEF NoneElse, DetachShared, Step
<1> QED
  BY <1>1, <1>6, <1>7, PlacingKeeps
     DEF DetachShared, Step, Goto, files, loops, Placing

LEMMA Placed ==
  ASSUME Grown, NsInv, NEW from \in Placing, NEW to \in Placing \cup {"cwd"},
         NEW m \in MountSet, NEW p \in Paths,
         Place(from, to, m, p), m # NoMount => Confined(At(p, m)),
         to = "place_vartmp" => m # NoMount /\ At(p, m) = At(<<"tmp">>, tree.tmp)
  PROVE  Grown'
<1> USE DEF Place, Goto, files, loops
<1>1. pc \in InNewNs /\ JailTypeOK /\ NoneElse /\ MountsOK(ns.new) /\ pc' # "private"
  BY DEF InNewNs, Placing, Grown, JailTypeOK, TreesConfined, Early, Ending
<1>2. CASE m = NoMount
  <2>1. UNCHANGED ns /\ NoneElse' /\ pc' # "place_vartmp"
    BY <1>1, <1>2, SameConf DEF NoneElse
  <2> QED
    BY <1>1, <2>1, PlacingKeeps
<1>3. CASE m # NoMount
  <2>1. Attach(m, p) /\ UNCHANGED conf /\ Confined(At(p, m))
    BY <1>3
  <2>2. NoneElse'
    BY <1>1, <2>1, OneMore
  <2>3. /\ ns'.old = ns.old /\ MountsOK(ns'.new)
        /\ ns'.new[Len(ns'.new)] = At(p, m)
    BY <1>1, <2>1, Attaching
  <2> QED
    BY <1>1, <2>2, <2>3, PlacingKeeps
<1> QED
  BY <1>2, <1>3

LEMMA OwnConfined ==
  ASSUME NEW m \in MountSet, NEW p, attr \subseteq m.attr, OwnMount(m)
  PROVE  Confined(At(p, m))
  BY DEF At, Confined, ForTheUser, OwnMount, attr

\* What is mounted on /var/tmp is the mount that is on /tmp.
LEMMA VarTmpPlaced ==
  ASSUME Grown, NsInv, PlaceVarTmp
  PROVE  /\ pc = "place_vartmp"
         /\ Place("place_vartmp", "place_home", tree.tmp, <<"var", "tmp">>)
<1> DEFINE n == Len(ns.new)
           t == ns.new[MountOf(ns.new, <<"tmp">>)]
           m == [fs |-> t.fs, root |-> t.root, attr |-> t.attr]
<1>1. cur = "new" /\ pc = "place_vartmp"
  BY DEF PlaceVarTmp, Place, Goto, NsInv, InNewNs
<1>2. Place("place_vartmp", "place_home", m, <<"var", "tmp">>)
  BY <1>1 DEF PlaceVarTmp
<1>3. MountsOK(ns.new) /\ ns.new[n] = At(<<"tmp">>, tree.tmp) /\ tree.tmp \in MountSet
  BY <1>1 DEF Grown, JailTypeOK, TreesConfined, Early, Ending, MountSet
<1>4. ns.new \in Seq(Attached) /\ n \in 1 .. Len(ns.new)
  BY <1>3 DEF MountsOK
<1>5. contains(ns.new[n].at, <<"tmp">>)
  BY <1>3, PathFacts, FixedPaths DEF At
<1>6. t = At(<<"tmp">>, tree.tmp)
  BY <1>3, <1>4, <1>5, MountOfIs
<1>7. m = tree.tmp
  BY <1>3, <1>6 DEF At, MountSet
<1> HIDE DEF m
<1> QED
  BY <1>1, <1>2, <1>7

LEMMA PlacingSteps ==
  ASSUME Grown, NsInv, PlaceTmp \/ PlaceVarTmp \/ PlaceHome \/ PlacePasswd \/ PlaceRun
  PROVE  Grown'
<1>1. ASSUME NEW t \in Kinds, pc \in Placing
      PROVE  tree[t] \in MountSet /\ (tree[t] # NoMount => \A p : Confined(At(p, tree[t])))
  <2>1. tree[t] \in MountSet /\ OwnMount(tree[t]) /\ (tree[t] = NoMount \/ attr \subseteq tree[t].attr)
    BY <1>1 DEF Grown, JailTypeOK, TreesConfined, Kinds, MountSet
  <2> QED
    BY <2>1, OwnConfined
<1>2. /\ "tmp" \in Kinds /\ "home" \in Kinds /\ "passwd" \in Kinds /\ "rundir" \in Kinds
      /\ "cwd" \notin {"place_vartmp"} /\ "place_vartmp" \in Placing
      /\ {"place_tmp", "place_home", "place_passwd", "place_run"} \subseteq Placing \ {"place_vartmp"}
  BY DEF Kinds, Placing
<1>3. pc \in Placing => tree.tmp # NoMount
  BY DEF Grown, TreesConfined, NoMount, Collecting, Placing
<1>4. conf.homepath_ \in Paths
  BY WorldPaths DEF Grown, JailTypeOK
<1>5. CASE PlaceTmp
  <2>1. pc \in Placing /\ Place("place_tmp", "place_vartmp", tree.tmp, <<"tmp">>)
    BY <1>2, <1>5 DEF PlaceTmp, Place, Goto
  <2>2. tree.tmp \in MountSet /\ tree.tmp # NoMount /\ Confined(At(<<"tmp">>, tree.tmp))
    BY <1>1, <1>2, <1>3, <2>1
  <2> QED
    BY <1>2, <2>1, <2>2, Placed, FixedPaths
<1>6. CASE PlaceVarTmp
  <2>1. pc \in Placing /\ Place("place_vartmp", "place_home", tree.tmp, <<"var", "tmp">>)
    BY <1>2, <1>6, VarTmpPlaced
  <2>2. tree.tmp \in MountSet /\ Confined(At(<<"var", "tmp">>, tree.tmp))
    BY <1>1, <1>2, <1>3, <2>1
  <2> QED
    BY <1>2, <2>1, <2>2, Placed, FixedPaths
<1>7. CASE PlaceHome
  <2>1. pc \in Placing /\ Place("place_home", "place_passwd", tree.home, conf.homepath_)
    BY <1>2, <1>7 DEF PlaceHome, Place, Goto
  <2>2. tree.home \in MountSet /\ (tree.home # NoMount => Confined(At(conf.homepath_, tree.home)))
    BY <1>1, <1>2, <2>1
  <2> QED
    BY <1>2, <1>4, <2>1, <2>2, Placed
<1>8. CASE PlacePasswd
  <2>1. pc \in Placing /\ Place("place_passwd", "place_run", tree.passwd, <<"etc", "passwd">>)
    BY <1>2, <1>8 DEF PlacePasswd, Place, Goto
  <2>2. tree.passwd \in MountSet
        /\ (tree.passwd # NoMount => Confined(At(<<"etc", "passwd">>, tree.passwd)))
    BY <1>1, <1>2, <2>1
  <2> QED
    BY <1>2, <2>1, <2>2, Placed, FixedPaths
<1>9. CASE PlaceRun
  <2>1. pc \in Placing /\ Place("place_run", "cwd", tree.rundir, xdgrun)
    BY <1>2, <1>9 DEF PlaceRun, Place, Goto
  <2>2. tree.rundir \in MountSet /\ (tree.rundir # NoMount => Confined(At(xdgrun, tree.rundir)))
    BY <1>1, <1>2, <2>1
  <2> QED
    BY <1>2, <2>1, <2>2, Placed, FixedPaths
<1> QED
  BY <1>5, <1>6, <1>7, <1>8, <1>9

LEMMA CwdGranted == ASSUME Grown, GrantCwd PROVE Grown'
<1> USE DEF GrantCwd, Step, Goto, where, files
<1>1. UNCHANGED << conf, ns, tree, d, block, dirs >> /\ pc = "cwd" /\ pc' = "grants"
  OBVIOUS
<1>2. todo' = todo \cup (IF conf.grant_cwd_ THEN {conf.cwd_} ELSE {})
  OBVIOUS
<1>3. /\ pc' \in Late /\ pc' \notin Collecting /\ pc' \notin Body /\ pc' \notin Opened
      /\ pc' \notin Cloned /\ pc' \notin AfterGrants /\ pc' \notin Placing /\ pc' \notin ProcFixed
      /\ pc' \notin Blocking /\ pc' \notin Early /\ pc' \notin Ending
      /\ pc \notin Early /\ pc \notin Ending /\ pc \in Collecting
  BY <1>1 DEF Late, Collecting, Body, Opened, Cloned, AfterGrants, Placing, ProcFixed, Blocking, Early,
              Ending
<1> HIDE DEF GrantCwd, Step, Goto
<1>4. todo' = Granted /\ Granted' = Granted
  BY <1>1, <1>2, <1>3 DEF Grown, GrantsInTime, Granted
<1>5. JailTypeOK'
  BY <1>1, <1>3, <1>4, WorldPaths DEF Grown, JailTypeOK
<1>6. NoneElse' /\ \A t \in Kinds : OwnMount(tree[t])'
  BY <1>1, SameConf DEF Grown, TreesConfined, NoneElse, Kinds
<1>7. TreesConfined'
  BY <1>1, <1>3, <1>6 DEF TreesConfined, Kinds
<1>8. GrantsInTime'
  BY <1>1, <1>3, <1>4 DEF GrantsInTime, Ahead
<1>9. MadeForTheUser'
  BY <1>1, MadeStays DEF Grown
<1> QED
  BY <1>5, <1>7, <1>8, <1>9 DEF Grown

-----------------------------------------------------------------------------
(* The loop over grant_directories_ *)

LEMMA SameGrants ==
  ASSUME UNCHANGED << conf, user_cred_, untrusted_cred_, ns, dirs >>
  PROVE  \A g : Allowed(g)' = Allowed(g) /\ TheUsersOwn(g)' = TheUsersOwn(g) /\ InPlace(g)' = InPlace(g)
  BY DEF Allowed, TheUsersOwn, InPlace, CanFind, OwnedBy, Open, Exists, Entry, Is

LEMMA KindsKept ==
  ASSUME Grown, UNCHANGED conf, \A t \in Kinds : tree'[t] = tree[t]
  PROVE  \A t \in Kinds : OwnMount(tree[t])'
  BY SameConf DEF Grown, TreesConfined, Kinds

LEMMA EndingKeeps ==
  ASSUME Grown, UNCHANGED << conf, dirs >>, JailTypeOK', pc' \in Ending,
         \A t \in Kinds : tree'[t] = tree[t]
  PROVE  Grown'
<1>1. TreesConfined'
  BY Ends, KindsKept DEF TreesConfined, Kinds
<1>2. GrantsInTime'
  BY Ends DEF GrantsInTime
<1> QED
  BY <1>1, <1>2, MadeStays DEF Grown

LEMMA Lately ==
  ASSUME NEW l \in Late
  PROVE  /\ l \notin Early /\ l \notin Ending /\ l \notin Collecting /\ l \notin Placing
         /\ l \notin {"unshare", "private", "place_vartmp", "cwd"}
  BY DEF Late, Collecting, Body, Opened, Cloned, AfterGrants, Placing, Early, Ending

LEMMA LateTrees ==
  ASSUME Grown, UNCHANGED conf, pc' \in Late, \A t \in Kinds : tree'[t] = tree[t],
         pc' \in Cloned => tree'.src.attr = attr,
         pc' \notin ProcFixed => NoneElse', pc' \in ProcFixed => MountsConfined'
  PROVE  TreesConfined'
  BY KindsKept, Lately, SameConf DEF TreesConfined, Kinds

LEMMA NextGranted == ASSUME Grown, GrantNext PROVE Grown'
<1> USE DEF where, files, idVars, privVars
<1>1. PICK g \in todo :
        /\ NextGrant(g) /\ d' = g /\ todo' = todo \ {g}
        /\ pc' = IF contains(conf.homejaipath_, g) \/ contains(conf.storagedir_, g)
                   THEN "unwind" ELSE "to_old"
  BY DEF GrantNext
<1>2. UNCHANGED << conf, user_cred_, untrusted_cred_, ns, tree, block, dirs >> /\ pc = "grants"
  BY DEF GrantNext
<1>3. pc \in Late /\ pc \notin Body /\ pc \notin ProcFixed /\ pc \notin Early \cup Ending
  BY <1>2 DEF Late, Body, Opened, Cloned, ProcFixed, Early, Ending
<1>4. todo \subseteq Paths /\ todo \subseteq Granted
  BY <1>3 DEF Grown, JailTypeOK, GrantsInTime, Ahead
<1>5. JailTypeOK'
  BY <1>1, <1>2, <1>3, <1>4 DEF Grown, JailTypeOK, Blocking
<1>6. CASE pc' = "unwind"
  BY <1>2, <1>5, <1>6, EndingKeeps DEF Ending
<1>7. CASE pc' = "to_old"
  <2>1. /\ pc' \in Late /\ pc' \in Body /\ pc' \notin Opened /\ pc' \notin Cloned
        /\ pc' \notin ProcFixed /\ pc' \notin AfterGrants /\ pc' \notin {"reset_src", "clone_src"}
    BY <1>7 DEF Late, Body, Opened, Cloned, ProcFixed, AfterGrants
  <2>2. NoneElse'
    BY <1>2, <1>3, SameConf DEF Grown, TreesConfined, NoneElse
  <2>3. TreesConfined'
    BY <1>2, <2>1, <2>2, LateTrees
  <2>4. Ahead' = Ahead /\ Ahead = todo /\ Granted' = Granted
    BY <1>1, <1>2, <1>3, <2>1, SameConf DEF Ahead
  <2>5. Allowed(d)' /\ NoneAbove(todo, d)'
    <3>1. ~contains(conf'.homejaipath_, d') /\ ~contains(conf'.storagedir_, d')
      BY <1>1, <1>2, <1>7
    <3>2. \A h \in todo' : ~contains(h, d')
      BY <1>1 DEF NextGrant
    <3> QED
      BY <3>1, <3>2 DEF NoneAbove, Allowed
  <2>6. ASSUME NEW h \in Granted' \ Ahead'
        PROVE  Allowed(h)' /\ TheUsersOwn(h)' /\ NoneAbove(Ahead, h)' /\ InPlace(h)'
    BY <1>2, <1>3, <2>4, <2>6, SameGrants DEF Grown, GrantsInTime, NoneAbove
  <2>7. GrantsInTime'
    BY <1>4, <2>1, <2>4, <2>5, <2>6, Lately DEF GrantsInTime
  <2> QED
    BY <1>2, <1>5, <2>3, <2>7, MadeStays DEF Grown
<1> QED
  BY <1>1, <1>6, <1>7

\* A step within the handling of one grant that makes no mount and no
\* directory, but may get hold of the source.
LEMMA SourceKeeps ==
  ASSUME Grown, UNCHANGED << conf, user_cred_, untrusted_cred_, ns, dirs, todo, d, block >>,
         pc \in Body, pc' \in Body, \A t \in Kinds : tree'[t] = tree[t], tree' \in Trees,
         pc' \in Opened => /\ [fs |-> tree'.src.fs, path |-> tree'.src.root] = Resolve(ns.old, d)
                           /\ TheUsersOwn(d),
         pc' \in {"reset_src", "clone_src"} => tree'.src.attr = {},
         pc' \in Cloned => tree'.src.attr = attr
  PROVE  Grown'
<1>1. /\ pc \in Late /\ pc' \in Late /\ pc \notin ProcFixed /\ pc' \notin ProcFixed
      /\ pc' \notin AfterGrants /\ pc' \notin Blocking
  BY DEF Late, Body, Opened, Cloned, ProcFixed, AfterGrants, Blocking
<1>2. JailTypeOK'
  BY <1>1, Lately DEF Grown, JailTypeOK, Trees
<1>3. NoneElse'
  BY <1>1, SameConf DEF Grown, TreesConfined, NoneElse
<1>4. TreesConfined'
  BY <1>1, <1>3, LateTrees
<1>5. Ahead' = Ahead /\ Granted' = Granted
  BY SameConf DEF Ahead
<1>6. Allowed(d)' /\ NoneAbove(todo, d)' /\ Ahead' \subseteq Granted'
  BY <1>1, <1>5, SameGrants DEF Grown, GrantsInTime, NoneAbove, Allowed
<1>7. pc' \in Opened => /\ [fs |-> tree'.src.fs, path |-> tree'.src.root] = Resolve(ns.old, d)'
                        /\ TheUsersOwn(d)'
  BY SameGrants DEF TheUsersOwn
<1>8. ASSUME NEW g \in Granted' \ Ahead'
      PROVE  Allowed(g)' /\ TheUsersOwn(g)' /\ NoneAbove(Ahead, g)' /\ InPlace(g)'
  BY <1>1, <1>5, <1>8, SameGrants DEF Grown, GrantsInTime, NoneAbove
<1>9. GrantsInTime'
  BY <1>1, <1>6, <1>7, <1>8, Lately DEF GrantsInTime
<1> QED
  BY <1>2, <1>4, <1>9, MadeStays DEF Grown

LEMMA SourceSteps == ASSUME Grown, ActsAs, OpenSource \/ CloneSource PROVE Grown'
<1> USE DEF Step, Goto, where, loops, idVars
<1>1. tree \in Trees
  BY DEF Grown, JailTypeOK, Trees
<1>2. CASE OpenSource
  <2> DEFINE i == Resolve(ns.old, d)
  <2>1. cur = "old" /\ euid = user_cred_.uid
    BY <1>2 DEF OpenSource, ActsAs
  <2>2. CanFind(ns.old, user_cred_.uid, d) /\ OwnedBy(ns.old, d, {"user"})
        /\ Hold("src", Mount(i.fs, i.path))
    BY <1>2, <2>1 DEF OpenSource
  <2>3. i.fs \in FileSystem /\ i.path \in Paths
    BY Resolved DEF Grown, JailTypeOK
  <2>4. i = [fs |-> i.fs, path |-> i.path]
    BY DEF Resolve
  <2> HIDE DEF i
  <2>5. tree' \in Trees /\ tree'.src = Mount(i.fs, i.path) /\ \A t \in Kinds : tree'[t] = tree[t]
    BY <1>1, <2>2, <2>3 DEF Hold, Trees, Mount, Kinds
  <2>6. tree'.src.fs = i.fs /\ tree'.src.root = i.path /\ tree'.src.attr = {}
    BY <2>5 DEF Mount
  <2>7. pc \in Body /\ pc' \in Body /\ pc' \notin Cloned
    BY <1>2 DEF OpenSource, Body, Opened, Cloned
  <2> QED
    BY <1>2, <2>2, <2>4, <2>5, <2>6, <2>7, SourceKeeps DEF OpenSource, TheUsersOwn, i
<1>3. CASE CloneSource
  <2>1. tree' = [tree EXCEPT !["src"] = AddAttr(tree.src, attr)]
    BY <1>3 DEF CloneSource, Hold
  <2>2. pc = "clone_src" /\ pc \in Body /\ pc \in Opened /\ pc' \in Body
        /\ pc' \notin {"reset_src", "clone_src"}
    BY <1>3 DEF CloneSource, Body, Opened, Cloned
  <2>3. /\ [fs |-> tree.src.fs, path |-> tree.src.root] = Resolve(ns.old, d)
        /\ TheUsersOwn(d) /\ tree.src.attr = {}
    BY <2>2 DEF Grown, GrantsInTime
  <2>4. tree.src \in MountSet /\ attr \in SUBSET Flags
    BY <1>1 DEF Trees, MountSet, attr, Flags
  <2>5. AddAttr(tree.src, attr) \in MountSet /\ AddAttr(tree.src, attr).fs = tree.src.fs
        /\ AddAttr(tree.src, attr).root = tree.src.root /\ AddAttr(tree.src, attr).attr = attr
    BY <2>3, <2>4 DEF AddAttr, MountSet
  <2>6. tree' \in Trees /\ tree'.src = AddAttr(tree.src, attr) /\ \A t \in Kinds : tree'[t] = tree[t]
    BY <1>1, <2>1, <2>5 DEF Trees, Kinds, MountSet
  <2> QED
    BY <1>3, <2>2, <2>3, <2>5, <2>6, SourceKeeps DEF CloneSource
<1> QED
  BY <1>2, <1>3

\* A directory that is new is at no path that was looked up before.
LEMMA OwnKept ==
  ASSUME UNCHANGED << conf, user_cred_, untrusted_cred_, ns >>, dirs \subseteq dirs',
         \A x \in dirs' \ dirs, y \in dirs : x.fs # y.fs \/ x.path # y.path,
         NEW g, TheUsersOwn(g)
  PROVE  TheUsersOwn(g)'
<1>1. ASSUME NEW q, Exists(ns.old, q)
      PROVE  Exists(ns.old, q)' /\ Entry(ns.old, q)' = Entry(ns.old, q)
  <2>1. PICK y \in dirs : Resolve(ns.old, q) = [fs |-> y.fs, path |-> y.path]
    BY <1>1 DEF Exists, Entry
  <2>2. ASSUME NEW x \in dirs', Resolve(ns.old, q) = [fs |-> x.fs, path |-> x.path]
        PROVE  x \in dirs
    <3>1. x.fs = y.fs /\ x.path = y.path
      <4>1. [fs |-> x.fs, path |-> x.path] = [fs |-> y.fs, path |-> y.path]
        BY <2>1, <2>2
      <4> QED
        BY <4>1
    <3> QED
      BY <3>1
  <2>3. Entry(ns.old, q)' = Entry(ns.old, q)
    BY <2>2 DEF Entry
  <2> QED
    BY <1>1, <2>3 DEF Exists
<1>2. Exists(ns.old, g) /\ \A q \in Above(g) : Exists(ns.old, q) /\ Open(ns.old, user_cred_.uid, q)
  BY DEF TheUsersOwn, CanFind
<1>3. \A q \in Above(g) : Open(ns.old, user_cred_.uid, q)'
  BY <1>1, <1>2 DEF Open, Is
<1>4. CanFind(ns.old, user_cred_.uid, g)'
  BY <1>1, <1>2, <1>3 DEF CanFind
<1>5. OwnedBy(ns.old, g, {"user"})'
  BY <1>1, <1>2 DEF OwnedBy, TheUsersOwn
<1> QED
  BY <1>4, <1>5 DEF TheUsersOwn

LEMMA TargetMade == ASSUME Grown, ActsAs, NsInv, MakeTarget PROVE Grown'
<1> USE DEF Step, Goto, where, loops, idVars
<1> DEFINE missing == Missing(ns.new, d)
<1>1. /\ pc \in Late /\ pc' \in Late /\ pc \in Cloned /\ pc' \in Cloned /\ pc \in Opened /\ pc' \in Opened
      /\ pc \in Body /\ pc' \in Body /\ pc \notin ProcFixed /\ pc' \notin ProcFixed
      /\ pc' \notin AfterGrants /\ pc' \notin Blocking /\ pc' \notin {"reset_src", "clone_src"}
      /\ pc \notin Early \cup Ending /\ pc' \notin Early \cup Ending
  BY DEF MakeTarget, Late, Body, Opened, Cloned, ProcFixed, AfterGrants, Blocking, Early, Ending
<1>2. cur = "new" /\ euid = sbcred.uid
  BY DEF MakeTarget, NsInv, InNewNs, ActsAs
<1>3. /\ \A q \in missing : CanCreate(ns.new, q)
      /\ dirs' = dirs \cup {NewDir(ns.new, q) : q \in missing}
  BY <1>2 DEF MakeTarget
<1>4. UNCHANGED << conf, user_cred_, untrusted_cred_, ns, tree, todo, d, block >>
  BY DEF MakeTarget
<1>5. MountsOK(ns.new) /\ d \in Paths /\ NoneElse
  BY <1>1 DEF Grown, JailTypeOK, TreesConfined
<1> HIDE DEF missing
<1>6. ASSUME NEW q \in missing
      PROVE  /\ NewDir(ns.new, q).fs = Resolve(ns.new, q).fs
             /\ NewDir(ns.new, q).path = Resolve(ns.new, q).path
             /\ NewDir(ns.new, q).owner =
                  IF euid = user_cred_.uid THEN "user"
                  ELSE IF euid = untrusted_cred_.uid
                    THEN IF "idmap" \in AttrOf(ns.new, Front(q)) THEN "user" ELSE "untrusted"
                  ELSE "root"
  BY DEF NewDir, Made
<1>7. ASSUME NEW q \in missing, NEW y \in dirs
      PROVE  NewDir(ns.new, q).fs # y.fs \/ NewDir(ns.new, q).path # y.path
  <2>1. Resolve(ns.new, q) # [fs |-> y.fs, path |-> y.path]
    BY <1>7 DEF missing, Missing, Exists, Entry
  <2>2. Resolve(ns.new, q) = [fs |-> Resolve(ns.new, q).fs, path |-> Resolve(ns.new, q).path]
    BY DEF Resolve
  <2> QED
    BY <1>6, <2>1, <2>2
<1>8. ASSUME NEW q \in missing
      PROVE  NewDir(ns.new, q).owner = "user"
  <2>1. CASE conf.mode_ # kStrict
    BY <1>2, <1>6, <2>1 DEF sbcred
  <2>2. CASE conf.mode_ = kStrict
    <3> DEFINE parent == Front(q)
               m == ns.new[MountOf(ns.new, parent)]
    <3>1. parent \in Paths
      <4>1. \A p \in Paths, n \in Int : n <= Len(p) => SubSeq(p, 1, n) \in Paths
        <5> SUFFICES ASSUME NEW p \in Seq(Name), NEW n \in Int, n <= Len(p)
                     PROVE  SubSeq(p, 1, n) \in Seq(Name)
          BY DEF Paths
        <5>1. \A k \in 1 .. n : p[k] \in Name
          OBVIOUS
        <5> QED
          BY <5>1, SubSeqProperties
      <4>2. \A p \in Paths : Len(p) \in Nat
        BY DEF Paths
      <4>3. q \in Paths
        <5>1. q = d \/ \E n \in 0 .. Len(d) - 1 : q = SubSeq(d, 1, n)
          BY DEF missing, Missing, Above
        <5>2. \A n \in 0 .. Len(d) - 1 : n \in Int /\ n <= Len(d)
          BY <1>5, <4>2
        <5> QED
          BY <1>5, <4>1, <5>1, <5>2
      <4> QED
        BY <4>1, <4>2, <4>3 DEF Front
    <3>2. MountOf(ns.new, parent) \in DOMAIN ns.new /\ m.at \in Paths
      BY <1>5, <3>1, Shown DEF MountsOK
    <3>3. "ro" \notin m.attr
      BY <1>3 DEF CanCreate, AttrOf
    <3>4. m.at # Nowhere
      BY <3>2, PathFacts
    <3>5. Confined(m)
      BY <1>5, <3>2, <3>4 DEF NoneElse
    <3>6. "idmap" \in AttrOf(ns.new, parent)
      BY <2>2, <3>3, <3>5 DEF Confined, ForTheUser, AttrOf
    <3> QED
      BY <1>2, <1>6, <2>2, <3>6 DEF sbcred
  <2> QED
    BY <2>1, <2>2
<1>9. MadeForTheUser'
  <2>1. OverlayOf(conf.dirs)' = OverlayOf(conf.dirs)
    BY <1>4 DEF OverlayOf
  <2> QED
    BY <1>3, <1>4, <1>8, <2>1 DEF Grown, MadeForTheUser
<1>10. \A g : TheUsersOwn(g) => TheUsersOwn(g)'
  BY <1>3, <1>4, <1>7, OwnKept
<1>11. JailTypeOK'
  BY <1>1, <1>4 DEF Grown, JailTypeOK
<1>12. TreesConfined'
  <2>1. NoneElse'
    BY <1>4, <1>5, SameConf DEF NoneElse
  <2>2. tree.src.attr = attr
    BY <1>1 DEF Grown, TreesConfined
  <2> QED
    BY <1>1, <1>4, <2>1, <2>2, LateTrees
<1>13. GrantsInTime'
  <2>1. Ahead' = Ahead /\ Granted' = Granted
    BY <1>1, <1>4, SameConf DEF Ahead
  <2>2. \A g : Allowed(g)' = Allowed(g) /\ InPlace(g)' = InPlace(g)
    BY <1>4 DEF Allowed, InPlace
  <2>3. Allowed(d)' /\ NoneAbove(todo, d)' /\ Ahead' \subseteq Granted'
    BY <1>1, <1>4, <2>1 DEF Grown, GrantsInTime, NoneAbove, Allowed
  <2>4. /\ [fs |-> tree'.src.fs, path |-> tree'.src.root] = Resolve(ns.old, d)'
        /\ TheUsersOwn(d)'
    <3>1. TheUsersOwn(d) /\ [fs |-> tree.src.fs, path |-> tree.src.root] = Resolve(ns.old, d)
      BY <1>1 DEF Grown, GrantsInTime
    <3>2. TheUsersOwn(d)'
      <4>1. \A g : g = d => TheUsersOwn(g)'
        BY <1>10, <3>1
      <4> QED
        BY <1>4, <4>1 DEF TheUsersOwn
    <3> QED
      BY <1>4, <3>1, <3>2
  <2>5. ASSUME NEW g \in Granted' \ Ahead'
        PROVE  Allowed(g)' /\ TheUsersOwn(g)' /\ NoneAbove(Ahead, g)' /\ InPlace(g)'
    BY <1>1, <1>10, <2>1, <2>2, <2>5 DEF Grown, GrantsInTime, NoneAbove
  <2> QED
    BY <1>1, <2>3, <2>4, <2>5, Lately DEF GrantsInTime
<1> QED
  BY <1>9, <1>11, <1>12, <1>13 DEF Grown

\* A mount that is not above g leaves g as it is.
LEMMA StaysInPlace ==
  ASSUME NsInv, JailTypeOK, pc \in InNewNs, NEW p \in Paths, NEW m \in MountSet, Attach(m, p),
         NEW g, InPlace(g), ~contains(p, g)
  PROVE  InPlace(g)'
<1>1. PICK n \in DOMAIN ns.new :
        /\ ns.new[n].at = g
        /\ [fs |-> ns.new[n].fs, path |-> ns.new[n].root] = Resolve(ns.old, g)
        /\ "ro" \notin ns.new[n].attr
        /\ \A i \in DOMAIN ns.new : i > n => ~contains(ns.new[i].at, g)
  BY DEF InPlace
<1>2. At(p, m).at = p
  BY DEF At
<1>3. n \in DOMAIN ns'.new /\ ns'.new[n] = ns.new[n] /\ ns'.old = ns.old
  BY Attaching
<1>4. ASSUME NEW i \in DOMAIN ns'.new, i > n
      PROVE  ~contains(ns'.new[i].at, g)
  <2>1. (i \in DOMAIN ns.new /\ ns'.new[i] = ns.new[i]) \/ ns'.new[i] = At(p, m)
    BY Attaching
  <2> QED
    BY <1>1, <1>2, <1>4, <2>1
<1> QED
  BY <1>1, <1>3, <1>4 DEF InPlace

LEMMA GrantAttached == ASSUME Grown, NsInv, AttachGrant PROVE Grown'
<1> USE DEF Step, Goto, files, loops, idVars
<1>1. /\ pc \in Late /\ pc' \in Late /\ pc \in Cloned /\ pc \in Opened /\ pc \in Body /\ pc \in InNewNs
      /\ pc' \notin Cloned /\ pc' \notin Opened /\ pc' \notin Body
      /\ pc \notin ProcFixed /\ pc' \notin ProcFixed
      /\ pc' \notin AfterGrants /\ pc' \notin Blocking /\ pc' \notin {"reset_src", "clone_src"}
      /\ pc \notin Early \cup Ending /\ pc' \notin Early \cup Ending
  BY DEF AttachGrant, Late, Body, Opened, Cloned, ProcFixed, AfterGrants, Blocking, Early, Ending, InNewNs
<1>2. UNCHANGED << conf, user_cred_, untrusted_cred_, tree, todo, d, block, dirs >> /\ Attach(tree.src, d)
  BY DEF AttachGrant
<1>3. JailTypeOK /\ d \in Paths /\ tree.src \in MountSet /\ NoneElse /\ tree.src.attr = attr
  BY <1>1 DEF Grown, JailTypeOK, TreesConfined, MountSet
<1>4. /\ Ahead = todo \cup {d} /\ Ahead' = todo /\ Granted' = Granted /\ Ahead \subseteq Granted
      /\ Allowed(d) /\ NoneAbove(todo, d) /\ TheUsersOwn(d)
      /\ [fs |-> tree.src.fs, path |-> tree.src.root] = Resolve(ns.old, d)
  BY <1>1, <1>2, SameConf DEF Grown, GrantsInTime, Ahead
<1>5. At(d, tree.src) = [at |-> d, fs |-> tree.src.fs, root |-> tree.src.root, attr |-> attr]
  BY <1>3 DEF At
<1>6. Confined(At(d, tree.src))
  BY <1>4, <1>5 DEF Confined, ForTheUser, attr
<1>7. /\ ns'.old = ns.old /\ MountsOK(ns'.new) /\ Len(ns.new) \in Nat
      /\ DOMAIN ns'.new = 1 .. Len(ns.new) + 1
      /\ ns'.new[Len(ns.new) + 1] = At(d, tree.src)
  BY <1>1, <1>2, <1>3, Attaching
<1>8. JailTypeOK'
  BY <1>1, <1>2, <1>7 DEF Grown, JailTypeOK
<1>9. TreesConfined'
  <2>1. NoneElse'
    BY <1>1, <1>2, <1>3, <1>6, OneMore
  <2> QED
    BY <1>1, <1>2, <2>1, LateTrees
<1>10. \A g : Allowed(g)' = Allowed(g) /\ TheUsersOwn(g)' = TheUsersOwn(g)
  BY <1>2, <1>7 DEF Allowed, TheUsersOwn, CanFind, OwnedBy, Open, Exists, Entry, Is
<1>11. InPlace(d)'
  <2> DEFINE n == Len(ns.new) + 1
  <2>1. n \in DOMAIN ns'.new /\ ~ \E i \in DOMAIN ns'.new : i > n
    BY <1>7
  <2>2. /\ ns'.new[n].at = d /\ "ro" \notin ns'.new[n].attr
        /\ [fs |-> ns'.new[n].fs, path |-> ns'.new[n].root] = Resolve(ns'.old, d)
    BY <1>4, <1>5, <1>7 DEF attr
  <2>3. d' = d
    BY <1>2
  <2> HIDE DEF n
  <2> QED
    BY <2>1, <2>2, <2>3 DEF InPlace
<1>12. ASSUME NEW g \in Granted' \ Ahead'
       PROVE  Allowed(g)' /\ TheUsersOwn(g)' /\ NoneAbove(Ahead, g)' /\ InPlace(g)'
  <2>1. CASE g = d
    <3>1. InPlace(g)'
      BY <1>2, <1>11, <2>1 DEF InPlace
    <3> QED
      BY <1>4, <1>10, <2>1, <3>1 DEF NoneAbove
  <2>2. CASE g # d
    <3>1. g \in Granted \ Ahead
      BY <1>4, <1>12, <2>2
    <3>2. Allowed(g) /\ TheUsersOwn(g) /\ NoneAbove(Ahead, g) /\ InPlace(g)
      BY <1>1, <3>1 DEF Grown, GrantsInTime
    <3>3. ~contains(d, g) /\ NoneAbove(todo, g)
      BY <1>4, <3>2 DEF NoneAbove
    <3>4. InPlace(g)'
      BY <1>1, <1>2, <1>3, <3>2, <3>3, StaysInPlace
    <3> QED
      BY <1>4, <1>10, <3>2, <3>3, <3>4 DEF NoneAbove
  <2> QED
    BY <2>1, <2>2
<1>13. GrantsInTime'
  BY <1>1, <1>4, <1>12, Lately DEF GrantsInTime
<1> QED
  BY <1>2, <1>8, <1>9, <1>13, MadeStays DEF Grown

\* When all grants are in place.
LEMMA AfterKeeps ==
  ASSUME Grown, UNCHANGED << conf, user_cred_, untrusted_cred_, tree, todo, d, dirs >>, todo = {},
         pc \in Late, pc \notin Body, pc \notin ProcFixed, pc' \in AfterGrants, JailTypeOK',
         ns'.old = ns.old, pc' \notin ProcFixed => NoneElse', pc' \in ProcFixed => MountsConfined',
         \A g \in Granted : InPlace(g) /\ Allowed(g) =>
           InPlace(g)' \/ (pc' \in ProcFixed /\ contains(<<"proc">>, g))
  PROVE  Grown'
<1>1. /\ pc' \in Late /\ pc' \notin Body /\ pc' \notin Opened /\ pc' \notin Cloned
      /\ pc' \notin {"reset_src", "clone_src"}
  BY DEF Late, Body, Opened, Cloned, AfterGrants
<1>2. Ahead = {} /\ Ahead' = {} /\ Granted' = Granted
  BY <1>1, SameConf DEF Ahead
<1>3. TreesConfined'
  BY <1>1, LateTrees
<1>4. \A g : Allowed(g)' = Allowed(g) /\ TheUsersOwn(g)' = TheUsersOwn(g)
  BY DEF Allowed, TheUsersOwn, CanFind, OwnedBy, Open, Exists, Entry, Is
<1>5. ASSUME NEW g \in Granted' \ Ahead'
      PROVE  /\ Allowed(g)' /\ TheUsersOwn(g)' /\ NoneAbove(Ahead, g)'
             /\ InPlace(g)' \/ (pc' \in ProcFixed /\ contains(<<"proc">>, g))
  <2>1. Allowed(g) /\ TheUsersOwn(g) /\ InPlace(g)
    BY <1>2, <1>5 DEF Grown, GrantsInTime
  <2> QED
    BY <1>2, <1>4, <1>5, <2>1 DEF NoneAbove
<1>6. GrantsInTime'
  BY <1>1, <1>2, <1>5, Lately DEF GrantsInTime
<1> QED
  BY <1>3, <1>6, MadeStays DEF Grown

LEMMA LoopDone == ASSUME Grown, GrantsDone \/ NextBlocked PROVE Grown'
<1> USE DEF Step, Goto, files, loops, idVars, where
<1>1. CASE GrantsDone
  <2>1. /\ pc \in Late /\ pc \notin Body /\ pc \notin ProcFixed /\ pc' \in AfterGrants
        /\ pc' \notin ProcFixed /\ pc' \notin Blocking /\ pc \notin Early \cup Ending
        /\ pc' \notin Early \cup Ending
    BY <1>1 DEF GrantsDone, Late, Body, Opened, Cloned, ProcFixed, AfterGrants, Blocking, Early, Ending
  <2>2. UNCHANGED << conf, user_cred_, untrusted_cred_, ns, tree, todo, d, dirs >> /\ todo = {}
    BY <1>1 DEF GrantsDone, SetNs
  <2> DEFINE S == {conf.storagedir_, conf.homejaipath_}
  <2>3. block' \in Seq(S)
    <3>1. \A a \in S, b \in S : << a >> \in Seq(S) /\ << a, b >> \in Seq(S)
      OBVIOUS
    <3>2. conf.storagedir_ \in S /\ conf.homejaipath_ \in S
      OBVIOUS
    <3> HIDE DEF S
    <3>3. block' = << conf.storagedir_ >> \/ block' = << conf.storagedir_, conf.homejaipath_ >>
      BY <1>1 DEF GrantsDone
    <3> QED
      BY <3>1, <3>2, <3>3
  <2>4. JailTypeOK'
    BY <2>1, <2>2, <2>3 DEF Grown, JailTypeOK
  <2>5. NoneElse' /\ \A g : InPlace(g)' = InPlace(g)
    BY <2>1, <2>2, SameConf, SameGrants DEF Grown, TreesConfined, NoneElse
  <2> QED
    BY <2>1, <2>2, <2>4, <2>5, AfterKeeps
<1>2. CASE NextBlocked
  <2>1. /\ pc \in Late /\ pc \notin Body /\ pc \notin ProcFixed /\ pc' \in AfterGrants
        /\ pc' \notin ProcFixed /\ pc' \notin Blocking /\ pc \notin Early \cup Ending
        /\ pc' \notin Early \cup Ending /\ pc \in AfterGrants /\ pc \in Blocking
    BY <1>2 DEF NextBlocked, Late, Body, Opened, Cloned, ProcFixed, AfterGrants, Blocking, Early, Ending
  <2>2. UNCHANGED << conf, user_cred_, untrusted_cred_, ns, tree, todo, d, dirs >> /\ todo = {}
    BY <1>2, <2>1 DEF NextBlocked, Grown, GrantsInTime
  <2>3. block' = Tail(block) /\ block # << >> /\ block \in Seq({conf.storagedir_, conf.homejaipath_})
    BY <1>2, <2>1 DEF NextBlocked, Grown, JailTypeOK
  <2>4. JailTypeOK'
    BY <2>1, <2>2, <2>3, HeadTailProperties DEF Grown, JailTypeOK
  <2>5. NoneElse' /\ \A g : InPlace(g)' = InPlace(g)
    BY <2>1, <2>2, SameConf, SameGrants DEF Grown, TreesConfined, NoneElse
  <2> QED
    BY <2>1, <2>2, <2>4, <2>5, AfterKeeps
<1> QED
  BY <1>1, <1>2

LEMMA WithAttr ==
  ASSUME NEW fs, NEW root, NEW S
  PROVE  AddAttr(Mount(fs, root), S) = [fs |-> fs, root |-> root, attr |-> S]
  BY DEF AddAttr, Mount

LEMMA BlockedCovered == ASSUME Grown, NsInv, Cover PROVE Grown'
<1> USE DEF Step, Goto, files, loops, idVars
<1> DEFINE i == Resolve(ns.new, kRunRoot)
           m == AddAttr(Mount(i.fs, i.path), {"ro", "nosuid", "nodev"})
           p == Head(block)
<1>1. /\ pc \in Late /\ pc \notin Body /\ pc \notin ProcFixed /\ pc' \in AfterGrants
      /\ pc' \notin ProcFixed /\ pc \notin Early \cup Ending /\ pc \in InNewNs
      /\ pc' \notin Early \cup Ending /\ pc \in AfterGrants /\ pc \in Blocking
  BY DEF Cover, Late, Body, Opened, Cloned, ProcFixed, AfterGrants, Blocking, Early, Ending, InNewNs
<1>2. UNCHANGED << conf, user_cred_, untrusted_cred_, tree, todo, d, dirs, block >> /\ todo = {}
  BY <1>1 DEF Cover, Grown, GrantsInTime
<1>3. cur = "new"
  BY <1>1 DEF NsInv
<1>4. Attach(m, p)
  BY <1>3 DEF Cover
<1>5. MountsOK(ns.new) /\ NoneElse /\ JailTypeOK
  BY <1>1 DEF Grown, JailTypeOK, TreesConfined
<1>6. p \in {conf.storagedir_, conf.homejaipath_} /\ p \in Paths
  BY <1>1, <1>5, HeadTailProperties, WorldPaths DEF JailTypeOK
<1>7. i.fs \in FileSystem /\ i.path \in Paths
  BY <1>5, FixedPaths, Resolved
<1> HIDE DEF i, p
<1>8. m = [fs |-> i.fs, root |-> i.path, attr |-> {"ro", "nosuid", "nodev"}]
  BY WithAttr
<1>9. m \in MountSet
  BY <1>7, <1>8 DEF MountSet, Flags
<1>10. Confined(At(p, m))
  BY <1>8 DEF At, Confined
<1> HIDE DEF m
<1>11. NoneElse'
  BY <1>1, <1>2, <1>4, <1>5, <1>6, <1>9, <1>10, OneMore
<1>12. ns'.old = ns.old /\ MountsOK(ns'.new)
  BY <1>1, <1>4, <1>5, <1>6, <1>9, Attaching
<1>13. JailTypeOK'
  BY <1>1, <1>2, <1>12 DEF Grown, JailTypeOK
<1>14. \A g \in Granted : InPlace(g) /\ Allowed(g) => InPlace(g)'
  BY <1>1, <1>4, <1>5, <1>6, <1>9, StaysInPlace DEF Allowed
<1> QED
  BY <1>1, <1>2, <1>11, <1>12, <1>13, <1>14, AfterKeeps

\* Unlike all other mounts of the jail, its /proc is writable in every mode.
LEMMA ProcReplaced == ASSUME Grown, NsInv, FixProc PROVE Grown'
<1> USE DEF Step, Goto, files, loops, idVars
<1> DEFINE p == <<"proc">>
           t == TakeOff(ns.new, p, 1)
           m == AddAttr(Mount("jailproc", << >>), {"nosuid", "nodev"})
<1>1. /\ pc \in Late /\ pc \notin Body /\ pc \notin ProcFixed /\ pc' \in AfterGrants
      /\ pc' \in ProcFixed /\ pc \notin Early \cup Ending /\ pc \in InNewNs
      /\ pc' \notin Early \cup Ending /\ pc \in AfterGrants /\ pc' \notin Blocking
  BY DEF FixProc, Late, Body, Opened, Cloned, ProcFixed, AfterGrants, Blocking, Early, Ending, InNewNs
<1>2. UNCHANGED << conf, user_cred_, untrusted_cred_, tree, todo, d, dirs, block >> /\ todo = {}
  BY <1>1 DEF FixProc, Grown, GrantsInTime
<1>3. ns'.new = Append(t, At(p, m)) /\ ns'.old = ns.old
  BY <1>1 DEF FixProc, NsInv
<1>4. MountsOK(ns.new) /\ NoneElse /\ JailTypeOK
  BY <1>1 DEF Grown, JailTypeOK, TreesConfined
<1>5. p \in Paths /\ p # << >>
  BY FixedPaths
<1>6. m = [fs |-> "jailproc", root |-> << >>, attr |-> {"nosuid", "nodev"}]
  BY WithAttr
<1>7. m.fs \in FileSystem /\ m.root \in Paths /\ m.attr \in SUBSET Flags
  <2>1. "jailproc" \in FileSystem
    BY NameAssumption
  <2> QED
    BY <1>6, <2>1, FixedPaths DEF Flags
<1> HIDE DEF m, p
<1>8. /\ MountsOK(t) /\ DOMAIN t = DOMAIN ns.new
      /\ \A i \in DOMAIN ns.new :
           \/ t[i] = ns.new[i]
           \/ contains(p, ns.new[i].at) /\ t[i] = [ns.new[i] EXCEPT !.at = Nowhere]
  BY <1>4, <1>5, TakeOffOK
<1> HIDE DEF t
<1>9. /\ MountsOK(ns'.new) /\ Len(t) \in Nat /\ DOMAIN t = 1 .. Len(t)
      /\ DOMAIN ns'.new = 1 .. Len(t) + 1 /\ ns'.new[Len(t) + 1] = At(p, m)
      /\ \A i \in 1 .. Len(t) : ns'.new[i] = t[i]
  BY <1>3, <1>5, <1>7, <1>8, AppendOK
<1>10. \A i \in DOMAIN ns.new : t[i].at = Nowhere \/ t[i] = ns.new[i]
  <2>1. \A i \in DOMAIN ns.new : ns.new[i] \in Attached
    BY <1>4 DEF MountsOK
  <2> QED
    BY <1>8, <2>1 DEF Attached, Mounts
<1>11. MountsConfined'
  <2>1. ASSUME NEW i \in DOMAIN ns'.new
        PROVE  LET x == ns'.new[i]
               IN  x.at = Nowhere \/ Confined(x) \/ (x.fs = "jailproc" /\ "nosuid" \in x.attr)
    <3>1. CASE i = Len(t) + 1
      BY <3>1, <1>6, <1>9 DEF At
    <3>2. CASE i # Len(t) + 1
      BY <3>2, <1>4, <1>8, <1>9, <1>10, <2>1 DEF NoneElse
    <3> QED
      BY <3>1, <3>2
  <2> QED
    BY <1>2, <2>1, SameConf DEF MountsConfined
<1>12. JailTypeOK'
  BY <1>1, <1>2, <1>3, <1>4, <1>9 DEF JailTypeOK
<1>13. ASSUME NEW g \in Granted, InPlace(g), ~contains(p, g)
       PROVE  InPlace(g)'
  <2>1. PICK n \in DOMAIN ns.new :
          /\ ns.new[n].at = g
          /\ [fs |-> ns.new[n].fs, path |-> ns.new[n].root] = Resolve(ns.old, g)
          /\ "ro" \notin ns.new[n].attr
          /\ \A i \in DOMAIN ns.new : i > n => ~contains(ns.new[i].at, g)
    BY <1>13 DEF InPlace
  <2>2. g \in Paths
    BY <1>4, WorldPaths DEF JailTypeOK
  <2>3. ns'.new[n] = ns.new[n] /\ n \in DOMAIN ns'.new
    BY <1>8, <1>9, <1>13, <2>1
  <2>4. ASSUME NEW i \in DOMAIN ns'.new, i > n
        PROVE  ~contains(ns'.new[i].at, g)
    <3>1. CASE i = Len(t) + 1
      BY <3>1, <1>9, <1>13 DEF At
    <3>2. CASE i # Len(t) + 1
      BY <3>2, <1>8, <1>9, <1>10, <2>1, <2>2, <2>4, PathFacts
    <3> QED
      BY <3>1, <3>2
  <2> QED
    BY <1>3, <2>1, <2>3, <2>4 DEF InPlace, Resolve
<1> QED
  BY <1>1, <1>2, <1>3, <1>4, <1>11, <1>12, <1>13, AfterKeeps DEF p

-----------------------------------------------------------------------------
(* The invariant *)

LEMMA JailInitInv == Init => JailInv
<1> SUFFICES ASSUME Init PROVE JailInv
  OBVIOUS
<1> DEFINE first == At(<< >>, Mount("host", << >>))
<1>1. conf \in Worlds /\ pc = "start" /\ block = << >> /\ todo = {} /\ d = << >>
  BY DEF Init
<1>2. first \in Attached /\ first.at = << >>
  <2>1. "host" \in FileSystem
    BY NameAssumption
  <2>2. first = [at |-> << >>, fs |-> "host", root |-> << >>, attr |-> {}]
    BY DEF At, Mount
  <2> HIDE DEF first
  <2> QED
    BY <2>1, <2>2, FixedPaths DEF Attached, Mounts
<1>3. conf.mounts \in Seq(Attached)
  <2>1. Mounts(Paths) \subseteq Attached
    BY DEF Attached, Mounts
  <2>2. conf.mounts \in Seq(Mounts(Paths))
    BY <1>1, WorldsAssumption
  <2> HIDE DEF Paths
  <2> QED
    BY <2>1, <2>2
<1>4. ns.old = << first >> \o conf.mounts
  BY DEF Init, StartMounts
<1> HIDE DEF first
<1>5. MountsOK(ns.old)
  <2>1. << first >> \in Seq(Attached) /\ Len(<< first >>) = 1 /\ << first >>[1] = first
    BY <1>2
  <2>2. ns.old \in Seq(Attached) /\ Len(ns.old) = 1 + Len(conf.mounts) /\ ns.old[1] = first
    BY <1>3, <1>4, <2>1, ConcatProperties
  <2>3. ns.old # << >>
    BY <1>3, <2>2
  <2> QED
    BY <1>2, <2>2, <2>3 DEF MountsOK
<1>6. tree = [t \in {"tmp", "passwd", "rundir", "home", "src"} |-> NoMount]
  BY DEF Init
<1>7. NoMount \in MountSet /\ OwnMount(NoMount)
  <2>1. "none" \in FileSystem
    BY NameAssumption
  <2> QED
    BY <2>1, FixedPaths DEF NoMount, MountSet, Flags, OwnMount
<1>8. JailTypeOK
  BY <1>1, <1>5, <1>6, <1>7, FixedPaths DEF JailTypeOK, Early, Blocking, MountSet
<1>9. TreesConfined
  BY <1>1, <1>6, <1>7, Soon DEF TreesConfined, Early, Collecting, Placing
<1>10. GrantsInTime
  BY <1>1, Soon DEF GrantsInTime, Early, Collecting, Placing
<1>11. MadeForTheUser
  BY DEF Init, MadeForTheUser
<1> QED
  BY <1>1, <1>8, <1>9, <1>10, <1>11 DEF JailInv, ActsAs

\* Everything but the places that ActsAs is about.
OpenSteps ==
  \/ MakePrivateTmp \/ ClonePasswd \/ MakePrivateRun \/ CloneHome \/ SetAttr \/ OpenOldNs
  \/ MakeBlacklist \/ MakeSandboxHome \/ MountOverlay \/ Unshare \/ MakeReadOnly
  \/ DetachShared \/ PlaceTmp \/ PlaceVarTmp \/ PlaceHome \/ PlacePasswd \/ PlaceRun
  \/ GrantCwd \/ OpenSource \/ CloneSource \/ MakeTarget \/ AttachGrant \/ GrantsDone
  \/ NextBlocked \/ Cover \/ FixProc \/ GrantNext

LEMMA OpenStepsElsewhere == OpenSteps => Elsewhere
  BY DEF OpenSteps, Elsewhere, Step, Goto, Place, MakePrivateTmp, ClonePasswd, MakePrivateRun,
         CloneHome, SetAttr, OpenOldNs, MakeBlacklist, MakeSandboxHome, MountOverlay, Unshare,
         MakeReadOnly, DetachShared, PlaceTmp, PlaceVarTmp, PlaceHome, PlacePasswd, PlaceRun,
         GrantCwd, OpenSource, CloneSource, MakeTarget, AttachGrant, GrantsDone, NextBlocked,
         Cover, FixProc, GrantNext

LEMMA OpenStepsKeep == ASSUME Grown, ActsAs, NsInv, OpenSteps PROVE Grown'
  BY MountingSteps, AttributesSet, OldNsOpened, MakingSteps, UnsharingSteps, SharedDetached,
     PlacingSteps, CwdGranted, SourceSteps, TargetMade, GrantAttached, LoopDone, BlockedCovered,
     ProcReplaced, NextGranted
     DEF OpenSteps

LEMMA JailNextInv == ASSUME PrivInv, NsInv, JailInv, [Next]_vars PROVE JailInv'
<1>1. Grown /\ ActsAs
  BY DEF JailInv, Grown
<1>2. Elsewhere => ActsAs'
  BY DEF Elsewhere, ActsAs
<1>3. CASE CalmSteps
  BY <1>1, <1>2, <1>3, CalmStepsAre, CalmKeeps DEF JailInv, Grown
<1>4. CASE MakeOverlay \/ EnsureSandboxHome \/ LowerForSource \/ LowerForMake \/ ToOld
  BY <1>1, <1>4, LoweringSteps, CalmKeeps DEF JailInv, Grown
<1>5. CASE OpenSteps
  BY <1>1, <1>2, <1>5, OpenStepsElsewhere, OpenStepsKeep DEF JailInv, Grown
<1>6. CASE UNCHANGED vars
  <2>1. UNCHANGED << pc, conf, user_cred_, untrusted_cred_, ids, cur, ns, dirs, tree, todo, d, block >>
    BY <1>6 DEF vars, where, files, loops, idVars, privVars
  <2>2. JailTypeOK' /\ ActsAs'
    BY <1>1, <2>1 DEF Grown, JailTypeOK, ActsAs, euid, sbcred
  <2>3. TreesConfined'
    BY <1>1, <2>1, SameConf DEF Grown, TreesConfined, NoneElse, MountsConfined
  <2>4. GrantsInTime'
    BY <1>1, <2>1, SameConf, SameGrants DEF Grown, GrantsInTime, Ahead, NoneAbove
  <2> QED
    BY <1>1, <2>1, <2>2, <2>3, <2>4, MadeStays DEF JailInv, Grown
<1>7. Next => \/ CalmSteps \/ OpenSteps
              \/ MakeOverlay \/ EnsureSandboxHome \/ LowerForSource \/ LowerForMake \/ ToOld
  BY DEF Next, CalmSteps, OpenSteps
<1> QED
  BY <1>3, <1>4, <1>5, <1>6, <1>7

(***************************************************************************)
(* NsInv in every reachable state.                                         *)
(***************************************************************************)
LEMMA NsInvariant == Spec => []NsInv
<1>1. Init => NsInv
  BY NsInitInv
<1>2. NsInv /\ [Next]_vars => NsInv'
  BY NsNextInv, NsStutters
<1> QED
  BY <1>1, <1>2, PTL DEF Spec

(***************************************************************************)
(* JailInv in every reachable state: what has been found out about each    *)
(* granted directory when it is mounted, what the mounts that make_mnt_ns  *)
(* holds show, and who makes directories (make_mnt_ns).                    *)
(***************************************************************************)
THEOREM JailInvariant == Spec => []JailInv
<1>1. Init => JailInv
  BY JailInitInv
<1>2. PrivInv /\ NsInv /\ JailInv /\ [Next]_vars => JailInv'
  BY JailNextInv
<1> QED
  BY <1>1, <1>2, PrivInvariant, NsInvariant, PTL DEF Spec

(***************************************************************************)
(* Every granted directory is in the jail at its own path, writable, and   *)
(* was the user's to grant, in every world: however the granted            *)
(* directories lie in each other, and whatever is mounted in them or above *)
(* (make_mnt_ns, fix_proc).                                                *)
(***************************************************************************)
THEOREM AlwaysAsGiven == Spec => []GrantsAsGiven
<1>1. ASSUME JailInv
      PROVE  GrantsAsGiven
  <2> SUFFICES ASSUME Program, NEW g \in Granted, ~contains(<<"proc">>, g)
               PROVE  /\ Resolve(ns.new, g) = Resolve(ns.old, g)
                      /\ "ro" \notin AttrOf(ns.new, g)
                      /\ CanFind(ns.old, user_cred_.uid, g) /\ OwnedBy(ns.old, g, {"user"})
    BY DEF GrantsAsGiven
  <2>1. /\ pc \in Late /\ pc \in AfterGrants /\ pc \notin Body /\ pc \notin Early \cup Ending
    BY DEF Program, Late, AfterGrants, Body, Opened, Cloned, Early, Ending
  <2>2. TheUsersOwn(g) /\ InPlace(g)
    BY <1>1, <2>1 DEF JailInv, GrantsInTime, Ahead
  <2>3. MountsOK(ns.new) /\ MountsOK(ns.old) /\ g \in Paths
    BY <1>1, <2>1, WorldPaths DEF JailInv, JailTypeOK
  <2>4. PICK n \in DOMAIN ns.new :
          /\ ns.new[n].at = g
          /\ [fs |-> ns.new[n].fs, path |-> ns.new[n].root] = Resolve(ns.old, g)
          /\ "ro" \notin ns.new[n].attr
          /\ \A i \in DOMAIN ns.new : i > n => ~contains(ns.new[i].at, g)
    BY <2>2 DEF InPlace
  <2>5. n \in 1 .. Len(ns.new) /\ DOMAIN ns.new = 1 .. Len(ns.new) /\ ns.new \in Seq(Attached)
        /\ ns.new[n].root \in Paths
    <3>1. ns.new \in Seq(Attached) /\ DOMAIN ns.new = 1 .. Len(ns.new)
      BY <2>3 DEF MountsOK
    <3>2. ns.new[n] \in Attached
      BY <3>1, <2>4
    <3> QED
      BY <2>4, <3>1, <3>2 DEF Attached, Mounts
  <2>6. MountOf(ns.new, g) = n
    BY <2>3, <2>4, <2>5, PathFacts, MountOfIs
  <2>7. ns.new[n].root \o Rest(g, g) = ns.new[n].root
    BY <2>3, <2>5, PathFacts, ConcatEmptySeq DEF Paths
  <2> QED
    BY <2>2, <2>4, <2>6, <2>7 DEF Resolve, AttrOf, TheUsersOwn
<1> QED
  BY <1>1, JailInvariant, PTL

(***************************************************************************)
(* Nothing that make_mnt_ns makes in the user's storage is root's or the   *)
(* untrusted account's (ensure_dir under asuser, and the id map).          *)
(***************************************************************************)
THEOREM AlwaysTheUsers == Spec => []MadeForTheUser
<1>1. JailInv => MadeForTheUser
  BY DEF JailInv
<1> QED
  BY <1>1, JailInvariant, PTL

(***************************************************************************)
(* The part of JailInPlace that does not depend on the machine: no mount   *)
(* in the jail honours set-user-id bits, and none is writable but the      *)
(* jail's own and the granted directories, through the id map in a strict  *)
(* jail (the mount_setattr calls of make_mnt_ns, and fix_proc).            *)
(***************************************************************************)
THEOREM AlwaysConfined == Spec => [](Program => MountsConfined)
<1>1. JailInv => (Program => MountsConfined)
  BY DEF JailInv, TreesConfined, Program, ProcFixed
<1> QED
  BY <1>1, JailInvariant, PTL

-----------------------------------------------------------------------------
(* The places of the jail's own directories *)

\* What the steps find that change no mount, and only add directories.
Still ==
  /\ UNCHANGED << conf, ns >>
  /\ conf.dirs \subseteq dirs => conf.dirs \subseteq dirs'
  /\ \A t \in {"tmp", "rundir", "home"} : tree'[t] = tree[t]
  /\ pc' \in BeforeRunDir => pc \in BeforeRunDir
  /\ pc' \in Early => pc \in Early
  /\ pc' \notin {"private", "detach"}
  /\ pc' \in Collecting \ {"tmp"} => pc \in Collecting \ {"tmp"}
  /\ pc' \in Collecting \ BeforeRunDir => pc \in Collecting \ BeforeRunDir
  /\ pc' \notin {"setattr", "unshare"} \cup Placing
  /\ pc' \in AfterDetach => pc \in RunTaken
  /\ pc' \in ProcFixed => pc \in ProcFixed
  /\ pc' \in MakingOverlay => pc \in MakingOverlay \/ conf.mode_ = kCasual

StillSteps ==
  \/ CalmSteps
  \/ MakeOverlay \/ EnsureSandboxHome \/ LowerForSource \/ LowerForMake \/ ToOld
  \/ OpenOldNs \/ GrantCwd \/ GrantNext \/ GrantsDone \/ NextBlocked
  \/ MakeBlacklist \/ MakeSandboxHome \/ MakeTarget \/ OpenSource \/ CloneSource

\* The places in the code are apart where the invariant needs them to be.
LEMMA PlaceSets ==
  /\ RunTaken \subseteq HomeTaken /\ HomeTaken \subseteq VarTmpTaken
  /\ VarTmpTaken \subseteq TmpTaken /\ TmpTaken \subseteq AfterDetach
  /\ ProcFixed \subseteq RunTaken /\ Late \subseteq RunTaken
  /\ AfterDetach \cap (Early \cup BeforeRunDir \cup {"private", "detach"}) = {}
  /\ BeforeRunDir \subseteq Early
  BY DEF RunTaken, HomeTaken, VarTmpTaken, TmpTaken, AfterDetach, BeforeRunDir, Late, Body, Opened,
         Cloned, AfterGrants, ProcFixed, Early

LEMMA SamePlaces ==
  ASSUME UNCHANGED conf
  PROVE  /\ StartMounts' = StartMounts /\ HasRunDir' = HasRunDir /\ HomeMount' = HomeMount
         /\ Granted' = Granted /\ PlacesApart' = PlacesApart
         /\ RunRootOnce(ns.old)' = RunRootOnce(ns'.old)
         /\ RunRootOnce(ns.new)' = RunRootOnce(ns'.new)
         /\ RunRootBare(ns.new)' = RunRootBare(ns'.new)
<1>1. StartMounts' = StartMounts /\ HomeMount' = HomeMount /\ Granted' = Granted
  BY DEF StartMounts, HomeMount, Granted, SandboxHome
<1>2. HasRunDir' = HasRunDir /\ PlacesApart' = PlacesApart
  BY <1>1 DEF HasRunDir, PlacesApart
<1>3. /\ RunRootOnce(ns.old)' = RunRootOnce(ns'.old)
      /\ RunRootOnce(ns.new)' = RunRootOnce(ns'.new)
      /\ RunRootBare(ns.new)' = RunRootBare(ns'.new)
  BY <1>1 DEF RunRootOnce, RunRootBare, FoundAtStart
<1> QED
  BY <1>1, <1>2, <1>3

Own == RunRootInv /\ TreesHeld /\ PlacesTaken

LEMMA StillKeeps == ASSUME Own, Still PROVE Own'
<1> USE DEF Own
<1>1. RunRootInv'
  BY SamePlaces, PlaceSets DEF Still, RunRootInv
<1>2. TreesHeld'
  BY SamePlaces DEF Still, TreesHeld, Holds
<1>3. PlacesTaken'
  BY SamePlaces, PlaceSets DEF Still, PlacesTaken, Taken
<1> QED
  BY <1>1, <1>2, <1>3

LEMMA StillStepsAre == ASSUME tree \in Trees, StillSteps PROVE Still
<1> USE DEF Step, Goto, Same, where, files, loops, idVars, Still, Early, Ending, BeforeRunDir,
            MakingOverlay, RunTaken, AfterDetach, TmpTaken, VarTmpTaken, HomeTaken,
            Collecting, Placing, Late, Body, Opened, Cloned, AfterGrants, ProcFixed
<1>1. CASE NoPasswd
  BY <1>1 DEF NoPasswd
<1>2. CASE ReuseOverlay
  BY <1>2 DEF ReuseOverlay
<1>3. CASE RefuseHome
  BY <1>3 DEF RefuseHome
<1>4. CASE Compare
  BY <1>4 DEF Compare
<1>5. CASE OpenTarget
  BY <1>5 DEF OpenTarget
<1>6. CASE CheckTarget
  BY <1>6 DEF CheckTarget
<1>7. CASE OpenBlocked
  BY <1>7 DEF OpenBlocked
<1>8. CASE MakeReal
  BY <1>8 DEF MakeReal
<1>9. CASE Chdir
  BY <1>9 DEF Chdir
<1>10. CASE Throw
  BY <1>10 DEF Throw
<1>11. CASE ExitNow
  BY <1>11 DEF ExitNow
<1>12. CASE Unwind
  BY <1>12 DEF Unwind
<1>13. CASE Caught
  BY <1>13 DEF Caught
<1>14. CASE OpenOldNs
  BY <1>14 DEF OpenOldNs
<1>15. CASE GrantCwd
  BY <1>15 DEF GrantCwd
<1>16. CASE GrantNext
  BY <1>16 DEF GrantNext
<1>17. CASE NextBlocked
  BY <1>17 DEF NextBlocked
<1>18. CASE MakeBlacklist
  BY <1>18 DEF MakeBlacklist
<1>19. CASE MakeSandboxHome
  BY <1>19 DEF MakeSandboxHome
<1>20. CASE MakeTarget
  BY <1>20 DEF MakeTarget
<1>21. CASE ToNew
  BY <1>21 DEF ToNew, SetNs
<1>22. CASE ReturnNs
  BY <1>22 DEF ReturnNs, SetNs
<1>23. CASE ChildSetNs
  BY <1>23 DEF ChildSetNs, SetNs
<1>24. CASE UnwindNs
  BY <1>24 DEF UnwindNs, SetNs
<1>25. CASE ToOld
  BY <1>25 DEF ToOld, SetNs
<1>26. CASE GrantsDone
  BY <1>26 DEF GrantsDone, SetNs
<1>27. CASE MakeIdMapNs
  BY <1>27 DEF MakeIdMapNs, IdNext, ForkIdmap, WriteGidMap, WriteUidMap, IdFail
<1>28. CASE ReadPasswd
  BY <1>28 DEF ReadPasswd, Lower
<1>29. CASE ReopenOverlay
  BY <1>29 DEF ReopenOverlay, Lower
<1>30. CASE LowerForTarget
  BY <1>30 DEF LowerForTarget, Lower
<1>31. CASE LowerForBlock
  BY <1>31 DEF LowerForBlock, Lower
<1>32. CASE MainAsUser
  BY <1>32 DEF MainAsUser, Lower
<1>33. CASE MakeOverlay
  BY <1>33 DEF MakeOverlay, Lower
<1>34. CASE EnsureSandboxHome
  BY <1>34 DEF EnsureSandboxHome, Lower
<1>35. CASE LowerForSource
  BY <1>35 DEF LowerForSource, Lower
<1>36. CASE LowerForMake
  BY <1>36 DEF LowerForMake, Lower
<1>37. CASE ResetPasswd
  BY <1>37 DEF ResetPasswd, Reset
<1>38. CASE MakeWork
  BY <1>38 DEF MakeWork, Reset
<1>39. CASE ResetSource
  BY <1>39 DEF ResetSource, Reset
<1>40. CASE ResetBeforeMake
  BY <1>40 DEF ResetBeforeMake, Reset
<1>41. CASE ResetTarget
  BY <1>41 DEF ResetTarget, Reset
<1>42. CASE ResetBlocked
  BY <1>42 DEF ResetBlocked, Reset
<1>43. CASE MainReset
  BY <1>43 DEF MainReset, Reset
<1>44. CASE ReturnOverlay
  BY <1>44 DEF ReturnOverlay, Leave
<1>45. CASE ReturnSandboxHome
  BY <1>45 DEF ReturnSandboxHome, Leave
<1>46. CASE SkipBlocked
  BY <1>46 DEF SkipBlocked, Leave
<1>47. CASE OpenSource
  BY <1>47 DEF OpenSource, Hold, Trees
<1>48. CASE CloneSource
  BY <1>48 DEF CloneSource, Hold, Trees
<1> HIDE DEF Step, Goto, Same, where, files, loops, idVars, Still, Early, Ending, BeforeRunDir,
            MakingOverlay, RunTaken, AfterDetach, TmpTaken, VarTmpTaken, HomeTaken,
            Collecting, Placing, Late, Body, Opened, Cloned, AfterGrants, ProcFixed
<1> QED
  BY <1>1, <1>2, <1>3, <1>4, <1>5, <1>6, <1>7, <1>8, <1>9, <1>10, <1>11, <1>12, <1>13, <1>14, <1>15, <1>16,
     <1>17, <1>18, <1>19, <1>20, <1>21, <1>22, <1>23, <1>24, <1>25, <1>26, <1>27, <1>28, <1>29, <1>30, <1>31, <1>32,
     <1>33, <1>34, <1>35, <1>36, <1>37, <1>38, <1>39, <1>40, <1>41, <1>42, <1>43, <1>44, <1>45, <1>46, <1>47, <1>48
     
     DEF StillSteps, CalmSteps

-----------------------------------------------------------------------------
(* The detached mounts *)

\* Before the new namespace there is nothing to be covered.
LEMMA BeforeKeeps ==
  ASSUME Own, UNCHANGED conf, conf.dirs \subseteq dirs', pc' \in Early, RunRootOnce(ns'.old),
         pc' \in BeforeRunDir => ns'.old = StartMounts,
         pc' \in Collecting \ {"tmp"} => tree'.tmp.fs = "tmp" /\ tree'.tmp.root = << >>,
         pc' \in Collecting \ BeforeRunDir /\ HasRunDir /\ xdgrun \notin Granted =>
           tree'.rundir.fs = "rundir" /\ tree'.rundir.root = << >>,
         pc' \in {"setattr", "unshare"} =>
           tree'.home.fs = HomeMount.fs /\ tree'.home.root = HomeMount.root
  PROVE  Own'
<1>1. /\ pc' \notin AfterDetach /\ pc' \notin {"private", "detach"} /\ pc' \notin Placing
      /\ pc' \notin RunTaken /\ pc' \notin HomeTaken /\ pc' \notin VarTmpTaken
      /\ pc' \notin TmpTaken /\ pc' \notin ProcFixed
  <2>1. pc' \notin {"private", "detach"} /\ pc' \notin Placing
    BY DEF Early, Placing
  <2> QED
    BY <2>1, PlaceSets
<1>2. RunRootInv'
  BY <1>1, SamePlaces DEF RunRootInv
<1>3. TreesHeld'
  BY <1>1, SamePlaces DEF TreesHeld, Holds, Mount
<1>4. PlacesTaken'
  BY <1>1 DEF PlacesTaken
<1> QED
  BY <1>2, <1>3, <1>4 DEF Own

LEMMA TreeSteps ==
  ASSUME Own, Grown, MakePrivateTmp \/ ClonePasswd \/ MakePrivateRun \/ CloneHome \/ SetAttr
  PROVE  Own'
<1> USE DEF Step, Goto, loops, where, idVars, Early, Collecting, BeforeRunDir
<1>1. /\ tree \in Trees /\ conf.dirs \subseteq dirs
      /\ pc \in Early => RunRootOnce(ns.old)
      /\ pc \in BeforeRunDir => ns.old = StartMounts
      /\ pc \in Collecting \ {"tmp"} => tree.tmp.fs = "tmp" /\ tree.tmp.root = << >>
      /\ pc \in Collecting \ BeforeRunDir /\ HasRunDir /\ xdgrun \notin Granted =>
           tree.rundir.fs = "rundir" /\ tree.rundir.root = << >>
      /\ pc \in {"setattr", "unshare"} =>
           tree.home.fs = HomeMount.fs /\ tree.home.root = HomeMount.root
  BY DEF Own, RunRootInv, TreesHeld, Holds, Mount, Grown, JailTypeOK, Trees
<1>2. CASE MakePrivateTmp
  BY <1>1, <1>2, BeforeKeeps DEF MakePrivateTmp, Hold, Trees, Mount
<1>3. CASE ClonePasswd
  BY <1>1, <1>3, BeforeKeeps DEF ClonePasswd, Hold, Trees, Mount
<1>4. CASE MakePrivateRun
  <2>1. HasRunDir /\ xdgrun \notin Granted => xdgrun \notin todo /\ Exists(ns.old, xdgrun)
    <3>1. ns.old = StartMounts /\ todo = conf.grant_directories_
      BY <1>1, <1>4 DEF MakePrivateRun, Grown, GrantsInTime
    <3> QED
      BY <1>1, <3>1 DEF HasRunDir, Exists, Entry, Granted
  <2> QED
    BY <1>1, <1>4, <2>1, BeforeKeeps DEF MakePrivateRun, Hold, Trees, Mount
<1>5. CASE CloneHome
  BY <1>1, <1>5, BeforeKeeps DEF CloneHome, Hold, Trees
<1>6. CASE SetAttr
  <2>1. \A t \in {"tmp", "rundir", "home"} : tree'[t].fs = tree[t].fs /\ tree'[t].root = tree[t].root
    BY <1>1, <1>6 DEF SetAttr, Trees, AddAttr
  <2> QED
    BY <1>1, <1>6, <2>1, BeforeKeeps DEF SetAttr
<1> QED
  BY <1>2, <1>3, <1>4, <1>5, <1>6

-----------------------------------------------------------------------------
(* The new namespace *)

LEMMA FirstNames ==
  ASSUME NEW q \in Paths, NEW p \in Paths, contains(q, p), q # << >>
  PROVE  q[1] = p[1]
<1>1. q \in Seq(Name) /\ p \in Seq(Name) /\ Len(q) \in Nat /\ Len(p) \in Nat /\ Len(q) >= 1
  BY DEF Paths
<1>2. Len(q) <= Len(p) /\ SubSeq(q, 1, Len(q)) = SubSeq(p, 1, Len(q))
  BY DEF contains, IsPrefix
<1>3. SubSeq(q, 1, Len(q))[1] = q[1] /\ SubSeq(p, 1, Len(q))[1] = p[1]
  BY <1>1, <1>2
<1> QED
  BY <1>2, <1>3

LEMMA PlacesDiffer ==
  /\ ~contains(RunHome, kRunRoot)
  /\ ~contains(<<"tmp">>, kRunRoot)
  /\ \A p \in {<<"tmp">>, kRunRoot} : ~contains(<<"var", "tmp">>, p)
  /\ \A p \in {<<"tmp">>, <<"var", "tmp">>, kRunRoot} :
       ~contains(<<"etc", "passwd">>, p) /\ ~contains(xdgrun, p) /\ ~contains(<<"proc">>, p)
  /\ ~contains(<<"proc">>, xdgrun)
<1> DEFINE tmp == <<"tmp">> vartmp == <<"var", "tmp">> passwd == <<"etc", "passwd">>
           proc == <<"proc">>
<1>1. /\ RunHome # << >> /\ kRunRoot # << >> /\ xdgrun # << >>
      /\ tmp # << >> /\ vartmp # << >> /\ passwd # << >> /\ proc # << >>
  BY DEF RunHome, kRunRoot, xdgrun
<1>2. /\ kRunRoot[1] = "run" /\ xdgrun[1] = "run" /\ tmp[1] = "tmp" /\ vartmp[1] = "var"
      /\ passwd[1] = "etc" /\ proc[1] = "proc"
  BY DEF kRunRoot, xdgrun
<1>3. {RunHome, kRunRoot, xdgrun, tmp, vartmp, passwd, proc} \subseteq Paths
  BY FixedPaths
<1> HIDE DEF tmp, vartmp, passwd, proc
<1>4. ~contains(RunHome, kRunRoot)
  BY DEF contains, IsPrefix, RunHome, kRunRoot
<1>5. ~contains(tmp, kRunRoot)
  BY <1>1, <1>2, <1>3, FirstNames
<1>6. \A p \in {tmp, kRunRoot} : ~contains(vartmp, p)
  BY <1>1, <1>2, <1>3, FirstNames
<1>7. \A p \in {tmp, vartmp, kRunRoot} : ~contains(passwd, p)
  BY <1>1, <1>2, <1>3, FirstNames
<1>8. ~contains(xdgrun, tmp) /\ ~contains(xdgrun, vartmp) /\ ~contains(xdgrun, kRunRoot)
  BY DEF contains, IsPrefix, xdgrun, kRunRoot, tmp, vartmp
<1>9. \A p \in {tmp, vartmp, kRunRoot, xdgrun} : ~contains(proc, p)
  BY <1>1, <1>2, <1>3, FirstNames
<1> QED
  BY <1>4, <1>5, <1>6, <1>7, <1>8, <1>9 DEF tmp, vartmp, passwd, proc

\* Taking a mount off adds none.
LEMMA DetachedOnly ==
  ASSUME NEW s, MountsOK(s), NEW p \in Paths, p # << >>
  PROVE  /\ MountsOK(Detached(s, p)) /\ DOMAIN Detached(s, p) = DOMAIN s
         /\ \A i \in DOMAIN s : \/ Detached(s, p)[i] = s[i]
                               \/ Detached(s, p)[i].at = Nowhere
<1> DEFINE top == SelectLastInSeq(s, LAMBDA m : m.at = p)
<1>1. Detached(s, p) = s \/ Detached(s, p) = TakeOff(s, p, top)
  BY DEF Detached
<1> HIDE DEF top
<1>2. \A i \in DOMAIN s : s[i] \in Attached
  BY DEF MountsOK
<1>3. \A i \in DOMAIN s : [s[i] EXCEPT !.at = Nowhere].at = Nowhere
  BY <1>2 DEF Attached, Mounts
<1>4. /\ MountsOK(TakeOff(s, p, top)) /\ DOMAIN TakeOff(s, p, top) = DOMAIN s
      /\ \A i \in DOMAIN s : \/ TakeOff(s, p, top)[i] = s[i]
                            \/ TakeOff(s, p, top)[i] = [s[i] EXCEPT !.at = Nowhere]
  BY TakeOffOK
<1> QED
  BY <1>1, <1>3, <1>4

\* umount2 of /run/jai uncovers what was there before jai.
LEMMA RunRootDetached ==
  ASSUME NEW s, MountsOK(s), RunRootOnce(s)
  PROVE  RunRootBare(Detached(s, kRunRoot))
<1> DEFINE I == {i \in 1 .. Len(s) : s[i].at = kRunRoot}
           top == SelectLastInSeq(s, LAMBDA m : m.at = kRunRoot)
           t == Detached(s, kRunRoot)
<1>1. s \in Seq(Attached) /\ Len(s) \in Nat /\ DOMAIN s = 1 .. Len(s)
  BY DEF MountsOK
<1>2. kRunRoot \in Paths /\ kRunRoot # << >> /\ contains(kRunRoot, kRunRoot)
  BY FixedPaths, PathFacts DEF kRunRoot
<1>3. /\ DOMAIN t = DOMAIN s
      /\ \A i \in DOMAIN s : t[i] = s[i] \/ t[i].at = Nowhere
  BY <1>2, DetachedOnly
<1>4. ASSUME NEW i \in DOMAIN s, s[i].at = kRunRoot
      PROVE  t[i].at = Nowhere
  <2>1. I # {} /\ I \in SUBSET (1 .. Len(s))
    BY <1>1, <1>4
  <2>2. Max(I) \in I
    BY <1>1, <2>1, LargestExists
  <2>3. top = Max(I)
    BY <2>1 DEF SelectLastInSeq
  <2>4. top = i /\ top # 0
    BY <1>1, <1>4, <2>2, <2>3 DEF RunRootOnce
  <2>5. t = TakeOff(s, kRunRoot, top)
    BY <2>4 DEF Detached
  <2> HIDE DEF top, t, I
  <2>6. t[i] = [s[i] EXCEPT !.at = Nowhere] /\ s[i] \in Attached
    BY <1>1, <1>2, <1>4, <2>4, <2>5 DEF TakeOff
  <2> QED
    BY <2>6 DEF Attached, Mounts
<1> HIDE DEF t
<1>5. ASSUME NEW i \in DOMAIN t, contains(t[i].at, kRunRoot)
      PROVE  t[i].at # kRunRoot /\ FoundAtStart(t[i])
  <2>1. t[i].at # Nowhere
    BY <1>2, <1>5, PathFacts
  <2> QED
    BY <1>3, <1>4, <1>5, <2>1 DEF RunRootOnce
<1> QED
  BY <1>5 DEF RunRootBare, t

LEMMA BareStays ==
  ASSUME NEW s, MountsOK(s), RunRootBare(s), NEW p \in Paths, p # << >>
  PROVE  RunRootBare(Detached(s, p))
<1> DEFINE t == Detached(s, p)
<1>1. /\ DOMAIN t = DOMAIN s
      /\ \A i \in DOMAIN s : t[i] = s[i] \/ t[i].at = Nowhere
  BY DetachedOnly
<1>2. ~contains(Nowhere, kRunRoot)
  BY FixedPaths, PathFacts
<1> HIDE DEF t
<1>3. \A i \in DOMAIN t : contains(t[i].at, kRunRoot) => t[i].at # kRunRoot /\ FoundAtStart(t[i])
  BY <1>1, <1>2 DEF RunRootBare
<1> QED
  BY <1>3 DEF RunRootBare, t

LEMMA OverlayKeeps == ASSUME Own, Grown, NsInv, MountOverlay PROVE Own'
<1> DEFINE m == Mount("overlay", << >>)
<1>1. /\ pc \in Early /\ pc' \in Early /\ pc \in Collecting \ {"tmp"}
      /\ pc \notin BeforeRunDir /\ pc' \notin BeforeRunDir /\ pc \in Collecting \ BeforeRunDir
      /\ pc' \notin {"setattr", "unshare"} /\ pc \notin Ending \cup {"private"}
      /\ UNCHANGED << conf, tree >> /\ dirs \subseteq dirs'
  BY DEF MountOverlay, Step, Goto, Early, BeforeRunDir, Collecting, Ending
<1>2. ns'.old = Append(ns.old, At(RunHome, m))
  BY <1>1 DEF MountOverlay, Change, NsInv
<1>3. /\ MountsOK(ns.old) /\ m.fs \in FileSystem /\ m.root \in Paths /\ m.attr \in SUBSET Flags
      /\ RunRootOnce(ns.old) /\ conf.dirs \subseteq dirs
  <2>1. "overlay" \in FileSystem
    BY NameAssumption
  <2> QED
    BY <1>1, <2>1, FixedPaths DEF Own, RunRootInv, TreesHeld, Grown, JailTypeOK, Mount, Flags
<1>4. ~contains(RunHome, kRunRoot) /\ RunHome # kRunRoot /\ At(RunHome, m).at = RunHome
  BY PlacesDiffer, PathFacts, FixedPaths DEF At
<1> HIDE DEF m
<1>5. RunRootOnce(ns'.old)
  <2>1. /\ Len(ns.old) \in Nat /\ DOMAIN ns.old = 1 .. Len(ns.old)
        /\ DOMAIN ns'.old = 1 .. Len(ns.old) + 1 /\ ns'.old[Len(ns.old) + 1] = At(RunHome, m)
        /\ \A i \in 1 .. Len(ns.old) : ns'.old[i] = ns.old[i]
    BY <1>2, <1>3, AppendOK, FixedPaths
  <2>2. \A i \in DOMAIN ns'.old :
          contains(ns'.old[i].at, kRunRoot) => i \in DOMAIN ns.old /\ ns'.old[i] = ns.old[i]
    BY <1>4, <2>1
  <2>3. contains(kRunRoot, kRunRoot)
    BY PathFacts, FixedPaths
  <2> QED
    BY <1>3, <2>2, <2>3 DEF RunRootOnce
<1> QED
  BY <1>1, <1>3, <1>5, BeforeKeeps DEF Own, TreesHeld, Holds, Mount

\* From the copy of the namespace to the detached mounts at their places.
LEMMA DetachKeeps ==
  ASSUME Own, UNCHANGED << conf, tree, dirs >>, pc \in {"unshare", "private", "detach"},
         pc' \in {"private", "detach", "place_tmp"},
         pc' # "place_tmp" => RunRootOnce(ns'.new), pc' = "place_tmp" => RunRootBare(ns'.new)
  PROVE  Own'
<1>1. /\ pc' \notin Early /\ pc' \notin BeforeRunDir /\ pc' \notin TmpTaken
      /\ pc' \notin VarTmpTaken /\ pc' \notin HomeTaken /\ pc' \notin RunTaken /\ pc' \notin ProcFixed
      /\ pc' \in AfterDetach => pc' = "place_tmp"
      /\ pc \in Collecting \ {"tmp"} /\ pc \in Collecting \ BeforeRunDir
      /\ pc \in {"setattr", "unshare", "private"} \cup Placing
  BY DEF Early, BeforeRunDir, AfterDetach, TmpTaken, VarTmpTaken, HomeTaken, RunTaken, ProcFixed,
         Late, Body, Opened, Cloned, AfterGrants, Collecting, Placing
<1>2. RunRootInv'
  BY <1>1, SamePlaces DEF RunRootInv
<1>3. TreesHeld'
  BY <1>1, SamePlaces DEF Own, TreesHeld, Holds
<1>4. PlacesTaken'
  BY <1>1 DEF PlacesTaken
<1> QED
  BY <1>2, <1>3, <1>4 DEF Own

LEMMA DetachSteps ==
  ASSUME Own, Grown, NsInv, Unshare \/ MakeReadOnly \/ DetachShared
  PROVE  Own'
<1> USE DEF Step, Goto, files, loops, where
<1>1. CASE Unshare
  <2>1. ns'.new = ns.old /\ RunRootOnce(ns.old)
    BY <1>1 DEF Unshare, NsInv, Own, RunRootInv, Early
  <2> QED
    BY <1>1, <2>1, DetachKeeps DEF Unshare
<1>2. CASE MakeReadOnly
  <2> DEFINE new == [i \in DOMAIN ns.new |-> AddAttr(ns.new[i], {"ro", "nosuid"})]
  <2>1. ns'.new = new
    BY <1>2 DEF MakeReadOnly, NsInv
  <2>2. MountsOK(ns.new) /\ RunRootOnce(ns.new)
    BY <1>2 DEF MakeReadOnly, Own, RunRootInv, Grown, JailTypeOK, Early, Ending
  <2>3. \A i \in DOMAIN ns.new :
          new[i].at = ns.new[i].at /\ new[i].fs = ns.new[i].fs /\ new[i].root = ns.new[i].root
    <3>1. \A i \in DOMAIN ns.new : ns.new[i] \in Attached
      BY <2>2 DEF MountsOK
    <3> QED
      BY <3>1 DEF AddAttr, Attached, Mounts
  <2>4. DOMAIN new = DOMAIN ns.new
    OBVIOUS
  <2> HIDE DEF new
  <2>5. RunRootOnce(new)
    BY <2>2, <2>3, <2>4 DEF RunRootOnce, FoundAtStart
  <2> QED
    BY <1>2, <2>1, <2>5, DetachKeeps DEF MakeReadOnly
<1>3. CASE DetachShared
  <2> DEFINE a == Detached(ns.new, kRunRoot)
             b == Detached(a, <<"tmp">>)
             c == Detached(b, <<"var", "tmp">>)
  <2>1. ns'.new = c
    BY <1>3 DEF DetachShared, NsInv, InNewNs, Ending, Change
  <2>2. MountsOK(ns.new) /\ RunRootOnce(ns.new)
    BY <1>3 DEF DetachShared, Own, RunRootInv, Grown, JailTypeOK, Early, Ending
  <2>3. kRunRoot # << >> /\ <<"tmp">> # << >> /\ <<"var", "tmp">> # << >>
    BY DEF kRunRoot
  <2> HIDE DEF a, b, c
  <2>4. MountsOK(a) /\ RunRootBare(a)
    BY <2>2, <2>3, DetachedOnly, RunRootDetached, FixedPaths DEF a
  <2>5. MountsOK(b) /\ RunRootBare(b)
    BY <2>3, <2>4, DetachedOnly, BareStays, FixedPaths DEF b
  <2>6. RunRootBare(c)
    BY <2>3, <2>5, BareStays, FixedPaths DEF c
  <2> QED
    BY <1>3, <2>1, <2>6, DetachKeeps DEF DetachShared
<1> QED
  BY <1>1, <1>2, <1>3

-----------------------------------------------------------------------------
(* Mounts in the jail *)

\* A mount is on top at its path, and leaves alone what it is not above.
LEMMA OnTopAfter ==
  ASSUME NsInv, JailTypeOK, pc \in InNewNs, NEW q \in Paths, NEW m \in MountSet, Attach(m, q)
  PROVE  /\ \A x : m.fs = x.fs /\ m.root = x.root => OnTop(ns'.new, q, x)
         /\ \A p, x : ~contains(q, p) /\ OnTop(ns.new, p, x) => OnTop(ns'.new, p, x)
         /\ ~contains(q, kRunRoot) /\ RunRootBare(ns.new) => RunRootBare(ns'.new)
<1>1. At(q, m).at = q /\ At(q, m).fs = m.fs /\ At(q, m).root = m.root
  BY DEF At
<1>2. /\ DOMAIN ns.new = 1 .. Len(ns.new) /\ Len(ns.new) \in Nat
      /\ DOMAIN ns'.new = 1 .. Len(ns.new) + 1
      /\ ns'.new[Len(ns.new) + 1] = At(q, m)
      /\ \A i \in 1 .. Len(ns.new) : ns'.new[i] = ns.new[i]
  BY Attaching
<1>3. ASSUME NEW x, m.fs = x.fs, m.root = x.root
      PROVE  OnTop(ns'.new, q, x)
  <2>1. /\ Len(ns.new) + 1 \in DOMAIN ns'.new
        /\ \A i \in DOMAIN ns'.new : ~ (i > Len(ns.new) + 1)
    BY <1>2
  <2> QED
    BY <1>1, <1>2, <1>3, <2>1 DEF OnTop
<1>4. ASSUME NEW p, NEW x, ~contains(q, p), OnTop(ns.new, p, x)
      PROVE  OnTop(ns'.new, p, x)
  <2>1. PICK n \in DOMAIN ns.new :
          /\ ns.new[n].at = p /\ ns.new[n].fs = x.fs /\ ns.new[n].root = x.root
          /\ \A i \in DOMAIN ns.new : i > n => ~contains(ns.new[i].at, p)
    BY <1>4 DEF OnTop
  <2>2. n \in DOMAIN ns'.new /\ ns'.new[n] = ns.new[n]
    BY <1>2
  <2>3. ASSUME NEW i \in DOMAIN ns'.new, i > n
        PROVE  ~contains(ns'.new[i].at, p)
    <3>1. (i \in DOMAIN ns.new /\ ns'.new[i] = ns.new[i]) \/ ns'.new[i] = At(q, m)
      BY <1>2
    <3> QED
      BY <1>1, <1>4, <2>1, <2>3, <3>1
  <2> QED
    BY <2>1, <2>2, <2>3 DEF OnTop
<1>5. ASSUME ~contains(q, kRunRoot), RunRootBare(ns.new)
      PROVE  RunRootBare(ns'.new)
  <2>1. \A i \in DOMAIN ns'.new :
          (i \in DOMAIN ns.new /\ ns'.new[i] = ns.new[i]) \/ ns'.new[i] = At(q, m)
    BY <1>2
  <2> QED
    BY <1>1, <1>5, <2>1 DEF RunRootBare
<1> QED
  BY <1>3, <1>4, <1>5

\* The calls of xmnt_move for what jai itself mounts.
LEMMA PlaceKeeps ==
  ASSUME Own, Grown, NsInv, NEW from \in Placing \ {"detach"},
         NEW to \in (Placing \ {"detach", "place_tmp"}) \cup {"cwd"},
         NEW m \in MountSet, NEW q \in Paths, Place(from, to, m, q), ~contains(q, kRunRoot)
  PROVE  /\ pc = from /\ pc' = to /\ UNCHANGED conf /\ RunRootInv' /\ TreesHeld'
         /\ m # NoMount => \A x : m.fs = x.fs /\ m.root = x.root => OnTop(ns'.new, q, x)
         /\ \A p, x : ~contains(q, p) /\ OnTop(ns.new, p, x) => OnTop(ns'.new, p, x)
<1>1. /\ pc = from /\ pc' = to /\ UNCHANGED << conf, tree, dirs >>
      /\ IF m = NoMount THEN UNCHANGED ns ELSE Attach(m, q)
  BY DEF Place, Goto, files
<1>2. /\ pc \in InNewNs /\ pc \in AfterDetach /\ pc' \notin {"private", "detach", "setattr", "unshare"}
      /\ pc' \notin Early /\ pc' \notin BeforeRunDir /\ pc \in Placing
      /\ pc \in Collecting \ {"tmp"} /\ pc \in Collecting \ BeforeRunDir
  BY <1>1 DEF InNewNs, AfterDetach, TmpTaken, VarTmpTaken, HomeTaken, RunTaken, Placing, Early,
              BeforeRunDir, Collecting
<1>3. JailTypeOK /\ RunRootBare(ns.new)
  BY <1>2 DEF Grown, Own, RunRootInv
<1>4. RunRootBare(ns'.new)
  BY <1>1, <1>2, <1>3, OnTopAfter
<1>5. RunRootInv'
  BY <1>1, <1>2, <1>4, SamePlaces DEF RunRootInv
<1>6. TreesHeld'
  BY <1>1, <1>2, SamePlaces DEF Own, TreesHeld, Holds
<1> QED
  BY <1>1, <1>2, <1>3, <1>5, <1>6, OnTopAfter

LEMMA PlaceSteps ==
  ASSUME Own, PlacesApart, Grown, NsInv,
         PlaceTmp \/ PlaceVarTmp \/ PlaceHome \/ PlacePasswd \/ PlaceRun
  PROVE  Own'
<1>1. /\ \A t \in Kinds : tree[t] \in MountSet
      /\ "tmp" \in Kinds /\ "home" \in Kinds /\ "passwd" \in Kinds /\ "rundir" \in Kinds
  BY DEF Grown, JailTypeOK, Kinds, MountSet
<1>2. /\ pc \in Placing => Holds("tmp", Mount("tmp", << >>)) /\ Holds("home", HomeMount)
      /\ pc \in Placing /\ HasRunDir /\ xdgrun \notin Granted =>
           Holds("rundir", Mount("rundir", << >>))
  BY DEF Own, TreesHeld, Collecting, Placing, BeforeRunDir
<1>3. \A t \in Kinds : \A m : Holds(t, m) =>
        /\ tree[t].fs = m.fs /\ tree[t].root = m.root
        /\ m.fs # "none" => tree[t] # NoMount
  BY DEF Holds, NoMount
<1>4. /\ Mount("tmp", << >>).fs # "none" /\ HomeMount.fs # "none"
      /\ Mount("rundir", << >>).fs # "none"
  BY DEF Mount, HomeMount
<1>5. /\ conf.homepath_ \in Paths
      /\ \A p \in FixedPlaces : ~contains(conf.homepath_, p)
      /\ ~contains(xdgrun, conf.homepath_) /\ ~contains(<<"etc", "passwd">>, conf.homepath_)
  BY WorldPaths DEF Grown, JailTypeOK, PlacesApart
<1>6. {"place_tmp", "place_vartmp", "place_home", "place_passwd", "place_run"} \subseteq Placing
  BY DEF Placing
<1> USE DEF FixedPlaces
<1>8. CASE PlaceTmp
  <2>1. Place("place_tmp", "place_vartmp", tree.tmp, <<"tmp">>)
    BY <1>8 DEF PlaceTmp
  <2>2. /\ pc = "place_tmp" /\ pc' = "place_vartmp" /\ UNCHANGED conf /\ RunRootInv' /\ TreesHeld'
        /\ tree.tmp # NoMount =>
             \A x : tree.tmp.fs = x.fs /\ tree.tmp.root = x.root => OnTop(ns'.new, <<"tmp">>, x)
    BY <1>1, <1>6, <2>1, PlaceKeeps, PlacesDiffer, FixedPaths
  <2>3. OnTop(ns'.new, <<"tmp">>, Mount("tmp", << >>))
    BY <1>1, <1>2, <1>3, <1>4, <1>6, <2>2
  <2>4. pc' \notin VarTmpTaken /\ pc' \notin HomeTaken /\ pc' \notin RunTaken /\ pc' \notin ProcFixed
    BY <2>2 DEF VarTmpTaken, HomeTaken, RunTaken, ProcFixed, Late, Body, Opened, Cloned, AfterGrants
  <2>5. Taken(<<"tmp">>, Mount("tmp", << >>))'
    BY <2>3 DEF Taken
  <2>6. PlacesTaken'
    BY <2>2, <2>4, <2>5 DEF PlacesTaken
  <2> QED
    BY <2>2, <2>6 DEF Own
<1>9. CASE PlaceVarTmp
  <2>1. Place("place_vartmp", "place_home", tree.tmp, <<"var", "tmp">>)
    BY <1>9, VarTmpPlaced
  <2>2. /\ pc = "place_vartmp" /\ pc' = "place_home" /\ UNCHANGED conf /\ RunRootInv' /\ TreesHeld'
        /\ tree.tmp # NoMount =>
             \A x : tree.tmp.fs = x.fs /\ tree.tmp.root = x.root => OnTop(ns'.new, <<"var", "tmp">>, x)
        /\ \A p, x : ~contains(<<"var", "tmp">>, p) /\ OnTop(ns.new, p, x) => OnTop(ns'.new, p, x)
    BY <1>1, <1>6, <2>1, PlaceKeeps, PlacesDiffer, FixedPaths
  <2>3. OnTop(ns'.new, <<"var", "tmp">>, Mount("tmp", << >>))
    BY <1>1, <1>2, <1>3, <1>4, <1>6, <2>2
  <2>4. pc \in TmpTaken /\ pc' \notin HomeTaken /\ pc' \notin RunTaken /\ pc' \notin ProcFixed
    BY <2>2 DEF TmpTaken, HomeTaken, RunTaken, ProcFixed, Late, Body, Opened, Cloned, AfterGrants
  <2>5. Taken(<<"tmp">>, Mount("tmp", << >>))' /\ Taken(<<"var", "tmp">>, Mount("tmp", << >>))'
    BY <2>2, <2>3, <2>4, PlacesDiffer, SamePlaces DEF Own, PlacesTaken, Taken
  <2>6. PlacesTaken'
    BY <2>2, <2>4, <2>5 DEF PlacesTaken
  <2> QED
    BY <2>2, <2>6 DEF Own
<1>10. CASE PlaceHome
  <2>1. Place("place_home", "place_passwd", tree.home, conf.homepath_)
    BY <1>10 DEF PlaceHome
  <2>2. /\ pc = "place_home" /\ pc' = "place_passwd" /\ UNCHANGED conf /\ RunRootInv' /\ TreesHeld'
        /\ tree.home # NoMount =>
             \A x : tree.home.fs = x.fs /\ tree.home.root = x.root => OnTop(ns'.new, conf.homepath_, x)
        /\ \A p, x : ~contains(conf.homepath_, p) /\ OnTop(ns.new, p, x) => OnTop(ns'.new, p, x)
    BY <1>1, <1>5, <1>6, <2>1, PlaceKeeps
  <2>3. OnTop(ns'.new, conf.homepath_, HomeMount)
    BY <1>1, <1>2, <1>3, <1>4, <1>6, <2>2
  <2>4. pc \in VarTmpTaken /\ pc \in TmpTaken /\ pc' \notin RunTaken /\ pc' \notin ProcFixed
    BY <2>2 DEF TmpTaken, VarTmpTaken, RunTaken, ProcFixed, Late, Body, Opened, Cloned, AfterGrants
  <2>5. Taken(<<"tmp">>, Mount("tmp", << >>))' /\ Taken(<<"var", "tmp">>, Mount("tmp", << >>))'
    BY <1>5, <2>2, <2>4, SamePlaces DEF Own, PlacesTaken, Taken
  <2>6. Taken(conf.homepath_, HomeMount)'
    BY <2>2, <2>3, SamePlaces DEF Taken
  <2>7. PlacesTaken'
    BY <2>2, <2>4, <2>5, <2>6 DEF PlacesTaken
  <2> QED
    BY <2>2, <2>7 DEF Own
<1>11. CASE PlacePasswd
  <2>1. Place("place_passwd", "place_run", tree.passwd, <<"etc", "passwd">>)
    BY <1>11 DEF PlacePasswd
  <2>2. /\ pc = "place_passwd" /\ pc' = "place_run" /\ UNCHANGED conf /\ RunRootInv' /\ TreesHeld'
        /\ \A p, x : ~contains(<<"etc", "passwd">>, p) /\ OnTop(ns.new, p, x) => OnTop(ns'.new, p, x)
    BY <1>1, <1>6, <2>1, PlaceKeeps, PlacesDiffer, FixedPaths
  <2>3. /\ pc \in HomeTaken /\ pc \in VarTmpTaken /\ pc \in TmpTaken
        /\ pc' \notin RunTaken /\ pc' \notin ProcFixed
    BY <2>2 DEF TmpTaken, VarTmpTaken, HomeTaken, RunTaken, ProcFixed, Late, Body, Opened, Cloned,
                AfterGrants
  <2>4. Taken(<<"tmp">>, Mount("tmp", << >>))' /\ Taken(<<"var", "tmp">>, Mount("tmp", << >>))'
    BY <2>2, <2>3, PlacesDiffer, SamePlaces DEF Own, PlacesTaken, Taken
  <2>5. Taken(conf.homepath_, HomeMount)'
    BY <1>5, <2>2, <2>3, SamePlaces DEF Own, PlacesTaken, Taken
  <2>6. PlacesTaken'
    BY <2>2, <2>3, <2>4, <2>5 DEF PlacesTaken
  <2> QED
    BY <2>2, <2>6 DEF Own
<1>12. CASE PlaceRun
  <2>1. Place("place_run", "cwd", tree.rundir, xdgrun)
    BY <1>12 DEF PlaceRun
  <2>2. /\ pc = "place_run" /\ pc' = "cwd" /\ UNCHANGED conf /\ RunRootInv' /\ TreesHeld'
        /\ tree.rundir # NoMount =>
             \A x : tree.rundir.fs = x.fs /\ tree.rundir.root = x.root => OnTop(ns'.new, xdgrun, x)
        /\ \A p, x : ~contains(xdgrun, p) /\ OnTop(ns.new, p, x) => OnTop(ns'.new, p, x)
    BY <1>1, <1>6, <2>1, PlaceKeeps, PlacesDiffer, FixedPaths
  <2>3. HasRunDir /\ xdgrun \notin Granted => OnTop(ns'.new, xdgrun, Mount("rundir", << >>))
    BY <1>1, <1>2, <1>3, <1>4, <1>6, <2>2
  <2>4. pc \in HomeTaken /\ pc \in VarTmpTaken /\ pc \in TmpTaken /\ pc' \notin ProcFixed
    BY <2>2 DEF TmpTaken, VarTmpTaken, HomeTaken, ProcFixed
  <2>5. Taken(<<"tmp">>, Mount("tmp", << >>))' /\ Taken(<<"var", "tmp">>, Mount("tmp", << >>))'
    BY <2>2, <2>4, PlacesDiffer, SamePlaces DEF Own, PlacesTaken, Taken
  <2>6. Taken(conf.homepath_, HomeMount)'
    BY <1>5, <2>2, <2>4, SamePlaces DEF Own, PlacesTaken, Taken
  <2>7. HasRunDir' => Taken(xdgrun, Mount("rundir", << >>))'
    BY <2>2, <2>3, SamePlaces DEF Taken
  <2>8. PlacesTaken'
    BY <2>2, <2>4, <2>5, <2>6, <2>7 DEF PlacesTaken
  <2> QED
    BY <2>2, <2>8 DEF Own
<1> QED
  BY <1>8, <1>9, <1>10, <1>11, <1>12

\* The granted directories, and what blockdir covers.
LEMMA LaterKeeps ==
  ASSUME Own, PlacesApart, Grown, NsInv, UNCHANGED << conf, tree, dirs >>,
         pc \in Late, pc' \in Late, pc' \notin ProcFixed, pc \in InNewNs,
         NEW q \in Paths, NEW m \in MountSet, Attach(m, q), ~contains(q, kRunRoot),
         \A p \in FixedPlaces \cup {conf.homepath_} : p \notin Granted => ~contains(q, p)
  PROVE  Own'
<1>1. /\ \A p, x : ~contains(q, p) /\ OnTop(ns.new, p, x) => OnTop(ns'.new, p, x)
      /\ RunRootBare(ns.new) => RunRootBare(ns'.new)
  BY OnTopAfter DEF Grown
<1>2. /\ pc \in RunTaken /\ pc \in HomeTaken /\ pc \in VarTmpTaken /\ pc \in TmpTaken
      /\ pc \in AfterDetach /\ pc' \notin Early /\ pc' \notin BeforeRunDir
      /\ pc' \notin {"private", "detach", "setattr", "unshare"} \cup Placing
      /\ pc' \notin Collecting
  BY PlaceSets, Lately DEF Early
<1>3. RunRootInv'
  BY <1>1, <1>2, SamePlaces DEF Own, RunRootInv
<1>4. TreesHeld'
  BY <1>2, SamePlaces DEF Own, TreesHeld
<1>5. /\ Taken(<<"tmp">>, Mount("tmp", << >>))' /\ Taken(<<"var", "tmp">>, Mount("tmp", << >>))'
      /\ HasRunDir' => Taken(xdgrun, Mount("rundir", << >>))'
  BY <1>1, <1>2, SamePlaces DEF Own, PlacesTaken, Taken, FixedPlaces
<1>6. Taken(conf.homepath_, HomeMount)'
  BY <1>1, <1>2, SamePlaces DEF Own, PlacesTaken, Taken
<1>7. PlacesTaken'
  BY <1>5, <1>6 DEF PlacesTaken
<1> QED
  BY <1>3, <1>4, <1>7 DEF Own

LEMMA GrantKeepsPlaces == ASSUME Own, PlacesApart, Grown, NsInv, AttachGrant PROVE Own'
<1>1. /\ pc \in Late /\ pc' \in Late /\ pc' \notin ProcFixed /\ pc \in InNewNs /\ pc \in Body
      /\ UNCHANGED << conf, tree, dirs >> /\ Attach(tree.src, d)
  BY DEF AttachGrant, Step, Goto, files, Late, Body, Opened, Cloned, ProcFixed, InNewNs
<1>2. d \in Paths /\ tree.src \in MountSet /\ d \in Granted
  BY <1>1 DEF Grown, JailTypeOK, GrantsInTime, Ahead, MountSet
<1>3. /\ ~contains(d, kRunRoot)
      /\ \A p \in FixedPlaces \cup {conf.homepath_} : p \notin Granted => ~contains(d, p)
  BY <1>2 DEF PlacesApart, FixedPlaces
<1> QED
  BY <1>1, <1>2, <1>3, LaterKeeps

LEMMA CoverKeepsPlaces == ASSUME Own, PlacesApart, Grown, NsInv, Cover PROVE Own'
<1> DEFINE i == Resolve(ns.new, kRunRoot)
           m == AddAttr(Mount(i.fs, i.path), {"ro", "nosuid", "nodev"})
           q == Head(block)
<1>1. /\ pc \in Late /\ pc' \in Late /\ pc' \notin ProcFixed /\ pc \in InNewNs /\ pc \in Blocking
      /\ pc \notin Early \cup Ending
      /\ UNCHANGED << conf, tree, dirs >> /\ Attach(m, q)
  BY DEF Cover, Step, Goto, files, Late, AfterGrants, ProcFixed, InNewNs, Blocking, Early, Ending, NsInv
<1>2. JailTypeOK /\ MountsOK(ns.new)
  BY <1>1 DEF Grown, JailTypeOK
<1>3. q \in {conf.storagedir_, conf.homejaipath_} /\ q \in Paths
  BY <1>1, <1>2, HeadTailProperties, WorldPaths DEF JailTypeOK
<1>4. i.fs \in FileSystem /\ i.path \in Paths
  BY <1>2, FixedPaths, Resolved
<1> HIDE DEF i, q
<1>5. m \in MountSet
  BY <1>4, WithAttr DEF MountSet, Flags
<1> HIDE DEF m
<1>6. \A p \in FixedPlaces \cup {conf.homepath_} : ~contains(q, p)
  BY <1>3 DEF PlacesApart
<1>7. ~contains(q, kRunRoot)
  BY <1>6 DEF FixedPlaces
<1> QED
  BY <1>1, <1>3, <1>5, <1>6, <1>7, LaterKeeps

LEMMA ProcKeepsPlaces == ASSUME Own, PlacesApart, Grown, NsInv, FixProc PROVE Own'
<1> DEFINE p == <<"proc">>
           t == TakeOff(ns.new, p, 1)
           m == AddAttr(Mount("jailproc", << >>), {"nosuid", "nodev"})
<1>1. /\ pc \in Late /\ pc \notin Early \cup Ending /\ pc' \in ProcFixed /\ pc \in InNewNs
      /\ pc' \notin Early /\ pc' \notin BeforeRunDir /\ pc' \notin Collecting
      /\ pc' \notin {"private", "detach", "setattr", "unshare"} \cup Placing
      /\ UNCHANGED << conf, tree, dirs >>
  BY DEF FixProc, Step, Goto, files, Late, AfterGrants, ProcFixed, InNewNs, Early, Ending,
         BeforeRunDir, Collecting, Placing
<1>2. ns'.new = Append(t, At(p, m))
  BY <1>1 DEF FixProc, NsInv
<1>3. /\ pc \in RunTaken /\ pc \in HomeTaken /\ pc \in VarTmpTaken /\ pc \in TmpTaken
      /\ pc \in AfterDetach
  BY <1>1, PlaceSets
<1>4. MountsOK(ns.new) /\ RunRootBare(ns.new)
  BY <1>1, <1>3 DEF Grown, JailTypeOK, Own, RunRootInv
<1>5. p \in Paths /\ p # << >>
  BY FixedPaths
<1>6. m = [fs |-> "jailproc", root |-> << >>, attr |-> {"nosuid", "nodev"}]
  BY WithAttr
<1>7. /\ m.fs \in FileSystem /\ m.root \in Paths /\ m.attr \in SUBSET Flags
      /\ At(p, m).at = p /\ At(p, m).fs = "jailproc" /\ At(p, m).root = << >>
  <2>1. "jailproc" \in FileSystem
    BY NameAssumption
  <2> QED
    BY <1>6, <2>1, FixedPaths DEF Flags, At
<1>8. /\ ~contains(p, kRunRoot) /\ ~contains(p, <<"tmp">>) /\ ~contains(p, <<"var", "tmp">>)
      /\ ~contains(p, xdgrun) /\ ~contains(p, conf.homepath_)
  BY PlacesDiffer DEF PlacesApart
<1>9. /\ MountsOK(t) /\ DOMAIN t = DOMAIN ns.new
      /\ \A i \in DOMAIN ns.new :
           \/ t[i] = ns.new[i]
           \/ contains(p, ns.new[i].at) /\ t[i] = [ns.new[i] EXCEPT !.at = Nowhere]
  BY <1>4, <1>5, TakeOffOK
<1> HIDE DEF p, t, m
<1>10. \A i \in DOMAIN ns.new : t[i] = ns.new[i] \/ t[i].at = Nowhere
  <2>1. \A i \in DOMAIN ns.new : ns.new[i] \in Attached
    BY <1>4 DEF MountsOK
  <2> QED
    BY <1>9, <2>1 DEF Attached, Mounts
<1>11. /\ Len(t) \in Nat /\ DOMAIN t = 1 .. Len(t)
       /\ DOMAIN ns'.new = 1 .. Len(t) + 1 /\ ns'.new[Len(t) + 1] = At(p, m)
       /\ \A i \in 1 .. Len(t) : ns'.new[i] = t[i]
  BY <1>2, <1>5, <1>7, <1>9, AppendOK
<1>12. \A i \in DOMAIN ns'.new :
         \/ ns'.new[i] = At(p, m)
         \/ i \in DOMAIN ns.new /\ ns'.new[i] = ns.new[i]
         \/ ns'.new[i].at = Nowhere
  BY <1>9, <1>10, <1>11
<1>13. RunRootBare(ns'.new)
  <2>1. ~contains(Nowhere, kRunRoot)
    BY PathFacts, FixedPaths
  <2> QED
    BY <1>4, <1>7, <1>8, <1>12, <2>1 DEF RunRootBare
<1>14. ASSUME NEW q \in Paths, NEW x, ~contains(p, q), OnTop(ns.new, q, x)
       PROVE  OnTop(ns'.new, q, x)
  <2>1. PICK n \in DOMAIN ns.new :
          /\ ns.new[n].at = q /\ ns.new[n].fs = x.fs /\ ns.new[n].root = x.root
          /\ \A i \in DOMAIN ns.new : i > n => ~contains(ns.new[i].at, q)
    BY <1>14 DEF OnTop
  <2>2. n \in DOMAIN ns'.new /\ ns'.new[n] = ns.new[n]
    BY <1>9, <1>11, <1>14, <2>1
  <2>3. ~contains(Nowhere, q)
    BY PathFacts
  <2>4. \A i \in DOMAIN ns'.new : i > n => ~contains(ns'.new[i].at, q)
    BY <1>7, <1>12, <1>14, <2>1, <2>3
  <2> QED
    BY <2>1, <2>2, <2>4 DEF OnTop
<1>15. OnTop(ns'.new, <<"proc">>, Mount("jailproc", << >>))
  <2>1. /\ Len(t) + 1 \in DOMAIN ns'.new
        /\ \A i \in DOMAIN ns'.new : ~ (i > Len(t) + 1)
    BY <1>11
  <2>2. Mount("jailproc", << >>).fs = "jailproc" /\ Mount("jailproc", << >>).root = << >>
    BY DEF Mount
  <2> QED
    BY <1>7, <1>11, <2>1, <2>2 DEF OnTop, p
<1>16. RunRootInv'
  BY <1>1, <1>13, SamePlaces DEF RunRootInv
<1>17. TreesHeld'
  BY <1>1, SamePlaces DEF Own, TreesHeld
<1>18. PlacesTaken'
  <2>1. /\ Taken(<<"tmp">>, Mount("tmp", << >>))' /\ Taken(<<"var", "tmp">>, Mount("tmp", << >>))'
        /\ HasRunDir' => Taken(xdgrun, Mount("rundir", << >>))'
    BY <1>1, <1>3, <1>8, <1>14, FixedPaths, SamePlaces DEF Own, PlacesTaken, Taken
  <2>2. Taken(conf.homepath_, HomeMount)'
    <3>1. conf.homepath_ \in Paths
      BY WorldPaths DEF Grown, JailTypeOK
    <3> QED
      BY <1>1, <1>3, <1>8, <1>14, <3>1, SamePlaces DEF Own, PlacesTaken, Taken
  <2>3. Taken(<<"proc">>, Mount("jailproc", << >>))'
    BY <1>15 DEF Taken
  <2> QED
    BY <2>1, <2>2, <2>3 DEF PlacesTaken
<1> QED
  BY <1>16, <1>17, <1>18 DEF Own

LEMMA PlacesInitInv == Init => PlacesInv
<1> SUFFICES ASSUME Init, PlacesApart PROVE RunRootInv /\ TreesHeld /\ PlacesTaken
  BY DEF PlacesInv
<1>1. pc = "start" /\ ns.old = StartMounts /\ dirs = conf.dirs
  BY DEF Init
<1>2. RunRootOnce(ns.old)
  BY <1>1 DEF PlacesApart, RunRootOnce, FoundAtStart
<1>3. /\ pc \notin AfterDetach /\ pc \notin TmpTaken /\ pc \notin VarTmpTaken /\ pc \notin HomeTaken
      /\ pc \notin RunTaken /\ pc \notin ProcFixed /\ pc \notin Collecting
      /\ pc \notin {"private", "detach", "setattr", "unshare"} \cup Placing
  BY <1>1 DEF AfterDetach, TmpTaken, VarTmpTaken, HomeTaken, RunTaken, ProcFixed, Late, Body, Opened,
              Cloned, AfterGrants, Collecting, Placing, Early
<1> QED
  BY <1>1, <1>2, <1>3 DEF RunRootInv, TreesHeld, PlacesTaken

\* All other steps: those that hold, make or take off mounts.
MountingOwn ==
  \/ MakePrivateTmp \/ ClonePasswd \/ MakePrivateRun \/ CloneHome \/ SetAttr
  \/ MountOverlay \/ Unshare \/ MakeReadOnly \/ DetachShared
  \/ PlaceTmp \/ PlaceVarTmp \/ PlaceHome \/ PlacePasswd \/ PlaceRun
  \/ AttachGrant \/ Cover \/ FixProc

LEMMA PlacesNextInv ==
  ASSUME NsInv, JailInv, PlacesInv, [Next]_vars PROVE PlacesInv'
<1>0. Next => StillSteps \/ MountingOwn
  BY DEF Next, StillSteps, CalmSteps, MountingOwn
<1>1. UNCHANGED conf
  <2>1. CASE StillSteps
    BY <2>1, StillStepsAre DEF Still, JailInv, JailTypeOK, Trees
  <2>2. CASE MountingOwn
    BY <2>2 DEF MountingOwn, Step, Place, Goto, MakePrivateTmp, ClonePasswd, MakePrivateRun,
           CloneHome, SetAttr, MountOverlay, Unshare, MakeReadOnly, DetachShared, PlaceTmp,
           PlaceVarTmp, PlaceHome, PlacePasswd, PlaceRun, AttachGrant, Cover, FixProc
  <2>3. CASE UNCHANGED vars
    BY <2>3 DEF vars
  <2> QED
    BY <1>0, <2>1, <2>2, <2>3
<1>2. SUFFICES ASSUME PlacesApart PROVE Own'
  BY <1>1, SamePlaces DEF PlacesInv, Own
<1>3. Own /\ Grown /\ tree \in Trees
  BY <1>2 DEF PlacesInv, Own, JailInv, Grown, JailTypeOK, Trees
<1>4. CASE StillSteps
  BY <1>3, <1>4, StillStepsAre, StillKeeps
<1>5. CASE MakePrivateTmp \/ ClonePasswd \/ MakePrivateRun \/ CloneHome \/ SetAttr
  BY <1>3, <1>5, TreeSteps
<1>6. CASE MountOverlay
  BY <1>3, <1>6, OverlayKeeps
<1>7. CASE Unshare \/ MakeReadOnly \/ DetachShared
  BY <1>3, <1>7, DetachSteps
<1>8. CASE PlaceTmp \/ PlaceVarTmp \/ PlaceHome \/ PlacePasswd \/ PlaceRun
  BY <1>2, <1>3, <1>8, PlaceSteps
<1>9. CASE AttachGrant \/ Cover \/ FixProc
  BY <1>2, <1>3, <1>9, GrantKeepsPlaces, CoverKeepsPlaces, ProcKeepsPlaces
<1>10. CASE UNCHANGED vars
  <2>1. UNCHANGED << pc, conf, ns, dirs, tree >>
    BY <1>10 DEF vars, where, files
  <2>2. RunRootInv' /\ TreesHeld'
    BY <1>3, <2>1, SamePlaces DEF Own, RunRootInv, TreesHeld, Holds
  <2>3. PlacesTaken'
    BY <1>3, <2>1, SamePlaces DEF Own, PlacesTaken, Taken
  <2> QED
    BY <2>2, <2>3 DEF Own
<1> QED
  BY <1>0, <1>4, <1>5, <1>6, <1>7, <1>8, <1>9, <1>10 DEF MountingOwn

(***************************************************************************)
(* PlacesInv in every reachable state: which of the jail's own directories *)
(* are mounted, and that nothing covers them (make_mnt_ns, fix_proc).      *)
(***************************************************************************)
THEOREM PlacesInvariant == Spec => []PlacesInv
<1>1. Init => PlacesInv
  BY PlacesInitInv
<1>2. NsInv /\ JailInv /\ PlacesInv /\ [Next]_vars => PlacesInv'
  BY PlacesNextInv
<1> QED
  BY <1>1, <1>2, NsInvariant, JailInvariant, PTL DEF Spec

(***************************************************************************)
(* In every world whose places are apart the program finds the jail's own  *)
(* /proc, /tmp, /var/tmp, /run/user and home where it looks for them,      *)
(* unless the user has granted what is there, and nothing of jai's in      *)
(* /run/jai: neither the order of the mounts nor the grants nor what       *)
(* blockdir covers hides one (make_mnt_ns, fix_proc).                      *)
(***************************************************************************)
THEOREM AlwaysInPlace == Spec => [](PlacesApart => JailInPlace)
<1>1. ASSUME JailInv, PlacesInv, PlacesApart
      PROVE  JailInPlace
  <2> SUFFICES ASSUME Program PROVE JailInPlace
    BY DEF JailInPlace
  <2>1. /\ pc \in ProcFixed /\ pc \in RunTaken /\ pc \in HomeTaken /\ pc \in VarTmpTaken
        /\ pc \in TmpTaken /\ pc \in AfterDetach /\ pc \notin Early \cup Ending
    BY PlaceSets DEF Program, ProcFixed, Early, Ending
  <2>2. MountsOK(ns.new) /\ conf.homepath_ \in Paths
    BY <1>1, <2>1, WorldPaths DEF JailInv, JailTypeOK
  <2>3. RunRootInv /\ PlacesTaken
    BY <1>1 DEF PlacesInv
  <2>4. ASSUME NEW p \in Paths, NEW m, Taken(p, m)
        PROVE  Shows(p, m)
    <3> SUFFICES ASSUME p \notin Granted
                 PROVE  Resolve(ns.new, p) = [fs |-> m.fs, path |-> m.root]
      BY DEF Shows
    <3>1. PICK n \in DOMAIN ns.new :
            /\ ns.new[n].at = p /\ ns.new[n].fs = m.fs /\ ns.new[n].root = m.root
            /\ \A i \in DOMAIN ns.new : i > n => ~contains(ns.new[i].at, p)
      BY <2>4 DEF Taken, OnTop
    <3>2. ns.new \in Seq(Attached) /\ n \in 1 .. Len(ns.new) /\ DOMAIN ns.new = 1 .. Len(ns.new)
          /\ ns.new[n] \in Attached
      BY <2>2, <3>1 DEF MountsOK
    <3>3. MountOf(ns.new, p) = n
      BY <3>1, <3>2, PathFacts, MountOfIs
    <3>4. m.root \in Paths
      BY <3>1, <3>2 DEF Attached, Mounts
    <3>5. m.root \o Rest(p, p) = m.root
      BY <3>4, PathFacts, ConcatEmptySeq DEF Paths
    <3> QED
      BY <3>1, <3>3, <3>5 DEF Resolve
  <2>5. /\ Shows(<<"proc">>, Mount("jailproc", << >>))
        /\ Shows(<<"tmp">>, Mount("tmp", << >>)) /\ Shows(<<"var", "tmp">>, Mount("tmp", << >>))
        /\ HasRunDir => Shows(xdgrun, Mount("rundir", << >>))
        /\ Shows(conf.homepath_, HomeMount)
    BY <2>1, <2>2, <2>3, <2>4, FixedPaths DEF PlacesTaken
  <2>6. RunRootBare(ns.new) /\ MountsConfined
    BY <1>1, <2>1, <2>3 DEF RunRootInv, JailInv, TreesConfined
  <2> QED
    BY <2>5, <2>6 DEF JailInPlace
<1> QED
  BY <1>1, JailInvariant, PlacesInvariant, PTL

-----------------------------------------------------------------------------
(* Paths below each other *)

LEMMA ContainsIs ==
  ASSUME NEW q \in Paths, NEW p \in Paths
  PROVE  contains(q, p) <=> Len(q) <= Len(p) /\ \A k \in 1 .. Len(q) : q[k] = p[k]
<1>1. p \in Seq(Name) /\ q \in Seq(Name) /\ Len(p) \in Nat /\ Len(q) \in Nat
  BY DEF Paths
<1>2. SubSeq(q, 1, Len(q)) = q
  BY <1>1
<1>3. CASE Len(q) <= Len(p)
  <2>1. /\ SubSeq(p, 1, Len(q)) \in Seq(Name) /\ Len(SubSeq(p, 1, Len(q))) = Len(q)
        /\ \A k \in 1 .. Len(q) : SubSeq(p, 1, Len(q))[k] = p[k]
    BY <1>1, <1>3
  <2>2. q = SubSeq(p, 1, Len(q)) <=> \A k \in 1 .. Len(q) : q[k] = SubSeq(p, 1, Len(q))[k]
    BY <1>1, <2>1, SeqEqual
  <2> QED
    BY <1>2, <1>3, <2>1, <2>2 DEF contains, IsPrefix
<1>4. CASE ~(Len(q) <= Len(p))
  BY <1>4 DEF contains, IsPrefix
<1> QED
  BY <1>3, <1>4

LEMMA ContainsFacts ==
  ASSUME NEW a \in Paths, NEW b \in Paths, NEW p \in Paths
  PROVE  /\ contains(a, b) /\ contains(b, p) => contains(a, p)
         /\ contains(a, p) /\ contains(b, p) => contains(a, b) \/ contains(b, a)
         /\ contains(a, b) /\ contains(b, a) => a = b
         /\ a \o b \in Paths /\ contains(a, a \o b)
         /\ a \o << >> = a /\ << >> \o a = a
         /\ contains(a, p) => a \o Rest(p, a) = p
<1>1. /\ a \in Seq(Name) /\ b \in Seq(Name) /\ p \in Seq(Name)
      /\ Len(a) \in Nat /\ Len(b) \in Nat /\ Len(p) \in Nat
  BY DEF Paths
<1>2. contains(a, b) /\ contains(b, p) => contains(a, p)
  BY <1>1, ContainsIs
<1>3. contains(a, p) /\ contains(b, p) => contains(a, b) \/ contains(b, a)
  BY <1>1, ContainsIs
<1>4. contains(a, b) /\ contains(b, a) => a = b
  <2> SUFFICES ASSUME contains(a, b), contains(b, a) PROVE a = b
    OBVIOUS
  <2>1. Len(a) = Len(b) /\ \A k \in 1 .. Len(a) : a[k] = b[k]
    BY <1>1, ContainsIs
  <2> QED
    BY <1>1, <2>1, SeqEqual
<1>5. /\ a \o b \in Paths /\ Len(a \o b) = Len(a) + Len(b)
      /\ \A k \in 1 .. Len(a) : (a \o b)[k] = a[k]
  BY <1>1, ConcatProperties DEF Paths
<1>6. contains(a, a \o b)
  <2>1. \A q \in Paths : Len(a) <= Len(q) /\ (\A k \in 1 .. Len(a) : a[k] = q[k]) => contains(a, q)
    BY ContainsIs
  <2>2. Len(a) <= Len(a \o b)
    BY <1>1, <1>5
  <2> QED
    BY <1>5, <2>1, <2>2
<1>7. a \o << >> = a /\ << >> \o a = a
  BY <1>1, ConcatEmptySeq
<1>8. ASSUME contains(a, p) PROVE a \o Rest(p, a) = p
  <2> DEFINE r == Rest(p, a)
  <2>1. Len(a) <= Len(p) /\ \A k \in 1 .. Len(a) : a[k] = p[k]
    BY <1>8, ContainsIs
  <2>2. /\ r \in Seq(Name) /\ Len(r) = Len(p) - Len(a)
        /\ \A k \in 1 .. Len(p) - Len(a) : r[k] = p[k + Len(a)]
    <3>1. r \in Seq(Name)
      BY RestOK DEF Paths
    <3> QED
      BY <1>1, <2>1, <3>1 DEF Rest
  <2> HIDE DEF r
  <2>3. /\ a \o r \in Seq(Name) /\ Len(a \o r) = Len(p)
        /\ \A k \in 1 .. Len(a) : (a \o r)[k] = a[k]
        /\ \A k \in Len(a) + 1 .. Len(p) : (a \o r)[k] = r[k - Len(a)]
    BY <1>1, <2>1, <2>2, ConcatProperties
  <2>4. \A k \in 1 .. Len(p) : (a \o r)[k] = p[k]
    <3> TAKE k \in 1 .. Len(p)
    <3>1. CASE k <= Len(a)
      BY <1>1, <2>1, <2>3, <3>1
    <3>2. CASE k > Len(a)
      BY <1>1, <2>2, <2>3, <3>2
    <3>3. k <= Len(a) \/ k > Len(a)
      BY <1>1
    <3> QED
      BY <3>1, <3>2, <3>3
  <2>5. a \o r = p
    BY <1>1, <2>3, <2>4, SeqEqual
  <2> QED
    BY <2>5 DEF r
<1> QED
  BY <1>2, <1>3, <1>4, <1>5, <1>6, <1>7, <1>8

LEMMA ContainsTrans ==
  ASSUME NEW a \in Paths, NEW b \in Paths, NEW p \in Paths, contains(a, b), contains(b, p)
  PROVE  contains(a, p)
  BY ContainsFacts

LEMMA AboveFacts ==
  ASSUME NEW p \in Paths
  PROVE  \A q : q \in Above(p) \cup {p} <=> q \in Paths /\ contains(q, p)
<1>1. p \in Seq(Name) /\ Len(p) \in Nat
  BY DEF Paths
<1>2. ASSUME NEW q \in Above(p) \cup {p} PROVE q \in Paths /\ contains(q, p)
  <2>1. CASE q = p
    BY <2>1, PathFacts
  <2>2. CASE q \in Above(p)
    <3>1. PICK n \in 0 .. Len(p) - 1 : q = SubSeq(p, 1, n)
      BY <2>2 DEF Above
    <3>2. q \in Seq(Name) /\ Len(q) = n /\ \A k \in 1 .. n : q[k] = p[k]
      BY <1>1, <3>1
    <3> QED
      BY <1>1, <3>2, ContainsIs DEF Paths
  <2> QED
    BY <1>2, <2>1, <2>2
<1>3. ASSUME NEW q \in Paths, contains(q, p), q # p PROVE q \in Above(p)
  <2>1. q \in Seq(Name) /\ Len(q) \in Nat /\ SubSeq(q, 1, Len(q)) = q
    BY DEF Paths
  <2>2. Len(q) <= Len(p) /\ q = SubSeq(p, 1, Len(q))
    BY <1>3, <2>1 DEF contains, IsPrefix
  <2>3. Len(q) # Len(p)
    BY <1>1, <1>3, <2>2
  <2>4. Len(q) \in 0 .. Len(p) - 1
    BY <1>1, <2>1, <2>2, <2>3
  <2> QED
    BY <2>2, <2>4 DEF Above
<1> QED
  BY <1>2, <1>3

-----------------------------------------------------------------------------
(* What a path shows when a mount has come on top *)

LEMMA AppendView ==
  ASSUME NEW s, MountsOK(s), NEW b \in Paths, NEW m \in MountSet, NEW q \in Paths
  PROVE  /\ contains(b, q) => Resolve(Append(s, At(b, m)), q) = [fs |-> m.fs, path |-> m.root \o Rest(q, b)]
         /\ ~contains(b, q) => /\ Resolve(Append(s, At(b, m)), q) = Resolve(s, q)
                               /\ AttrOf(Append(s, At(b, m)), q) = AttrOf(s, q)
<1> DEFINE t == Append(s, At(b, m))
           x == At(b, m)
<1>1. /\ x.at = b /\ x.fs = m.fs /\ x.root = m.root
  BY DEF At
<1>2. /\ MountsOK(t) /\ Len(s) \in Nat /\ Len(t) = Len(s) + 1 /\ t[Len(s) + 1] = x
      /\ \A i \in 1 .. Len(s) : t[i] = s[i]
  BY AppendOK DEF MountSet
<1> HIDE DEF t, x
<1>3. t \in Seq(Attached)
  BY <1>2 DEF MountsOK
<1>4. ASSUME contains(b, q)
      PROVE  Resolve(t, q) = [fs |-> m.fs, path |-> m.root \o Rest(q, b)]
  <2>1. MountOf(t, q) = Len(s) + 1
    BY <1>1, <1>2, <1>3, <1>4, MountOfIs
  <2> QED
    BY <1>1, <1>2, <2>1 DEF Resolve
<1>5. ASSUME ~contains(b, q)
      PROVE  Resolve(t, q) = Resolve(s, q) /\ AttrOf(t, q) = AttrOf(s, q)
  <2> DEFINE n == MountOf(s, q)
  <2>1. /\ n \in 1 .. Len(s) /\ contains(s[n].at, q)
        /\ \A i \in 1 .. Len(s) : contains(s[i].at, q) => i <= n
    BY Shown
  <2> HIDE DEF n
  <2>2. n \in 1 .. Len(t) /\ t[n] = s[n]
    BY <1>2, <2>1
  <2>3. \A i \in 1 .. Len(t) : i > n => ~contains(t[i].at, q)
    <3> TAKE i \in 1 .. Len(t)
    <3>1. i \in 1 .. Len(s) \/ i = Len(s) + 1
      BY <1>2
    <3>2. i \in 1 .. Len(s) => t[i] = s[i]
      BY <1>2
    <3> QED
      BY <1>1, <1>2, <1>5, <2>1, <3>1, <3>2
  <2>4. MountOf(t, q) = n
    BY <1>3, <2>1, <2>2, <2>3, MountOfIs
  <2> QED
    BY <2>2, <2>4 DEF Resolve, AttrOf, n
<1> QED
  BY <1>4, <1>5 DEF t, x

LEMMA TakeOffView ==
  ASSUME NEW s, MountsOK(s), NEW p \in Paths, p # << >>, NEW first, NEW q \in Paths, ~contains(p, q)
  PROVE  /\ Resolve(TakeOff(s, p, first), q) = Resolve(s, q)
         /\ AttrOf(TakeOff(s, p, first), q) = AttrOf(s, q)
<1> DEFINE t == TakeOff(s, p, first)
           n == MountOf(s, q)
<1>1. /\ MountsOK(t) /\ DOMAIN t = DOMAIN s
      /\ \A i \in DOMAIN s :
           t[i] = s[i] \/ (contains(p, s[i].at) /\ t[i] = [s[i] EXCEPT !.at = Nowhere])
  BY TakeOffOK
<1>2. /\ n \in 1 .. Len(s) /\ contains(s[n].at, q) /\ s[n].at \in Paths
      /\ \A i \in 1 .. Len(s) : contains(s[i].at, q) => i <= n
  BY Shown
<1>3. /\ t \in Seq(Attached) /\ DOMAIN s = 1 .. Len(s) /\ Len(s) \in Nat /\ Len(t) = Len(s)
      /\ \A i \in DOMAIN s : s[i] \in Attached
  <2>1. t \in Seq(Attached) /\ s \in Seq(Attached)
    BY <1>1 DEF MountsOK
  <2>2. DOMAIN s = 1 .. Len(s) /\ Len(s) \in Nat /\ DOMAIN t = 1 .. Len(t) /\ Len(t) \in Nat
    BY <2>1
  <2>3. Len(t) = Len(s)
    BY <1>1, <2>2
  <2> QED
    BY <2>1, <2>2, <2>3
<1> HIDE DEF t, n
<1>4. \A i \in DOMAIN s : t[i] = s[i] \/ t[i].at = Nowhere
  BY <1>1, <1>3 DEF Attached, Mounts
<1>5. ~contains(p, s[n].at)
  BY <1>2, ContainsFacts
<1>6. t[n] = s[n]
  BY <1>1, <1>2, <1>3, <1>5
<1>7. ~contains(Nowhere, q)
  BY PathFacts
<1>8. \A i \in 1 .. Len(t) : i > n => ~contains(t[i].at, q)
  <2> TAKE i \in 1 .. Len(t)
  <2> QED
    BY <1>2, <1>3, <1>4, <1>7
<1>9. MountOf(t, q) = n
  BY <1>2, <1>3, <1>6, <1>8, MountOfIs
<1> QED
  BY <1>6, <1>9 DEF Resolve, AttrOf, t, n

\* Who can read a directory depends on what the paths at and above it show.
LEMMA SameView ==
  ASSUME UNCHANGED << conf, dirs, user_cred_, untrusted_cred_ >>, NEW p \in Paths,
         \A q \in Paths : contains(q, p) =>
           Resolve(ns'.new, q) = Resolve(ns.new, q) /\ AttrOf(ns'.new, q) = AttrOf(ns.new, q)
  PROVE  /\ CanRead(ns.new, sbcred.uid, p)' <=> CanRead(ns.new, sbcred.uid, p)
         /\ Reveals(Resolve(ns.new, p))' <=> Reveals(Resolve(ns.new, p))
<1>1. /\ sbcred' = sbcred /\ SandboxHome' = SandboxHome
  BY DEF sbcred, SandboxHome
<1>2. ASSUME NEW q \in Paths, contains(q, p)
      PROVE  /\ Exists(ns.new, q)' <=> Exists(ns.new, q)
             /\ Open(ns.new, sbcred.uid, q)' <=> Open(ns.new, sbcred.uid, q)
  <2>1. Entry(ns.new, q)' = Entry(ns.new, q)
    BY <1>2 DEF Entry
  <2> QED
    BY <1>1, <1>2, <2>1 DEF Exists, Open, Is
<1>3. \A q \in Above(p) \cup {p} : q \in Paths /\ contains(q, p)
  BY AboveFacts
<1>4. CanFind(ns.new, sbcred.uid, p)' <=> CanFind(ns.new, sbcred.uid, p)
  BY <1>2, <1>3 DEF CanFind
<1>5. CanRead(ns.new, sbcred.uid, p)' <=> CanRead(ns.new, sbcred.uid, p)
  BY <1>2, <1>3, <1>4 DEF CanRead
<1>6. Resolve(ns'.new, p) = Resolve(ns.new, p)
  BY <1>3
<1>7. Reveals(Resolve(ns.new, p))' <=> Reveals(Resolve(ns.new, p))
  BY <1>1, <1>6 DEF Reveals, Secret
<1> QED
  BY <1>5, <1>7

\* What is readable is there, and so are the directories above it.
LEMMA ReadableAbove ==
  ASSUME NEW mounts, NEW uid, NEW p \in Paths, CanRead(mounts, uid, p)
  PROVE  /\ Exists(mounts, p)
         /\ \A b \in Paths : contains(b, p) => CanRead(mounts, uid, b)
<1>1. ASSUME NEW q \in Paths, contains(q, p)
      PROVE  Exists(mounts, q) /\ Open(mounts, uid, q)
  <2>1. q \in Above(p) \cup {p}
    BY <1>1, AboveFacts
  <2> QED
    BY <2>1 DEF CanRead, CanFind
<1>2. ASSUME NEW b \in Paths, contains(b, p) PROVE CanRead(mounts, uid, b)
  <2>1. \A q \in Above(b) \cup {b} : q \in Paths /\ contains(q, p)
    BY <1>2, AboveFacts, ContainsFacts
  <2> QED
    BY <1>1, <2>1 DEF CanRead, CanFind
<1> QED
  BY <1>1, <1>2, PathFacts

-----------------------------------------------------------------------------
(* Which mounts show what is secret *)

LEMMA OwnPlaceShows ==
  ASSUME NEW m, InOwnPlace(m), m.at \in Paths, m.root \in Paths, NEW p \in Paths, contains(m.at, p),
         Reveals([fs |-> m.fs, path |-> m.root \o Rest(p, m.at)]), conf \in Worlds
  PROVE  /\ \E b \in Blocked : contains(b, p)
         /\ conf.mode_ # kCasual =>
              m.fs = "host" /\ m.at \in Granted \cup {<< >>} /\ m.root = m.at
<1> DEFINE i == [fs |-> m.fs, path |-> m.root \o Rest(p, m.at)]
<1>1. i.fs = m.fs /\ i.path = m.root \o Rest(p, m.at)
  OBVIOUS
<1>2. Rest(p, m.at) \in Paths /\ m.at \o Rest(p, m.at) = p
  BY RestOK, ContainsFacts
<1> HIDE DEF i
<1>3. CASE m.fs = "host" /\ m.root = m.at /\ m.at \in Granted \cup {<< >>}
  <2>1. i.path = p /\ i.fs = "host"
    BY <1>1, <1>2, <1>3
  <2>2. Secret(i)
    BY <2>1 DEF Reveals, i
  <2> QED
    BY <1>3, <2>1, <2>2 DEF Secret, Blocked
<1>4. CASE m.fs = "host" /\ conf.mode_ # kCasual /\ contains(SandboxHome, m.root)
  <2>1. Secret(i)
    BY <1>1, <1>4 DEF Reveals, i
  <2>2. SandboxHome \in Paths
    <3>1. <<"default.home">> \in Paths
      <4>1. "default.home" \in Name
        BY NameAssumption
      <4> QED
        BY <4>1 DEF Paths
    <3>2. conf.storagedir_ \in Paths
      BY WorldPaths
    <3> QED
      BY <3>1, <3>2, ContainsFacts DEF SandboxHome
  <2>3. contains(m.root, i.path) /\ i.path \in Paths
    BY <1>1, <1>2, ContainsFacts
  <2>4. contains(SandboxHome, i.path)
    BY <1>4, <2>2, <2>3, ContainsTrans
  <2> QED
    BY <1>4, <2>1, <2>4 DEF Secret
<1>5. CASE m.fs = "overlay"
  <2>1. conf.mode_ = kCasual /\ m.at = conf.homepath_ /\ m.root = << >>
    BY <1>5 DEF InOwnPlace
  <2>2. i.path = Rest(p, conf.homepath_)
    BY <1>1, <1>2, <2>1, ContainsFacts
  <2>3. conf.homepath_ \o i.path = p
    BY <1>2, <2>1, <2>2
  <2>4. Secret([fs |-> "host", path |-> p])
    BY <1>1, <1>5, <2>3 DEF Reveals, Secret, i
  <2> QED
    BY <2>1, <2>4 DEF Secret, Blocked
<1>6. m.fs = "host" \/ m.fs = "overlay"
  BY <1>1 DEF Reveals, Secret, i
<1> QED
  BY <1>3, <1>4, <1>5, <1>6 DEF InOwnPlace

LEMMA EmptyShows ==
  ASSUME NEW m, Empty(m), m.root \in Paths, NEW r \in Paths,
         NEW x \in dirs, x.fs = m.fs, x.path = m.root \o r
  PROVE  ~Reveals([fs |-> x.fs, path |-> x.path])
<1>1. contains(m.root, m.root \o r)
  BY ContainsFacts
<1>2. Under(x, m.fs, m.root)
  BY <1>1 DEF Under
<1>3. x.path = m.root
  BY <1>2 DEF Empty
<1> QED
  BY <1>3 DEF Empty

-----------------------------------------------------------------------------
(* What blockdir does for a directory *)

LEMMA SkippedClosed ==
  ASSUME NEW b \in Paths, ~CanRead(ns.new, sbcred.uid, b)
  PROVE  Closed(b)
<1>1. ASSUME NEW p \in Paths, contains(b, p), CanRead(ns.new, sbcred.uid, p)
      PROVE  FALSE
  BY <1>1, ReadableAbove
<1> QED
  BY <1>1 DEF Closed

LEMMA ComparedClosed ==
  ASSUME SecretsOnHost, HostMounts, Grown, pc = "compare", conf.mode_ # kCasual,
         NEW b \in Blocked, Resolve(ns.old, b) # Resolve(ns.new, b)
  PROVE  Closed(b)
<1>1. /\ pc \in AfterDetach /\ pc \in AfterGrants /\ pc \in Late /\ pc \notin Body
      /\ pc \notin Early \cup Ending
  BY DEF AfterDetach, TmpTaken, VarTmpTaken, HomeTaken, RunTaken, AfterGrants, Late, Body, Opened,
         Cloned, Early, Ending
<1>2. MountsOK(ns.new) /\ conf \in Worlds /\ b \in Paths
  BY <1>1, WorldPaths DEF Grown, JailTypeOK, Blocked
<1>3. \A g \in Granted : ~contains(b, g)
  BY <1>1 DEF Grown, GrantsInTime, Ahead, Allowed, Blocked
<1>4. Resolve(ns.old, b) = [fs |-> "host", path |-> b]
  BY DEF SecretsOnHost, HostMounts
<1> SUFFICES ASSUME NEW p \in Paths, contains(b, p), CanRead(ns.new, sbcred.uid, p),
                    Reveals(Resolve(ns.new, p))
             PROVE  FALSE
  BY DEF Closed
<1> DEFINE n == MountOf(ns.new, p)
           m == ns.new[n]
<1>5. /\ n \in 1 .. Len(ns.new) /\ contains(m.at, p) /\ m \in Attached /\ m.at \in Paths
      /\ \A i \in 1 .. Len(ns.new) : contains(ns.new[i].at, p) => i <= n
  BY <1>2, Shown
<1>6. m.root \in Paths /\ m.at # Nowhere
  BY <1>5, PathFacts DEF Attached, Mounts
<1>7. /\ Resolve(ns.new, p) = [fs |-> m.fs, path |-> m.root \o Rest(p, m.at)]
      /\ Resolve(ns.new, p).fs = m.fs /\ Resolve(ns.new, p).path = m.root \o Rest(p, m.at)
  BY DEF Resolve
<1>8. ns.new \in Seq(Attached) /\ DOMAIN ns.new = 1 .. Len(ns.new)
  BY <1>2 DEF MountsOK
<1> HIDE DEF n
<1>9. CASE InOwnPlace(m)
  <2>1. m.fs = "host" /\ m.at \in Granted \cup {<< >>} /\ m.root = m.at
    BY <1>2, <1>5, <1>6, <1>7, <1>9, OwnPlaceShows
  <2>2. contains(m.at, b)
    <3>1. contains(m.at, b) \/ contains(b, m.at)
      BY <1>2, <1>5, ContainsFacts
    <3>2. contains(<< >>, b)
      BY <1>2, PathFacts
    <3> QED
      BY <1>3, <2>1, <3>1, <3>2
  <2>3. \A i \in 1 .. Len(ns.new) : i > n => ~contains(ns.new[i].at, b)
    <3> SUFFICES ASSUME NEW i \in 1 .. Len(ns.new), i > n, contains(ns.new[i].at, b)
                 PROVE  FALSE
      OBVIOUS
    <3>1. ns.new[i] \in Attached
      BY <1>8
    <3>2. ns.new[i].at \in Paths
      BY <1>2, <3>1, PathFacts DEF Attached, Mounts
    <3>3. contains(ns.new[i].at, p)
      BY <1>2, <3>2, ContainsTrans
    <3> QED
      BY <1>5, <3>3
  <2>4. MountOf(ns.new, b) = n
    BY <1>5, <1>8, <2>2, <2>3, MountOfIs
  <2>5. m.root \o Rest(b, m.at) = b
    BY <1>2, <1>5, <2>1, <2>2, ContainsFacts
  <2> QED
    BY <1>4, <2>1, <2>4, <2>5 DEF Resolve
<1>10. CASE Empty(m)
  <2>1. PICK x \in dirs : Resolve(ns.new, p) = [fs |-> x.fs, path |-> x.path]
    BY ReadableAbove DEF Exists, Entry
  <2>4. Resolve(ns.new, p).fs = x.fs /\ Resolve(ns.new, p).path = x.path
    BY <2>1
  <2>2. x.fs = m.fs /\ x.path = m.root \o Rest(p, m.at)
    BY <1>7, <2>4
  <2>3. Rest(p, m.at) \in Paths
    BY <1>5, RestOK
  <2> QED
    BY <1>6, <1>10, <2>1, <2>2, <2>3, EmptyShows
<1> QED
  BY <1>1, <1>5, <1>6, <1>8, <1>9, <1>10 DEF HostMounts, HostShown

\* A mount on top of a directory, of which nothing secret can be seen.
LEMMA TopCloses ==
  ASSUME UNCHANGED << conf, dirs, user_cred_, untrusted_cred_ >>, NEW q \in Paths,
         \A r \in Paths : ~contains(q, r) =>
           Resolve(ns'.new, r) = Resolve(ns.new, r) /\ AttrOf(ns'.new, r) = AttrOf(ns.new, r),
         \A p \in Paths : contains(q, p) /\ Exists(ns.new, p)' => ~Reveals(Resolve(ns.new, p))',
         NEW b \in Paths, Closed(b) \/ b = q
  PROVE  Closed(b)'
<1>1. ASSUME NEW p \in Paths, contains(b, p), CanRead(ns.new, sbcred.uid, p)'
      PROVE  ~Reveals(Resolve(ns.new, p))'
  <2>1. CASE contains(q, p)
    <3>1. Exists(ns.new, p)'
      BY <1>1 DEF CanRead, CanFind
    <3> QED
      BY <2>1, <3>1
  <2>2. CASE ~contains(q, p)
    <3>1. \A r \in Paths : contains(r, p) => ~contains(q, r)
      BY <2>2, ContainsTrans
    <3>2. Closed(b)
      BY <1>1, <2>2
    <3> QED
      BY <1>1, <3>1, <3>2, SameView DEF Closed
  <2> QED
    BY <2>1, <2>2
<1> QED
  BY <1>1 DEF Closed

\* Closed does not change with the place in the code.
LEMMA ClosedStays ==
  ASSUME UNCHANGED << conf, ns, dirs, user_cred_, untrusted_cred_ >>
  PROVE  /\ \A b : Closed(b)' = Closed(b)
         /\ \A m : Empty(m)' = Empty(m) /\ InOwnPlace(m)' = InOwnPlace(m)
         /\ \A p : CanRead(ns.new, sbcred.uid, p)' = CanRead(ns.new, sbcred.uid, p)
         /\ Blocked' = Blocked
<1>1. sbcred' = sbcred /\ SandboxHome' = SandboxHome /\ Granted' = Granted /\ Blocked' = Blocked
  BY DEF sbcred, SandboxHome, Granted, Blocked
<1>2. \A i : Reveals(i)' = Reveals(i)
  BY <1>1 DEF Reveals, Secret
<1>3. \A p : CanRead(ns.new, sbcred.uid, p)' = CanRead(ns.new, sbcred.uid, p)
  BY <1>1 DEF CanRead, CanFind, Exists, Entry, Open, Is
<1>4. \A b : Closed(b)' = Closed(b)
  BY <1>2, <1>3 DEF Closed
<1>5. \A m : Empty(m)' = Empty(m) /\ InOwnPlace(m)' = InOwnPlace(m)
  BY <1>1, <1>2 DEF Empty, InOwnPlace
<1> QED
  BY <1>1, <1>3, <1>4, <1>5

-----------------------------------------------------------------------------
(* The mounts that show the host: steps that leave the mounts alone *)

Kept == {"tmp", "passwd", "rundir", "home"}

LEMMA SameHost ==
  ASSUME UNCHANGED conf
  PROVE  /\ SecretsOnHost' = SecretsOnHost /\ StartMounts' = StartMounts /\ HomeMount' = HomeMount
         /\ Blocked' = Blocked /\ \A m : InOwnPlace(m)' = InOwnPlace(m)
         /\ OneHost(ns.old)' = OneHost(ns'.old) /\ OneHost(ns.new)' = OneHost(ns'.new)
<1>1. /\ StartMounts' = StartMounts /\ HomeMount' = HomeMount /\ Granted' = Granted
      /\ SandboxHome' = SandboxHome /\ Blocked' = Blocked
  BY DEF StartMounts, HomeMount, Granted, SandboxHome, Blocked
<1>2. \A m : InOwnPlace(m)' = InOwnPlace(m)
  BY <1>1 DEF InOwnPlace
<1>3. OneHost(ns.old)' = OneHost(ns'.old) /\ OneHost(ns.new)' = OneHost(ns'.new)
  BY DEF OneHost, HostOnce, OverlayBelow
<1>4. SecretsOnHost' = SecretsOnHost
  <2>1. OneHost(StartMounts)' = OneHost(StartMounts)
    BY <1>1 DEF OneHost, HostOnce, OverlayBelow
  <2>2. \A b : Resolve(StartMounts, b)' = Resolve(StartMounts, b)
    BY <1>1 DEF Resolve
  <2> QED
    BY <1>1, <2>1, <2>2 DEF SecretsOnHost
<1> QED
  BY <1>1, <1>2, <1>3, <1>4

\* The places of the three parts of HostMounts.
LEMMA HostPlaces ==
  /\ AfterGrants \subseteq AfterDetach
  /\ AfterDetach \cap (Early \cup Ending \cup {"private", "detach", "setattr", "unshare"}) = {}
  /\ AfterGrants \cap (Placing \cup {"cwd", "grants"} \cup Body \cup Collecting) = {}
  /\ Ending \cap (Placing \cup {"private", "detach", "setattr", "unshare"}) = {}
  BY DEF AfterDetach, TmpTaken, VarTmpTaken, HomeTaken, RunTaken, Late, Body, Opened, Cloned,
         AfterGrants, Early, Ending, Placing, Collecting

LEMMA HostKeeps ==
  ASSUME HostMounts, UNCHANGED << conf, ns >>, \A t \in Kept : tree'[t] = tree[t],
         pc' \notin {"private", "detach", "setattr", "unshare"} \cup Placing,
         pc' \in AfterDetach => pc \in AfterDetach,
         pc' \in MakingOverlay => pc \in MakingOverlay \/ conf.mode_ = kCasual,
         pc \in AfterGrants /\ pc' \in AfterDetach =>
           pc' \in AfterGrants /\ UNCHANGED << dirs, user_cred_, untrusted_cred_ >>
  PROVE  HostMounts'
<1>1. /\ OneHost(ns.old)' /\ (conf'.mode_ # kCasual => ns'.old = StartMounts')
      /\ pc' \in MakingOverlay => conf'.mode_ = kCasual
  BY SameHost DEF HostMounts
<1>2. ASSUME pc' \in AfterDetach, NEW i \in DOMAIN ns.new
      PROVE  HostShown(ns.new[i])'
  <2>1. HostShown(ns.new[i])
    BY <1>2 DEF HostMounts
  <2>2. pc \in AfterGrants => pc' \in AfterGrants /\ \A m : Empty(m)' = Empty(m)
    <3> SUFFICES ASSUME pc \in AfterGrants
                 PROVE  pc' \in AfterGrants /\ \A m : Empty(m)' = Empty(m)
      OBVIOUS
    <3>1. UNCHANGED << conf, ns, dirs, user_cred_, untrusted_cred_ >> /\ pc' \in AfterGrants
      BY <1>2
    <3> QED
      BY <3>1, ClosedStays
  <2> QED
    BY <2>1, <2>2, SameHost DEF HostShown
<1>3. \A t \in {"tmp", "passwd", "rundir"} : tree'[t].fs \notin {"host", "overlay"}
  BY DEF HostMounts, Kept
<1> QED
  BY <1>1, <1>2, <1>3, HostPlaces DEF HostMounts

-----------------------------------------------------------------------------
(* The steps after the grants *)

AfterSteps ==
  \/ LowerForBlock \/ OpenBlocked \/ SkipBlocked \/ ResetBlocked \/ Compare \/ Cover
  \/ NextBlocked \/ ReturnNs \/ ChildSetNs \/ FixProc \/ MakeReal \/ Chdir \/ Throw \/ ExitNow

LEMMA StepsAfterGrants == pc \in AfterGrants /\ Next => AfterSteps
<1> SUFFICES ASSUME pc \in AfterGrants, Next PROVE AfterSteps
  OBVIOUS
<1> USE DEF Step, Goto, Lower, Reset, Leave, Place, AfterGrants
<1>1. ~(MainAsUser \/ MainReset \/ OpenOldNs \/ MakePrivateTmp \/ NoPasswd \/ ReadPasswd)
  BY DEF MainAsUser, MainReset, OpenOldNs, MakePrivateTmp, NoPasswd, ReadPasswd
<1>2. ~(ResetPasswd \/ ClonePasswd \/ MakePrivateRun \/ ReuseOverlay \/ MakeOverlay \/ MakeBlacklist)
  BY DEF ResetPasswd, ClonePasswd, MakePrivateRun, ReuseOverlay, MakeOverlay, MakeBlacklist
<1>3. ~(MakeWork \/ MountOverlay \/ ReopenOverlay \/ ReturnOverlay \/ MakeIdMapNs)
  BY DEF MakeWork, MountOverlay, ReopenOverlay, ReturnOverlay, MakeIdMapNs
<1>4. ~(EnsureSandboxHome \/ MakeSandboxHome \/ ReturnSandboxHome \/ CloneHome \/ SetAttr)
  BY DEF EnsureSandboxHome, MakeSandboxHome, ReturnSandboxHome, CloneHome, SetAttr
<1>5. ~(Unshare \/ MakeReadOnly \/ DetachShared \/ PlaceTmp \/ PlaceVarTmp \/ PlaceHome)
  BY DEF Unshare, MakeReadOnly, DetachShared, PlaceTmp, PlaceVarTmp, PlaceHome
<1>6. ~(PlacePasswd \/ PlaceRun \/ RefuseHome \/ GrantCwd \/ GrantNext \/ ToOld \/ LowerForSource)
  BY DEF PlacePasswd, PlaceRun, RefuseHome, GrantCwd, GrantNext, ToOld, LowerForSource
<1>7. ~(OpenSource \/ ResetSource \/ CloneSource \/ ToNew \/ LowerForTarget \/ OpenTarget)
  BY DEF OpenSource, ResetSource, CloneSource, ToNew, LowerForTarget, OpenTarget
<1>8. ~(ResetBeforeMake \/ LowerForMake \/ MakeTarget \/ CheckTarget \/ ResetTarget)
  BY DEF ResetBeforeMake, LowerForMake, MakeTarget, CheckTarget, ResetTarget
<1>9. ~(AttachGrant \/ GrantsDone \/ Unwind \/ UnwindNs \/ Caught)
  BY DEF AttachGrant, GrantsDone, Unwind, UnwindNs, Caught
<1> HIDE DEF Step, Goto, Lower, Reset, Leave, Place, AfterGrants
<1> QED
  BY <1>1, <1>2, <1>3, <1>4, <1>5, <1>6, <1>7, <1>8, <1>9 DEF Next, AfterSteps

\* All of them but two leave the mounts alone.
QuietAfter ==
  \/ LowerForBlock \/ OpenBlocked \/ SkipBlocked \/ ResetBlocked \/ Compare
  \/ NextBlocked \/ ReturnNs \/ ChildSetNs \/ MakeReal \/ Chdir \/ Throw \/ ExitNow

LEMMA QuietAfterSteps ==
  ASSUME pc \in AfterGrants, QuietAfter
  PROVE  /\ UNCHANGED << conf, ns, dirs, tree, user_cred_, untrusted_cred_ >>
         /\ pc' \in AfterGrants \cup Ending
<1> USE DEF Step, Goto, Same, where, files, loops, idVars, AfterGrants, Ending
<1>1. CASE LowerForBlock
  BY <1>1 DEF LowerForBlock, Lower
<1>2. CASE OpenBlocked
  BY <1>2 DEF OpenBlocked
<1>3. CASE SkipBlocked
  BY <1>3 DEF SkipBlocked, Leave
<1>4. CASE ResetBlocked
  BY <1>4 DEF ResetBlocked, Reset
<1>5. CASE Compare
  BY <1>5 DEF Compare
<1>6. CASE NextBlocked
  BY <1>6 DEF NextBlocked
<1>7. CASE ReturnNs
  BY <1>7 DEF ReturnNs, SetNs
<1>8. CASE ChildSetNs
  BY <1>8 DEF ChildSetNs, SetNs
<1>9. CASE MakeReal
  BY <1>9 DEF MakeReal
<1>10. CASE Chdir
  BY <1>10 DEF Chdir
<1>11. CASE Throw
  BY <1>11 DEF Throw
<1>12. CASE ExitNow
  BY <1>12 DEF ExitNow
<1> HIDE DEF Step, Goto, Same, where, files, loops, idVars, AfterGrants, Ending
<1> QED
  BY <1>1, <1>2, <1>3, <1>4, <1>5, <1>6, <1>7, <1>8, <1>9, <1>10, <1>11, <1>12 DEF QuietAfter

-----------------------------------------------------------------------------
(* The steps up to the grants that leave the mounts alone *)

LEMMA StillBefore ==
  ASSUME PrivInv, ActsAs, tree \in Trees, pc \notin AfterGrants, StillSteps
  PROVE  /\ \A t \in Kept : tree'[t] = tree[t]
         /\ pc' \in AfterGrants => GrantsDone
         /\ UNCHANGED dirs \/ MakeBlacklist \/ MakeSandboxHome \/ MakeTarget
<1> USE DEF Step, Goto, where, files, loops, idVars, Kept, AfterGrants
<1>1. CASE CalmSteps
  <2>1. Calm
    BY <1>1, CalmStepsAre
  <2>2. UNCHANGED << tree, dirs >> /\ pc' \notin AfterGrants
    <3>1. pc' \in AfterGrants => pc' \in Late /\ pc' \notin Ending
      BY Ends DEF Late
    <3> QED
      BY <2>1, <3>1 DEF Calm, Onward
  <2> QED
    BY <2>2
<1>2. CASE MakeOverlay \/ EnsureSandboxHome \/ LowerForSource \/ LowerForMake \/ ToOld
  <2>1. Calm
    BY <1>2, LoweringSteps
  <2>2. UNCHANGED << tree, dirs >> /\ pc' \notin AfterGrants
    <3>1. pc' \in AfterGrants => pc' \in Late /\ pc' \notin Ending
      BY Ends DEF Late
    <3> QED
      BY <2>1, <3>1 DEF Calm, Onward
  <2> QED
    BY <2>2
<1>3. CASE OpenOldNs \/ GrantCwd \/ GrantNext \/ GrantsDone \/ NextBlocked
  BY <1>3 DEF OpenOldNs, GrantCwd, GrantNext, GrantsDone, NextBlocked
<1>4. CASE MakeBlacklist \/ MakeSandboxHome \/ MakeTarget
  BY <1>4 DEF MakeBlacklist, MakeSandboxHome, MakeTarget
<1>5. CASE OpenSource \/ CloneSource
  BY <1>5 DEF OpenSource, CloneSource, Hold, Trees
<1> QED
  BY <1>1, <1>2, <1>3, <1>4, <1>5 DEF StillSteps

LEMMA StillHost ==
  ASSUME PrivInv, ActsAs, tree \in Trees, HostMounts, pc \notin AfterGrants, StillSteps
  PROVE  HostMounts'
<1>1. /\ UNCHANGED << conf, ns >> /\ pc' \notin {"private", "detach"}
      /\ pc' \notin {"setattr", "unshare"} \cup Placing
      /\ pc' \in AfterDetach => pc \in AfterDetach
      /\ pc' \in MakingOverlay => pc \in MakingOverlay \/ conf.mode_ = kCasual
  BY StillStepsAre, PlaceSets DEF Still
<1> QED
  BY <1>1, StillBefore, HostKeeps

LEMMA QuietHost ==
  ASSUME HostMounts, pc \in AfterGrants, QuietAfter
  PROVE  HostMounts'
<1>1. /\ UNCHANGED << conf, ns, dirs, tree, user_cred_, untrusted_cred_ >>
      /\ pc' \in AfterGrants \cup Ending
  BY QuietAfterSteps
<1>2. /\ pc' \notin {"private", "detach", "setattr", "unshare"} \cup Placing
      /\ pc' \in AfterDetach => pc' \in AfterGrants /\ pc \in AfterDetach
  BY <1>1, HostPlaces
<1>3. pc' \notin MakingOverlay
  BY <1>1 DEF MakingOverlay, AfterGrants, Ending
<1> QED
  BY <1>1, <1>2, <1>3, HostKeeps

-----------------------------------------------------------------------------
(* The mounts that show the host: the mounts of make_mnt_ns *)

LEMMA EarlyHost ==
  ASSUME HostMounts, UNCHANGED << conf, ns >>, pc' \in Early, pc' \notin MakingOverlay,
         \A t \in {"tmp", "passwd", "rundir"} : tree'[t].fs \notin {"host", "overlay"},
         pc' \in {"setattr", "unshare"} =>
           tree'.home.fs = HomeMount.fs /\ tree'.home.root = HomeMount.root
  PROVE  HostMounts'
<1>1. pc' \notin AfterDetach /\ pc' \notin {"private", "detach"} \cup Placing
  <2>1. pc' \notin {"private", "detach"} \cup Placing
    BY DEF Early, Placing
  <2> QED
    BY <2>1, PlaceSets
<1>2. OneHost(ns.old)' /\ (conf'.mode_ # kCasual => ns'.old = StartMounts')
  BY SameHost DEF HostMounts
<1> QED
  BY <1>1, <1>2, SameHost DEF HostMounts, Holds

LEMMA TreesHost ==
  ASSUME HostMounts, tree \in Trees,
         MakePrivateTmp \/ ClonePasswd \/ MakePrivateRun \/ CloneHome \/ SetAttr
  PROVE  HostMounts' /\ UNCHANGED << conf, dirs >> /\ pc' \notin AfterGrants
<1> USE DEF Step, Goto, loops, where, idVars, Early, MakingOverlay
<1>1. /\ \A t \in {"tmp", "passwd", "rundir"} : tree[t].fs \notin {"host", "overlay"}
      /\ pc = "setattr" => tree.home.fs = HomeMount.fs /\ tree.home.root = HomeMount.root
  BY DEF HostMounts, Holds
<1>2. CASE MakePrivateTmp
  <2>1. \A t \in {"tmp", "passwd", "rundir"} : tree'[t].fs \notin {"host", "overlay"}
    BY <1>1, <1>2 DEF MakePrivateTmp, Hold, Trees, Mount
  <2> QED
    BY <1>2, <2>1, EarlyHost DEF MakePrivateTmp, AfterGrants
<1>3. CASE ClonePasswd
  <2>1. \A t \in {"tmp", "passwd", "rundir"} : tree'[t].fs \notin {"host", "overlay"}
    BY <1>1, <1>3 DEF ClonePasswd, Hold, Trees, Mount
  <2> QED
    BY <1>3, <2>1, EarlyHost DEF ClonePasswd, AfterGrants
<1>4. CASE MakePrivateRun
  <2>1. \A t \in {"tmp", "passwd", "rundir"} : tree'[t].fs \notin {"host", "overlay"}
    BY <1>1, <1>4 DEF MakePrivateRun, Hold, Trees, Mount
  <2> QED
    BY <1>4, <2>1, EarlyHost DEF MakePrivateRun, AfterGrants
<1>5. CASE CloneHome
  <2>1. \A t \in {"tmp", "passwd", "rundir"} : tree'[t].fs \notin {"host", "overlay"}
    BY <1>1, <1>5 DEF CloneHome, Hold, Trees
  <2>2. tree'.home = HomeMount
    BY <1>5 DEF CloneHome, Hold, Trees
  <2> QED
    BY <1>5, <2>1, <2>2, EarlyHost DEF CloneHome, AfterGrants
<1>6. CASE SetAttr
  <2>1. \A t \in Kept : tree'[t].fs = tree[t].fs /\ tree'[t].root = tree[t].root
    BY <1>6 DEF SetAttr, Trees, AddAttr, Kept
  <2> QED
    BY <1>1, <1>6, <2>1, EarlyHost DEF SetAttr, Kept, AfterGrants
<1> QED
  BY <1>2, <1>3, <1>4, <1>5, <1>6

LEMMA OverlayHost ==
  ASSUME HostMounts, Grown, NsInv, MountOverlay
  PROVE  HostMounts' /\ UNCHANGED conf /\ pc' \notin AfterGrants
<1> DEFINE m == Mount("overlay", << >>)
<1>1. /\ pc = "overlay" /\ pc' = "reopen" /\ UNCHANGED << conf, tree >>
      /\ pc \in Early /\ pc \notin Ending \cup {"private"}
  BY DEF MountOverlay, Step, Goto, Early, Ending
<1>2. ns'.old = Append(ns.old, At(RunHome, m))
  BY <1>1 DEF MountOverlay, Change, NsInv
<1>3. MountsOK(ns.old) /\ m.fs \in FileSystem /\ m.root \in Paths /\ m.attr \in SUBSET Flags
  <2>1. "overlay" \in FileSystem
    BY NameAssumption
  <2> QED
    BY <2>1, FixedPaths DEF Grown, JailTypeOK, Mount, Flags
<1>4. /\ At(RunHome, m).at = RunHome /\ At(RunHome, m).fs = "overlay"
      /\ RunHome # kRunRoot /\ contains(kRunRoot, RunHome)
  <2>1. contains(kRunRoot, RunHome) /\ RunHome # kRunRoot
    BY DEF contains, IsPrefix, kRunRoot, RunHome
  <2> QED
    BY <2>1 DEF At, Mount
<1>5. /\ Len(ns.old) \in Nat /\ DOMAIN ns.old = 1 .. Len(ns.old)
      /\ DOMAIN ns'.old = 1 .. Len(ns.old) + 1 /\ ns'.old[Len(ns.old) + 1] = At(RunHome, m)
      /\ \A i \in 1 .. Len(ns.old) : ns'.old[i] = ns.old[i]
  BY <1>2, <1>3, AppendOK, FixedPaths
<1> HIDE DEF m
<1>6. OneHost(ns'.old)
  <2>1. HostOnce(ns'.old)
    BY <1>4, <1>5 DEF HostMounts, OneHost, HostOnce
  <2>2. \E i \in DOMAIN ns'.old : ns'.old[i].at = kRunRoot
    BY <1>5 DEF HostMounts, OneHost, OverlayBelow
  <2>3. ASSUME NEW i \in DOMAIN ns'.old, NEW j \in DOMAIN ns'.old,
               ns'.old[i].at = kRunRoot, ns'.old[j].fs = "overlay"
        PROVE  i < j /\ contains(kRunRoot, ns'.old[j].at)
    <3>1. i \in DOMAIN ns.old /\ ns'.old[i] = ns.old[i]
      BY <1>4, <1>5, <2>3
    <3>2. CASE j \in DOMAIN ns.old
      BY <1>5, <2>3, <3>1, <3>2 DEF HostMounts, OneHost, OverlayBelow
    <3>3. CASE j = Len(ns.old) + 1
      BY <1>4, <1>5, <3>1, <3>3
    <3> QED
      BY <1>5, <3>2, <3>3
  <2> QED
    BY <2>1, <2>2, <2>3 DEF OneHost, OverlayBelow
<1>7. conf.mode_ = kCasual
  BY <1>1 DEF HostMounts, MakingOverlay
<1>8. /\ pc' \notin {"private", "detach", "setattr", "unshare"} \cup Placing /\ pc' \notin AfterDetach
      /\ pc' \notin MakingOverlay /\ pc' \notin AfterGrants
  BY <1>1, PlaceSets, HostPlaces DEF Placing, MakingOverlay, Early
<1>9. \A t \in {"tmp", "passwd", "rundir"} : tree'[t].fs \notin {"host", "overlay"}
  BY <1>1 DEF HostMounts
<1> QED
  BY <1>1, <1>6, <1>7, <1>8, <1>9, SameHost DEF HostMounts

-----------------------------------------------------------------------------
(* The mounts that show the host: the new namespace *)

LEMMA PlacingHost ==
  ASSUME HostMounts, UNCHANGED << conf, tree >>, ns'.old = ns.old,
         pc \in {"unshare", "private"} \cup Placing, pc' \in {"private", "cwd"} \cup Placing,
         pc' \in {"private", "detach"} => OneHost(ns'.new),
         pc' \notin {"private", "detach"} =>
           \A i \in DOMAIN ns'.new : ns'.new[i].at = Nowhere \/ InOwnPlace(ns'.new[i])
  PROVE  HostMounts' /\ pc' \notin AfterGrants
<1>1. pc' \notin AfterGrants /\ pc' \notin MakingOverlay
      /\ (pc' \in AfterDetach => pc' \notin {"private", "detach"})
  BY HostPlaces DEF MakingOverlay, Placing
<1>2. OneHost(ns.old)' /\ (conf'.mode_ # kCasual => ns'.old = StartMounts')
  BY SameHost DEF HostMounts
<1>3. pc' \in AfterDetach => \A i \in DOMAIN ns'.new : HostShown(ns.new[i])'
  BY <1>1, SameHost DEF HostShown
<1>4. /\ \A t \in {"tmp", "passwd", "rundir"} : tree'[t].fs \notin {"host", "overlay"}
      /\ Holds("home", HomeMount)'
  BY SameHost DEF HostMounts, Holds
<1>5. pc' \in {"private", "detach"} => OneHost(ns.new)'
  BY SameHost
<1> QED
  BY <1>1, <1>2, <1>3, <1>4, <1>5 DEF HostMounts

LEMMA UnsharingHost ==
  ASSUME HostMounts, Grown, NsInv, Unshare \/ MakeReadOnly
  PROVE  HostMounts' /\ UNCHANGED << conf, dirs >> /\ pc' \notin AfterGrants
<1> USE DEF Step, Goto, files, loops, where
<1>1. CASE Unshare
  <2>1. ns'.new = ns.old /\ ns'.old = ns.old /\ OneHost(ns.old)
    BY <1>1 DEF Unshare, NsInv, HostMounts
  <2> QED
    BY <1>1, <2>1, PlacingHost DEF Unshare, Placing
<1>2. CASE MakeReadOnly
  <2> DEFINE new == [i \in DOMAIN ns.new |-> AddAttr(ns.new[i], {"ro", "nosuid"})]
  <2>1. ns'.new = new /\ ns'.old = ns.old
    BY <1>2 DEF MakeReadOnly, NsInv
  <2>2. MountsOK(ns.new) /\ OneHost(ns.new)
    BY <1>2 DEF MakeReadOnly, HostMounts, Grown, JailTypeOK, Early, Ending
  <2>3. \A i \in DOMAIN ns.new :
          new[i].at = ns.new[i].at /\ new[i].fs = ns.new[i].fs /\ new[i].root = ns.new[i].root
    <3>1. \A i \in DOMAIN ns.new : ns.new[i] \in Attached
      BY <2>2 DEF MountsOK
    <3> QED
      BY <3>1 DEF AddAttr, Attached, Mounts
  <2>4. DOMAIN new = DOMAIN ns.new
    OBVIOUS
  <2> HIDE DEF new
  <2>5. OneHost(new)
    BY <2>2, <2>3, <2>4 DEF OneHost, HostOnce, OverlayBelow
  <2> QED
    BY <1>2, <2>1, <2>5, PlacingHost DEF MakeReadOnly, Placing
<1> QED
  BY <1>1, <1>2

\* umount2 of /run/jai takes the overlay with it.
LEMMA OverlayDetached ==
  ASSUME NEW s, MountsOK(s), OverlayBelow(s), NEW j \in DOMAIN s, s[j].fs = "overlay"
  PROVE  Detached(s, kRunRoot)[j].at = Nowhere
<1> DEFINE I == {i \in 1 .. Len(s) : s[i].at = kRunRoot}
           top == SelectLastInSeq(s, LAMBDA m : m.at = kRunRoot)
           t == Detached(s, kRunRoot)
<1>1. s \in Seq(Attached) /\ Len(s) \in Nat /\ DOMAIN s = 1 .. Len(s)
  BY DEF MountsOK
<1>2. I # {} /\ I \in SUBSET (1 .. Len(s))
  BY <1>1 DEF OverlayBelow
<1>3. Max(I) \in I
  BY <1>1, <1>2, LargestExists
<1>4. top = Max(I)
  BY <1>2 DEF SelectLastInSeq
<1>5. top \in DOMAIN s /\ s[top].at = kRunRoot /\ top # 0
  BY <1>1, <1>3, <1>4
<1>6. t = TakeOff(s, kRunRoot, top)
  BY <1>5 DEF Detached
<1> HIDE DEF top, t, I
<1>7. top < j /\ contains(kRunRoot, s[j].at)
  BY <1>5 DEF OverlayBelow
<1>8. t[j] = [s[j] EXCEPT !.at = Nowhere] /\ s[j] \in Attached
  BY <1>1, <1>5, <1>6, <1>7 DEF TakeOff
<1> QED
  BY <1>8 DEF Attached, Mounts, t

LEMMA DetachHost ==
  ASSUME HostMounts, Grown, NsInv, DetachShared
  PROVE  HostMounts' /\ UNCHANGED << conf, dirs >> /\ pc' \notin AfterGrants
<1> DEFINE a == Detached(ns.new, kRunRoot)
           b == Detached(a, <<"tmp">>)
           c == Detached(b, <<"var", "tmp">>)
<1>1. /\ pc = "detach" /\ pc' = "place_tmp" /\ UNCHANGED << conf, tree, dirs >>
      /\ ns'.new = c /\ ns'.old = ns.old
  BY DEF DetachShared, Step, Goto, files, NsInv, InNewNs, Ending, Change
<1>2. MountsOK(ns.new) /\ HostOnce(ns.new) /\ OverlayBelow(ns.new)
  BY <1>1 DEF HostMounts, OneHost, Grown, JailTypeOK, Early, Ending
<1>3. kRunRoot # << >> /\ <<"tmp">> # << >> /\ <<"var", "tmp">> # << >>
  BY DEF kRunRoot
<1>4. \A j \in DOMAIN ns.new : ns.new[j].fs = "overlay" => a[j].at = Nowhere
  BY <1>2, OverlayDetached
<1> HIDE DEF a, b, c
<1>5. /\ MountsOK(a) /\ DOMAIN a = DOMAIN ns.new
      /\ \A i \in DOMAIN ns.new : a[i] = ns.new[i] \/ a[i].at = Nowhere
  BY <1>2, <1>3, DetachedOnly, FixedPaths DEF a
<1>6. /\ MountsOK(b) /\ DOMAIN b = DOMAIN a /\ \A i \in DOMAIN a : b[i] = a[i] \/ b[i].at = Nowhere
  BY <1>3, <1>5, DetachedOnly, FixedPaths DEF b
<1>7. /\ DOMAIN c = DOMAIN b /\ \A i \in DOMAIN b : c[i] = b[i] \/ c[i].at = Nowhere
  BY <1>3, <1>6, DetachedOnly, FixedPaths DEF c
<1>8. ASSUME NEW i \in DOMAIN c, c[i].at # Nowhere
      PROVE  InOwnPlace(c[i])
  <2>1. i \in DOMAIN ns.new /\ c[i] = ns.new[i] /\ a[i] = ns.new[i]
    BY <1>5, <1>6, <1>7, <1>8
  <2>2. ns.new[i].fs # "overlay"
    BY <1>4, <1>8, <2>1
  <2> QED
    BY <1>2, <2>1, <2>2 DEF HostOnce, InOwnPlace
<1> QED
  BY <1>1, <1>8, PlacingHost DEF Placing

LEMMA PlaceHost ==
  ASSUME HostMounts, Grown, NsInv, NEW from \in Placing \ {"detach"},
         NEW to \in (Placing \ {"detach"}) \cup {"cwd"}, NEW m \in MountSet, NEW q \in Paths,
         Place(from, to, m, q), InOwnPlace(At(q, m))
  PROVE  HostMounts' /\ UNCHANGED << conf, dirs >> /\ pc' \notin AfterGrants
<1>1. /\ pc = from /\ pc' = to /\ UNCHANGED << conf, tree, dirs >>
      /\ IF m = NoMount THEN UNCHANGED ns ELSE Attach(m, q)
  BY DEF Place, Goto, files
<1>2. pc \in InNewNs /\ pc \in AfterDetach /\ pc \notin AfterGrants /\ pc' \notin {"private", "detach"}
  BY <1>1 DEF InNewNs, AfterDetach, TmpTaken, VarTmpTaken, HomeTaken, RunTaken, Placing, AfterGrants
<1>3. \A i \in DOMAIN ns.new : ns.new[i].at = Nowhere \/ InOwnPlace(ns.new[i])
  BY <1>2 DEF HostMounts, HostShown
<1>4. /\ ns'.old = ns.old
      /\ \A i \in DOMAIN ns'.new : ns'.new[i].at = Nowhere \/ InOwnPlace(ns'.new[i])
  <2>1. CASE m = NoMount
    BY <1>1, <1>3, <2>1
  <2>2. CASE m # NoMount
    <3>1. /\ ns'.old = ns.old /\ DOMAIN ns.new = 1 .. Len(ns.new) /\ Len(ns.new) \in Nat
          /\ DOMAIN ns'.new = 1 .. Len(ns.new) + 1
          /\ ns'.new[Len(ns.new) + 1] = At(q, m)
          /\ \A i \in 1 .. Len(ns.new) : ns'.new[i] = ns.new[i]
      BY <1>1, <1>2, <2>2, Attaching DEF Grown
    <3>2. ASSUME NEW i \in DOMAIN ns'.new
          PROVE  ns'.new[i].at = Nowhere \/ InOwnPlace(ns'.new[i])
      <4>1. CASE i = Len(ns.new) + 1
        BY <3>1, <4>1
      <4>2. CASE i # Len(ns.new) + 1
        BY <1>3, <3>1, <4>2
      <4> QED
        BY <4>1, <4>2
    <3> QED
      BY <3>1, <3>2
  <2> QED
    BY <2>1, <2>2
<1> QED
  BY <1>1, <1>2, <1>4, PlacingHost

LEMMA PlacesHost ==
  ASSUME HostMounts, Grown, NsInv, PlaceTmp \/ PlaceVarTmp \/ PlaceHome \/ PlacePasswd \/ PlaceRun
  PROVE  HostMounts' /\ UNCHANGED << conf, dirs >> /\ pc' \notin AfterGrants
<1>1. /\ \A t \in Kinds : tree[t] \in MountSet
      /\ "tmp" \in Kinds /\ "home" \in Kinds /\ "passwd" \in Kinds /\ "rundir" \in Kinds
  BY DEF Grown, JailTypeOK, Kinds, MountSet
<1>2. {"place_tmp", "place_vartmp", "place_home", "place_passwd", "place_run"}
        \subseteq Placing \ {"detach"}
  BY DEF Placing
<1>3. \A t \in {"tmp", "passwd", "rundir"}, q \in Paths : InOwnPlace(At(q, tree[t]))
  BY DEF HostMounts, InOwnPlace, At
<1>4. CASE PlaceTmp
  BY <1>1, <1>2, <1>3, <1>4, PlaceHost, FixedPaths DEF PlaceTmp
<1>5. CASE PlaceVarTmp
  <2>1. Place("place_vartmp", "place_home", tree.tmp, <<"var", "tmp">>)
    BY <1>5, VarTmpPlaced
  <2> QED
    BY <1>1, <1>2, <1>3, <2>1, PlaceHost, FixedPaths
<1>6. CASE PlaceHome
  <2>1. Place("place_home", "place_passwd", tree.home, conf.homepath_) /\ pc \in Placing
    BY <1>2, <1>6 DEF PlaceHome, Place, Goto
  <2>2. conf.homepath_ \in Paths /\ SandboxHome \in Paths
    BY WorldPaths, MountOK DEF Grown, JailTypeOK, Mount
  <2>3. Holds("home", HomeMount)
    BY <2>1 DEF HostMounts
  <2>4. /\ At(conf.homepath_, tree.home).at = conf.homepath_
        /\ At(conf.homepath_, tree.home).fs = HomeMount.fs
        /\ At(conf.homepath_, tree.home).root = HomeMount.root
    BY <2>3 DEF At, Holds
  <2>5. contains(SandboxHome, SandboxHome)
    BY <2>2, PathFacts
  <2>6. InOwnPlace(At(conf.homepath_, tree.home))
    <3>1. CASE conf.mode_ = kCasual
      <4>1. HomeMount.fs = "overlay" /\ HomeMount.root = << >>
        BY <3>1 DEF HomeMount, Mount
      <4> QED
        BY <2>4, <3>1, <4>1 DEF InOwnPlace
    <3>2. CASE conf.mode_ # kCasual
      <4>1. HomeMount.fs = "host" /\ HomeMount.root = SandboxHome
        BY <3>2 DEF HomeMount, Mount
      <4> QED
        BY <2>4, <2>5, <3>2, <4>1 DEF InOwnPlace
    <3> QED
      BY <3>1, <3>2
  <2> QED
    BY <1>1, <1>2, <2>1, <2>2, <2>6, PlaceHost
<1>7. CASE PlacePasswd
  BY <1>1, <1>2, <1>3, <1>7, PlaceHost, FixedPaths DEF PlacePasswd
<1>8. CASE PlaceRun
  BY <1>1, <1>2, <1>3, <1>8, PlaceHost, FixedPaths DEF PlaceRun
<1> QED
  BY <1>4, <1>5, <1>6, <1>7, <1>8

-----------------------------------------------------------------------------
(* The mounts that show the host: what is granted, and what is hidden *)

LEMMA GrantHost ==
  ASSUME SecretsOnHost, HostMounts, Grown, NsInv, AttachGrant
  PROVE  HostMounts' /\ UNCHANGED << conf, dirs >> /\ pc' \notin AfterGrants
<1>1. /\ pc = "attach" /\ pc' = "grants" /\ UNCHANGED << conf, tree, dirs >> /\ Attach(tree.src, d)
  BY DEF AttachGrant, Step, Goto, files
<1>2. /\ pc \in InNewNs /\ pc \in AfterDetach /\ pc \notin AfterGrants /\ pc \in Late /\ pc \in Opened
      /\ pc \in Body
      /\ pc' \notin AfterGrants /\ pc' \notin MakingOverlay
      /\ pc' \notin {"private", "detach", "setattr", "unshare"} \cup Placing
  BY <1>1 DEF InNewNs, AfterDetach, TmpTaken, VarTmpTaken, HomeTaken, RunTaken, AfterGrants, Late,
              Body, Opened, Cloned, MakingOverlay, Placing
<1>3. /\ d \in Paths /\ tree.src \in MountSet /\ d \in Granted /\ MountsOK(ns.old)
      /\ [fs |-> tree.src.fs, path |-> tree.src.root] = Resolve(ns.old, d)
  BY <1>2 DEF Grown, JailTypeOK, GrantsInTime, Ahead, MountSet
<1> DEFINE n == MountOf(ns.old, d)
           k == ns.old[n]
<1>4. n \in DOMAIN ns.old /\ contains(k.at, d) /\ k.at \in Paths
  BY <1>3, Shown DEF MountsOK
<1>5. tree.src.fs = k.fs /\ tree.src.root = k.root \o Rest(d, k.at)
  <2>1. Resolve(ns.old, d).fs = k.fs /\ Resolve(ns.old, d).path = k.root \o Rest(d, k.at)
    BY DEF Resolve
  <2>2. Resolve(ns.old, d).fs = tree.src.fs /\ Resolve(ns.old, d).path = tree.src.root
    BY <1>3
  <2> QED
    BY <2>1, <2>2
<1> HIDE DEF n
<1>6. OneHost(ns.old) /\ kRunRoot \in Paths
  BY FixedPaths DEF HostMounts
<1>7. tree.src.fs # "overlay"
  <2> SUFFICES ASSUME k.fs = "overlay" PROVE FALSE
    BY <1>5
  <2>1. contains(kRunRoot, k.at)
    BY <1>4, <1>6 DEF OneHost, OverlayBelow
  <2>2. contains(kRunRoot, d)
    BY <1>3, <1>4, <1>6, <2>1, ContainsTrans
  <2> QED
    BY <1>3, <2>2 DEF SecretsOnHost
<1>8. tree.src.fs = "host" => tree.src.root = d
  <2> SUFFICES ASSUME tree.src.fs = "host" PROVE tree.src.root = d
    OBVIOUS
  <2>1. k.at = << >> /\ k.root = << >>
    BY <1>4, <1>5, <1>6 DEF OneHost, HostOnce
  <2>2. << >> \o Rest(d, << >>) = d
    BY <1>3, <1>4, <2>1, ContainsFacts, FixedPaths
  <2> QED
    BY <1>5, <2>1, <2>2
<1>9. InOwnPlace(At(d, tree.src))
  BY <1>3, <1>7, <1>8 DEF InOwnPlace, At
<1>10. /\ ns'.old = ns.old /\ DOMAIN ns.new = 1 .. Len(ns.new) /\ Len(ns.new) \in Nat
       /\ DOMAIN ns'.new = 1 .. Len(ns.new) + 1
       /\ ns'.new[Len(ns.new) + 1] = At(d, tree.src)
       /\ \A i \in 1 .. Len(ns.new) : ns'.new[i] = ns.new[i]
  BY <1>1, <1>2, <1>3, Attaching DEF Grown
<1>11. ASSUME NEW i \in DOMAIN ns'.new
       PROVE  HostShown(ns.new[i])'
  <2>1. CASE i = Len(ns.new) + 1
    BY <1>1, <1>9, <1>10, <2>1, SameHost DEF HostShown
  <2>2. CASE i # Len(ns.new) + 1
    <3>1. HostShown(ns.new[i]) /\ ns'.new[i] = ns.new[i]
      BY <1>2, <1>10, <2>2 DEF HostMounts
    <3> QED
      BY <1>1, <1>2, <3>1, SameHost DEF HostShown
  <2> QED
    BY <2>1, <2>2
<1>12. /\ OneHost(ns.old)' /\ (conf'.mode_ # kCasual => ns'.old = StartMounts')
       /\ \A t \in {"tmp", "passwd", "rundir"} : tree'[t].fs \notin {"host", "overlay"}
  BY <1>1, <1>10, SameHost DEF HostMounts
<1> QED
  BY <1>1, <1>2, <1>11, <1>12 DEF HostMounts

LEMMA SameEmpty ==
  ASSUME UNCHANGED << conf, dirs >>
  PROVE  /\ \A m : Empty(m)' = Empty(m)
         /\ \A i : Reveals(i)' = Reveals(i)
<1>1. SandboxHome' = SandboxHome /\ Blocked' = Blocked
  BY DEF SandboxHome, Blocked
<1>2. \A i : Reveals(i)' = Reveals(i)
  BY <1>1 DEF Reveals, Secret
<1> QED
  BY <1>1, <1>2 DEF Empty

\* Nothing secret is at /run/jai in the jail, nor at or above it.
LEMMA RunRootShows ==
  ASSUME SecretsOnHost, HostMounts, MountsOK(ns.new), conf \in Worlds, pc \in AfterDetach
  PROVE  ~Reveals(Resolve(ns.new, kRunRoot))
<1> DEFINE n == MountOf(ns.new, kRunRoot)
           m == ns.new[n]
<1>1. kRunRoot \in Paths
  BY FixedPaths
<1>2. /\ n \in DOMAIN ns.new /\ contains(m.at, kRunRoot) /\ m \in Attached /\ m.at \in Paths
  BY <1>1, Shown DEF MountsOK
<1>3. m.root \in Paths /\ m.at # Nowhere
  BY <1>1, <1>2, PathFacts DEF Attached, Mounts
<1>4. Resolve(ns.new, kRunRoot) = [fs |-> m.fs, path |-> m.root \o Rest(kRunRoot, m.at)]
  BY DEF Resolve
<1> HIDE DEF n
<1>5. \A b \in Blocked : ~contains(b, kRunRoot)
  BY DEF SecretsOnHost
<1>6. InOwnPlace(m) \/ Empty(m)
  BY <1>2, <1>3 DEF HostMounts, HostShown
<1>7. CASE Empty(m)
  BY <1>2, <1>5, <1>7 DEF Empty
<1>8. CASE InOwnPlace(m)
  BY <1>1, <1>2, <1>3, <1>4, <1>5, <1>8, OwnPlaceShows
<1> QED
  BY <1>6, <1>7, <1>8

\* One more mount on top of a directory.
LEMMA AttachedView ==
  ASSUME NsInv, JailTypeOK, pc \in InNewNs, NEW q \in Paths, NEW m \in MountSet, Attach(m, q),
         NEW r \in Paths
  PROVE  /\ contains(q, r) => Resolve(ns'.new, r) = [fs |-> m.fs, path |-> m.root \o Rest(r, q)]
         /\ ~contains(q, r) => /\ Resolve(ns'.new, r) = Resolve(ns.new, r)
                               /\ AttrOf(ns'.new, r) = AttrOf(ns.new, r)
<1>1. ns'.new = Append(ns.new, At(q, m))
  BY DEF Attach, Change, NsInv, InNewNs, Ending
<1>2. MountsOK(ns.new)
  BY DEF JailTypeOK, InNewNs, Early, Ending
<1> DEFINE t == Append(ns.new, At(q, m))
<1>3. /\ contains(q, r) => Resolve(t, r) = [fs |-> m.fs, path |-> m.root \o Rest(r, q)]
      /\ ~contains(q, r) => Resolve(t, r) = Resolve(ns.new, r) /\ AttrOf(t, r) = AttrOf(ns.new, r)
  BY <1>2, AppendView
<1> HIDE DEF t
<1> QED
  BY <1>1, <1>3 DEF t

LEMMA CoverHides ==
  ASSUME SecretsOnHost, HostMounts, Grown, NsInv, Cover, BlockedInTime
  PROVE  /\ HostMounts' /\ BlockedInTime' /\ UNCHANGED << conf, dirs >>
<1> DEFINE i == Resolve(ns.new, kRunRoot)
           m == AddAttr(Mount(i.fs, i.path), {"ro", "nosuid", "nodev"})
           q == Head(block)
<1>1. /\ pc = "cover" /\ pc' = "next_block"
      /\ UNCHANGED << conf, user_cred_, untrusted_cred_, tree, dirs, block >>
  BY DEF Cover, Step, Goto, files, loops, idVars
<1>2. /\ pc \in InNewNs /\ pc \in AfterDetach /\ pc \in AfterGrants /\ pc' \in AfterGrants
      /\ pc' \in AfterDetach /\ pc \in Blocking /\ pc \notin Early \cup Ending
      /\ pc' \notin MakingOverlay
      /\ pc' \notin {"private", "detach", "setattr", "unshare"} \cup Placing
  BY <1>1 DEF InNewNs, AfterDetach, TmpTaken, VarTmpTaken, HomeTaken, RunTaken, AfterGrants, Late,
              Blocking, Early, Ending, MakingOverlay, Placing
<1>3. Attach(m, q) /\ \A x \in dirs : Under(x, i.fs, i.path) => x.path = i.path
  <2>1. cur = "new"
    BY <1>2 DEF NsInv
  <2> QED
    BY <2>1 DEF Cover
<1>4. JailTypeOK /\ MountsOK(ns.new) /\ conf \in Worlds
  BY <1>2 DEF Grown, JailTypeOK
<1>5. block \in Seq(Blocked) /\ block # << >> /\ q \in Blocked /\ q \in Paths
  <2>1. block \in Seq(Blocked) /\ block # << >>
    BY <1>2, <1>4 DEF JailTypeOK, Blocked
  <2> QED
    BY <1>4, <2>1, HeadTailProperties, WorldPaths DEF Blocked
<1>6. i.fs \in FileSystem /\ i.path \in Paths /\ ~Reveals([fs |-> i.fs, path |-> i.path])
  <2>1. i.fs \in FileSystem /\ i.path \in Paths /\ ~Reveals(i)
    BY <1>2, <1>4, FixedPaths, Resolved, RunRootShows
  <2>2. i = [fs |-> i.fs, path |-> i.path]
    BY DEF Resolve
  <2> QED
    BY <2>1, <2>2
<1> HIDE DEF i, q
<1>7. m = [fs |-> i.fs, root |-> i.path, attr |-> {"ro", "nosuid", "nodev"}]
  BY WithAttr
<1>8. m \in MountSet /\ m.fs = i.fs /\ m.root = i.path
  BY <1>6, <1>7 DEF MountSet, Flags
<1> HIDE DEF m
<1>9. Empty(At(q, m))
  BY <1>3, <1>5, <1>6, <1>8 DEF Empty, At
<1>10. /\ ns'.old = ns.old /\ DOMAIN ns.new = 1 .. Len(ns.new) /\ Len(ns.new) \in Nat
       /\ DOMAIN ns'.new = 1 .. Len(ns.new) + 1
       /\ ns'.new[Len(ns.new) + 1] = At(q, m)
       /\ \A j \in 1 .. Len(ns.new) : ns'.new[j] = ns.new[j]
  BY <1>2, <1>3, <1>4, <1>5, <1>8, Attaching
<1>11. ASSUME NEW j \in DOMAIN ns'.new
       PROVE  HostShown(ns.new[j])'
  <2>1. CASE j = Len(ns.new) + 1
    BY <1>1, <1>2, <1>9, <1>10, <2>1, SameEmpty DEF HostShown
  <2>2. CASE j # Len(ns.new) + 1
    <3>1. HostShown(ns.new[j]) /\ ns'.new[j] = ns.new[j]
      BY <1>2, <1>10, <2>2 DEF HostMounts
    <3> QED
      BY <1>1, <1>2, <3>1, SameHost, SameEmpty DEF HostShown
  <2> QED
    BY <2>1, <2>2
<1>12. HostMounts'
  <2>1. /\ OneHost(ns.old)' /\ (conf'.mode_ # kCasual => ns'.old = StartMounts')
        /\ \A t \in {"tmp", "passwd", "rundir"} : tree'[t].fs \notin {"host", "overlay"}
    BY <1>1, <1>10, SameHost DEF HostMounts
  <2> QED
    BY <1>1, <1>2, <1>11, <2>1 DEF HostMounts
<1>13. ASSUME NEW b \in Blocked, Closed(b) \/ b = q
       PROVE  Closed(b)'
  <2>1. ASSUME NEW p \in Paths, contains(q, p), Exists(ns.new, p)'
        PROVE  ~Reveals(Resolve(ns.new, p))'
    <3>1. PICK x \in dirs : Resolve(ns'.new, p) = [fs |-> x.fs, path |-> x.path]
      BY <1>1, <2>1 DEF Exists, Entry
    <3>2. Resolve(ns'.new, p) = [fs |-> m.fs, path |-> m.root \o Rest(p, q)]
      BY <1>2, <1>3, <1>4, <1>5, <1>8, <2>1, AttachedView
    <3>3. x.fs = m.fs /\ x.path = m.root \o Rest(p, q)
      <4>1. Resolve(ns'.new, p).fs = x.fs /\ Resolve(ns'.new, p).path = x.path
        BY <3>1
      <4>2. Resolve(ns'.new, p).fs = m.fs /\ Resolve(ns'.new, p).path = m.root \o Rest(p, q)
        BY <3>2
      <4> QED
        BY <4>1, <4>2
    <3>4. Rest(p, q) \in Paths /\ At(q, m).fs = m.fs /\ At(q, m).root = m.root /\ m.root \in Paths
      BY <1>5, <1>6, <1>8, RestOK DEF At
    <3>5. ~Reveals([fs |-> x.fs, path |-> x.path])
      BY <1>9, <3>3, <3>4, EmptyShows
    <3> QED
      BY <1>1, <3>1, <3>5, SameEmpty
  <2>2. \A r \in Paths : ~contains(q, r) =>
          Resolve(ns'.new, r) = Resolve(ns.new, r) /\ AttrOf(ns'.new, r) = AttrOf(ns.new, r)
    BY <1>2, <1>3, <1>4, <1>5, <1>8, AttachedView
  <2>3. b \in Paths
    BY <1>4, WorldPaths DEF Blocked
  <2> QED
    BY <1>1, <1>5, <1>13, <2>1, <2>2, <2>3, TopCloses
<1>14. ASSUME NEW b \in Blocked'
       PROVE  Pending(b)' \/ Closed(b)'
  <2>1. b \in Blocked
    BY <1>1 DEF Blocked
  <2>2. CASE Closed(b)
    BY <1>13, <2>1, <2>2
  <2>3. CASE Pending(b)
    <3>1. PICK k \in DOMAIN block : block[k] = b
      BY <2>3 DEF Pending
    <3>2. CASE k = 1
      <4>1. b = q
        BY <1>5, <3>1, <3>2 DEF q
      <4> QED
        BY <1>13, <2>1, <4>1
    <3>3. CASE k # 1
      <4>1. k > 1
        BY <1>5, <3>1, <3>3
      <4> QED
        BY <1>1, <3>1, <4>1 DEF Pending, Blocking
    <3> QED
      BY <3>2, <3>3
  <2> QED
    BY <1>2, <2>1, <2>2, <2>3 DEF BlockedInTime
<1>15. BlockedInTime'
  BY <1>1, <1>14 DEF BlockedInTime
<1> QED
  BY <1>1, <1>12, <1>15

-----------------------------------------------------------------------------
(* blockdir, for both directories *)

LEMMA TimeKeeps ==
  ASSUME BlockedInTime, pc \in AfterGrants, pc' \in AfterGrants \cup Ending,
         UNCHANGED << conf, ns, dirs, user_cred_, untrusted_cred_ >>,
         pc' = "open_block" => euid' = sbcred.uid,
         pc' = "skip_block" => block' = block /\ ~CanRead(ns.new, sbcred.uid, Head(block)),
         pc' \in AfterGrants => \A b \in Blocked : Pending(b) => Pending(b)' \/ Closed(b)
  PROVE  BlockedInTime'
<1>1. sbcred' = sbcred
  BY DEF sbcred
<1>2. /\ \A b : Closed(b)' = Closed(b)
      /\ \A p : CanRead(ns.new, sbcred.uid, p)' = CanRead(ns.new, sbcred.uid, p)
      /\ Blocked' = Blocked
  BY ClosedStays
<1>3. pc' = "skip_block" => ~CanRead(ns.new, sbcred.uid, Head(block))'
  BY <1>2
<1>4. pc' \in AfterGrants => \A b \in Blocked' : Pending(b)' \/ Closed(b)'
  BY <1>2 DEF BlockedInTime
<1> QED
  BY <1>1, <1>3, <1>4 DEF BlockedInTime

\* What is left to do stays so as long as blockdir is at the same directory.
LEMMA SamePending ==
  ASSUME UNCHANGED block, pc' \in Blocking \ {"next_block"}
  PROVE  \A b : Pending(b) => Pending(b)'
  BY DEF Pending

LEMMA FirstDone ==
  ASSUME UNCHANGED block, pc' = "next_block", block \in Seq(Blocked), block # << >>,
         Closed(Head(block))
  PROVE  \A b \in Blocked : Pending(b) => Pending(b)' \/ Closed(b)
<1> TAKE b \in Blocked
<1> SUFFICES ASSUME Pending(b) PROVE Pending(b)' \/ Closed(b)
  OBVIOUS
<1>1. PICK k \in DOMAIN block : block[k] = b
  BY DEF Pending
<1>2. CASE k = 1
  <2>1. b = Head(block)
    BY <1>1, <1>2
  <2> QED
    BY <2>1
<1>3. CASE k # 1
  <2>1. k > 1
    BY <1>1, <1>3
  <2> QED
    BY <1>1, <2>1 DEF Pending, Blocking
<1> QED
  BY <1>2, <1>3

LEMMA QuietInTime ==
  ASSUME SecretsOnHost, HostMounts, Grown, PrivInv, NsInv, BlockedInTime, pc \in AfterGrants, QuietAfter
  PROVE  BlockedInTime'
<1> USE DEF Step, Goto, Same, where, files, loops
<1>1. /\ UNCHANGED << conf, ns, dirs, tree, user_cred_, untrusted_cred_ >>
      /\ pc' \in AfterGrants \cup Ending
  BY QuietAfterSteps
<1>2. /\ pc \in Blocking => block \in Seq(Blocked) /\ block # << >> /\ Head(block) \in Blocked
      /\ Blocked \subseteq Paths
  <2>1. block \in Seq(Blocked) /\ (pc \in Blocking => block # << >>)
    BY DEF Grown, JailTypeOK, Blocked
  <2>2. Blocked \subseteq Paths
    BY WorldPaths DEF Grown, JailTypeOK, Blocked
  <2> QED
    BY <2>1, <2>2, HeadTailProperties
<1>3. CASE LowerForBlock
  <2>1. pc = "block" /\ Lower("block", "open_block", sbcred) /\ UNCHANGED block
        /\ pc' \in {"open_block", "unwind"}
    BY <1>3 DEF LowerForBlock, Lower
  <2>2. AsRoot(<< RestoreNs >>)
    BY <2>1, Places DEF InMakeMntNs
  <2>3. pc' = "open_block" => euid' = sbcred.uid
    BY <2>1, <2>2, Lowered DEF LoweredThere
  <2>4. pc' \in AfterGrants => pc' \in Blocking \ {"next_block"}
    BY <2>1 DEF AfterGrants, Blocking
  <2> QED
    BY <1>1, <2>1, <2>3, <2>4, SamePending, TimeKeeps
<1>4. CASE OpenBlocked
  <2>1. /\ pc = "open_block" /\ UNCHANGED block /\ pc' \in {"reset_block", "skip_block"}
        /\ pc' = "skip_block" => ~CanRead(ns[cur], euid, Head(block))
    BY <1>4 DEF OpenBlocked
  <2>2. cur = "new" /\ euid = sbcred.uid /\ pc' \in Blocking \ {"next_block"}
    BY <2>1 DEF NsInv, InNewNs, BlockedInTime, Blocking
  <2> QED
    BY <1>1, <2>1, <2>2, SamePending, TimeKeeps
<1>5. CASE SkipBlocked
  <2>1. pc = "skip_block" /\ UNCHANGED block /\ pc' \in {"next_block", "terminated"}
    BY <1>5 DEF SkipBlocked, Leave
  <2>2. Closed(Head(block))
    BY <1>2, <2>1, SkippedClosed DEF BlockedInTime, Blocking
  <2>3. pc' \in AfterGrants => pc' = "next_block"
    BY <2>1 DEF AfterGrants
  <2> QED
    BY <1>1, <1>2, <2>1, <2>2, <2>3, FirstDone, TimeKeeps DEF Blocking
<1>6. CASE ResetBlocked
  <2>1. pc = "reset_block" /\ UNCHANGED block /\ pc' \in {"compare", "unwind"}
    BY <1>6 DEF ResetBlocked, Reset
  <2>2. pc' \in AfterGrants => pc' \in Blocking \ {"next_block"}
    BY <2>1 DEF AfterGrants, Blocking
  <2> QED
    BY <1>1, <2>1, <2>2, SamePending, TimeKeeps
<1>7. CASE Compare
  <2>1. /\ pc = "compare" /\ UNCHANGED block /\ pc' \in {"cover", "next_block"}
        /\ pc' = "next_block" =>
             /\ conf.mode_ # kCasual
             /\ Resolve(ns.old, Head(block)) # Resolve(ns.new, Head(block))
    BY <1>7 DEF Compare
  <2>2. pc' = "next_block" => Closed(Head(block))
    BY <1>2, <2>1, ComparedClosed DEF Blocking
  <2>3. CASE pc' = "cover"
    BY <1>1, <2>1, <2>3, SamePending, TimeKeeps DEF Blocking
  <2>4. CASE pc' = "next_block"
    BY <1>1, <1>2, <2>1, <2>2, <2>4, FirstDone, TimeKeeps DEF Blocking
  <2> QED
    BY <2>1, <2>3, <2>4
<1>8. CASE NextBlocked
  <2>1. pc = "next_block" /\ pc' = "block" /\ block' = Tail(block)
    BY <1>8 DEF NextBlocked
  <2>2. ASSUME NEW b \in Blocked, Pending(b)
        PROVE  Pending(b)'
    <3>1. PICK k \in DOMAIN block : block[k] = b /\ k > 1
      BY <2>1, <2>2 DEF Pending
    <3>2. block \in Seq(Blocked) /\ block # << >>
      BY <1>2, <2>1 DEF Blocking
    <3>3. k - 1 \in DOMAIN Tail(block) /\ Tail(block)[k - 1] = block[k]
      BY <3>1, <3>2
    <3> QED
      BY <2>1, <3>1, <3>3 DEF Pending
  <2> QED
    BY <1>1, <2>1, <2>2, TimeKeeps
<1>9. CASE ReturnNs
  <2>1. pc' = "exec" /\ ~ \E b : Pending(b)
    BY <1>9 DEF ReturnNs, Pending
  <2> QED
    BY <1>1, <2>1, TimeKeeps
<1>10. CASE ChildSetNs \/ MakeReal \/ Chdir
  <2>1. pc' \notin {"open_block", "skip_block"} /\ ~ \E b : Pending(b)
    BY <1>10 DEF ChildSetNs, MakeReal, Chdir, Pending, Blocking
  <2> QED
    BY <1>1, <2>1, TimeKeeps
<1>11. CASE Throw \/ ExitNow
  <2>1. pc' \in {"unwind", "exited"}
    BY <1>11 DEF Throw, ExitNow
  <2> QED
    BY <2>1 DEF BlockedInTime, AfterGrants
<1> QED
  BY <1>3, <1>4, <1>5, <1>6, <1>7, <1>8, <1>9, <1>10, <1>11 DEF QuietAfter

\* The jail's own /proc shows nothing of the host.
LEMMA ProcHides ==
  ASSUME HostMounts, Grown, NsInv, FixProc, BlockedInTime
  PROVE  HostMounts' /\ BlockedInTime' /\ UNCHANGED << conf, dirs >>
<1> DEFINE q == <<"proc">>
           t == TakeOff(ns.new, q, 1)
           m == AddAttr(Mount("jailproc", << >>), {"nosuid", "nodev"})
<1>1. /\ pc = "proc" /\ pc' = "make_real"
      /\ UNCHANGED << conf, user_cred_, untrusted_cred_, tree, dirs, block >>
  BY DEF FixProc, Step, Goto, files, loops, idVars
<1>2. /\ pc \in InNewNs /\ pc \in AfterDetach /\ pc \in AfterGrants /\ pc' \in AfterGrants
      /\ pc \notin Early \cup Ending /\ pc' \notin MakingOverlay
      /\ pc' \notin {"private", "detach", "setattr", "unshare"} \cup Placing
  BY <1>1 DEF InNewNs, AfterDetach, TmpTaken, VarTmpTaken, HomeTaken, RunTaken, AfterGrants, Late,
              Early, Ending, MakingOverlay, Placing
<1>3. ns'.new = Append(t, At(q, m)) /\ ns'.old = ns.old
  BY <1>2 DEF FixProc, NsInv
<1>4. MountsOK(ns.new) /\ conf \in Worlds
  BY <1>2 DEF Grown, JailTypeOK
<1>5. q \in Paths /\ q # << >>
  BY FixedPaths
<1>6. m \in MountSet /\ m.fs = "jailproc"
  <2>1. "jailproc" \in FileSystem
    BY NameAssumption
  <2> QED
    BY <2>1, WithAttr, FixedPaths DEF MountSet, Flags
<1> HIDE DEF m, q
<1>7. /\ MountsOK(t) /\ DOMAIN t = DOMAIN ns.new
      /\ \A i \in DOMAIN ns.new :
           \/ t[i] = ns.new[i]
           \/ contains(q, ns.new[i].at) /\ t[i] = [ns.new[i] EXCEPT !.at = Nowhere]
  BY <1>4, <1>5, TakeOffOK
<1>8. \A r \in Paths : ~contains(q, r) =>
        Resolve(t, r) = Resolve(ns.new, r) /\ AttrOf(t, r) = AttrOf(ns.new, r)
  BY <1>4, <1>5, TakeOffView
<1> HIDE DEF t
<1>9. \A i \in DOMAIN ns.new : t[i] = ns.new[i] \/ t[i].at = Nowhere
  <2>1. \A i \in DOMAIN ns.new : ns.new[i] \in Attached
    BY <1>4 DEF MountsOK
  <2> QED
    BY <1>7, <2>1 DEF Attached, Mounts
<1>10. /\ Len(t) \in Nat /\ DOMAIN t = 1 .. Len(t)
       /\ DOMAIN ns'.new = 1 .. Len(t) + 1 /\ ns'.new[Len(t) + 1] = At(q, m)
       /\ \A i \in 1 .. Len(t) : ns'.new[i] = t[i]
  BY <1>3, <1>5, <1>6, <1>7, AppendOK DEF MountSet
<1>11. ASSUME NEW i \in DOMAIN ns'.new
       PROVE  HostShown(ns.new[i])'
  <2>1. CASE i = Len(t) + 1
    <3>1. InOwnPlace(At(q, m))
      BY <1>6 DEF InOwnPlace, At
    <3> QED
      BY <1>1, <1>10, <2>1, <3>1, SameHost DEF HostShown
  <2>2. CASE i # Len(t) + 1
    <3>1. i \in DOMAIN ns.new /\ ns'.new[i] = t[i] /\ HostShown(ns.new[i])
      BY <1>2, <1>7, <1>10, <2>2 DEF HostMounts
    <3>2. ns'.new[i] = ns.new[i] \/ ns'.new[i].at = Nowhere
      BY <1>9, <3>1
    <3> QED
      BY <1>1, <1>2, <3>1, <3>2, SameHost, SameEmpty DEF HostShown
  <2> QED
    BY <2>1, <2>2
<1>12. HostMounts'
  <2>1. /\ OneHost(ns.old)' /\ (conf'.mode_ # kCasual => ns'.old = StartMounts')
        /\ \A t_ \in {"tmp", "passwd", "rundir"} : tree'[t_].fs \notin {"host", "overlay"}
    BY <1>1, <1>3, SameHost DEF HostMounts
  <2> QED
    BY <1>1, <1>2, <1>11, <2>1 DEF HostMounts
<1>13. ASSUME NEW r \in Paths
       PROVE  /\ contains(q, r) => Resolve(ns'.new, r).fs = "jailproc"
              /\ ~contains(q, r) => /\ Resolve(ns'.new, r) = Resolve(ns.new, r)
                                    /\ AttrOf(ns'.new, r) = AttrOf(ns.new, r)
  <2> DEFINE u == Append(t, At(q, m))
  <2>1. /\ contains(q, r) => Resolve(u, r) = [fs |-> m.fs, path |-> m.root \o Rest(r, q)]
        /\ ~contains(q, r) => Resolve(u, r) = Resolve(t, r) /\ AttrOf(u, r) = AttrOf(t, r)
    BY <1>5, <1>6, <1>7, <1>13, AppendView
  <2> HIDE DEF u
  <2>2. contains(q, r) => Resolve(u, r).fs = "jailproc"
    BY <1>6, <2>1
  <2>3. ~contains(q, r) => Resolve(u, r) = Resolve(ns.new, r) /\ AttrOf(u, r) = AttrOf(ns.new, r)
    BY <1>8, <1>13, <2>1
  <2>4. ns'.new = u
    BY <1>3 DEF u
  <2> QED
    BY <2>2, <2>3, <2>4
<1>14. ASSUME NEW b \in Blocked
       PROVE  Closed(b)'
  <2>1. Closed(b)
    BY <1>1, <1>2 DEF BlockedInTime, Pending, Blocking
  <2>2. \A p \in Paths : contains(q, p) /\ Exists(ns.new, p)' => ~Reveals(Resolve(ns.new, p))'
    BY <1>13 DEF Reveals, Secret
  <2>3. b \in Paths
    BY <1>4, WorldPaths DEF Blocked
  <2> QED
    BY <1>1, <1>5, <1>13, <2>1, <2>2, <2>3, TopCloses
<1>15. Blocked' = Blocked
  BY <1>1, SameHost
<1>16. BlockedInTime'
  BY <1>1, <1>14, <1>15 DEF BlockedInTime
<1> QED
  BY <1>1, <1>12, <1>16

-----------------------------------------------------------------------------
(* The paths of the directories *)

DirsTyped == {x.path : x \in dirs} \subseteq Paths

LEMMA MadeInPaths ==
  ASSUME DirsTyped, Grown, NsInv, MakeBlacklist \/ MakeSandboxHome \/ MakeTarget
  PROVE  DirsTyped'
<1> USE DEF Step, Goto, where, loops
<1>1. /\ conf \in Worlds /\ conf.storagedir_ \in Paths /\ SandboxHome \in Paths
      /\ conf.mask_files_ \subseteq Paths /\ d \in Paths
  <2>1. conf \in Worlds /\ d \in Paths
    BY DEF Grown, JailTypeOK
  <2> QED
    BY <2>1, WorldPaths, MountOK, WorldsAssumption DEF Mount
<1>2. \A fs, path, mode : Made(fs, path, mode).path = path
  BY DEF Made
<1>3. CASE MakeBlacklist
  <2>1. PICK hidden \in SUBSET conf.mask_files_ :
          dirs' = dirs \cup {Made("host", Changes, "private")} \cup {Whiteout(p) : p \in hidden}
    BY <1>3 DEF MakeBlacklist
  <2>2. Changes \in Paths
    <3>1. <<"default.changes">> \in Paths
      <4>1. "default.changes" \in Name
        BY NameAssumption
      <4> QED
        BY <4>1 DEF Paths
    <3> QED
      BY <1>1, <3>1, ContainsFacts DEF Changes
  <2>3. \A p \in hidden : Whiteout(p).path \in Paths
    BY <1>1, <2>2, ContainsFacts DEF Whiteout
  <2> QED
    BY <1>2, <2>1, <2>2, <2>3 DEF DirsTyped
<1>4. CASE MakeSandboxHome
  <2>1. dirs' = dirs \/ dirs' = dirs \cup {Made("host", SandboxHome, "private")}
    BY <1>4 DEF MakeSandboxHome
  <2> QED
    BY <1>1, <1>2, <2>1 DEF DirsTyped
<1>5. CASE MakeTarget
  <2> DEFINE missing == Missing(ns.new, d)
  <2>1. cur = "new" /\ MountsOK(ns.new)
    BY <1>5 DEF MakeTarget, NsInv, InNewNs, Grown, JailTypeOK, Early, Ending
  <2>2. dirs' = dirs \cup {NewDir(ns.new, q) : q \in missing}
    BY <1>5, <2>1 DEF MakeTarget
  <2>3. ASSUME NEW q \in missing PROVE NewDir(ns.new, q).path \in Paths
    <3>1. q \in Paths
      BY <1>1, AboveFacts DEF Missing
    <3>2. Resolve(ns.new, q).path \in Paths
      BY <2>1, <3>1, Resolved
    <3>3. NewDir(ns.new, q).path = Resolve(ns.new, q).path
      BY DEF NewDir, Made
    <3> QED
      BY <3>2, <3>3
  <2> QED
    BY <2>2, <2>3 DEF DirsTyped
<1> QED
  BY <1>3, <1>4, <1>5

LEMMA OverlayInPaths == ASSUME DirsTyped, Grown, MountOverlay PROVE DirsTyped'
<1>1. dirs' = dirs \cup OverlayOf({x \in dirs : ~Hidden(x)})
  BY DEF MountOverlay
<1>2. conf.homepath_ \in Paths
  BY WorldPaths DEF Grown, JailTypeOK
<1>3. \A x \in dirs : Rest(x.path, conf.homepath_) \in Paths
  BY <1>2, RestOK DEF DirsTyped
<1>4. \A y \in OverlayOf({x \in dirs : ~Hidden(x)}) : y.path \in Paths
  BY <1>3 DEF OverlayOf
<1> QED
  BY <1>1, <1>4 DEF DirsTyped

-----------------------------------------------------------------------------
(* SecretsInv *)

LEMMA SecretsInitInv == Init => SecretsInv
<1> SUFFICES ASSUME Init, SecretsOnHost PROVE HostMounts /\ DirsTyped /\ BlockedInTime
  BY DEF SecretsInv, DirsTyped
<1>1. /\ pc = "start" /\ ns.old = StartMounts /\ dirs = conf.dirs /\ conf \in Worlds
      /\ tree = [t \in {"tmp", "passwd", "rundir", "home", "src"} |-> NoMount]
  BY DEF Init
<1>2. /\ pc \notin AfterDetach /\ pc \notin AfterGrants /\ pc \notin MakingOverlay
      /\ pc \notin {"private", "detach", "setattr", "unshare"} \cup Placing
  BY <1>1 DEF AfterDetach, TmpTaken, VarTmpTaken, HomeTaken, RunTaken, Late, Body, Opened, Cloned,
              AfterGrants, MakingOverlay, Placing
<1>3. \A t \in {"tmp", "passwd", "rundir"} : tree[t].fs \notin {"host", "overlay"}
  BY <1>1 DEF NoMount
<1>4. HostMounts
  BY <1>1, <1>2, <1>3 DEF HostMounts, SecretsOnHost
<1>5. DirsTyped
  BY <1>1, WorldsAssumption DEF DirsTyped
<1>6. BlockedInTime
  BY <1>1, <1>2 DEF BlockedInTime
<1> QED
  BY <1>4, <1>5, <1>6

\* Before the grants are done nothing is said about what is hidden.
LEMMA NotYet ==
  ASSUME pc \notin AfterGrants, pc' \in AfterGrants => GrantsDone
  PROVE  BlockedInTime'
<1>1. CASE pc' \notin AfterGrants
  BY <1>1 DEF BlockedInTime, AfterGrants
<1>2. CASE GrantsDone
  <2>1. /\ pc' = "block" /\ UNCHANGED conf
        /\ block' = IF conf.homejaipath_ = conf.storagedir_ THEN << conf.storagedir_ >>
                    ELSE << conf.storagedir_, conf.homejaipath_ >>
    BY <1>2 DEF GrantsDone, Step, Goto
  <2>2. ASSUME NEW b \in Blocked' PROVE \E k \in DOMAIN block' : block'[k] = b
    <3>1. b = conf.storagedir_ \/ b = conf.homejaipath_
      BY <2>1 DEF Blocked
    <3>2. CASE conf.homejaipath_ = conf.storagedir_
      <4>1. 1 \in DOMAIN block' /\ block'[1] = conf.storagedir_
        BY <2>1, <3>2
      <4> QED
        BY <3>1, <3>2, <4>1
    <3>3. CASE conf.homejaipath_ # conf.storagedir_
      <4>1. /\ 1 \in DOMAIN block' /\ block'[1] = conf.storagedir_
            /\ 2 \in DOMAIN block' /\ block'[2] = conf.homejaipath_
        BY <2>1, <3>3
      <4> QED
        BY <3>1, <4>1
    <3> QED
      BY <3>2, <3>3
  <2>3. \A b \in Blocked' : Pending(b)'
    BY <2>1, <2>2 DEF Pending
  <2> QED
    BY <2>1, <2>3 DEF BlockedInTime
<1> QED
  BY <1>1, <1>2

LEMMA SecretsStutter ==
  ASSUME HostMounts, DirsTyped, BlockedInTime, UNCHANGED vars
  PROVE  HostMounts' /\ DirsTyped' /\ BlockedInTime'
<1>1. /\ UNCHANGED << pc, conf, ns, dirs, tree, block, ids, user_cred_, untrusted_cred_ >>
  BY DEF vars, where, files, loops, idVars, privVars
<1>2. /\ \A b : Closed(b)' = Closed(b) /\ Pending(b)' = Pending(b)
      /\ \A p : CanRead(ns.new, sbcred.uid, p)' = CanRead(ns.new, sbcred.uid, p)
      /\ Blocked' = Blocked /\ sbcred' = sbcred /\ euid' = euid
  BY <1>1, ClosedStays DEF Pending, sbcred, euid
<1>3. HostMounts'
  BY <1>1, SameHost, SameEmpty DEF HostMounts, HostShown, Holds
<1>4. BlockedInTime'
  BY <1>1, <1>2 DEF BlockedInTime
<1> QED
  BY <1>1, <1>3, <1>4 DEF DirsTyped

LEMMA SecretsNextInv ==
  ASSUME PrivInv, NsInv, JailInv, SecretsInv, [Next]_vars PROVE SecretsInv'
<1>1. Grown /\ ActsAs /\ tree \in Trees
  BY DEF JailInv, Grown, JailTypeOK, Trees
<1>2. Next => StillSteps \/ MountingOwn
  BY DEF Next, StillSteps, CalmSteps, MountingOwn
<1>3. ASSUME SecretsOnHost
      PROVE  HostMounts' /\ DirsTyped' /\ BlockedInTime' /\ UNCHANGED conf
  <2>1. HostMounts /\ DirsTyped /\ BlockedInTime
    BY <1>3 DEF SecretsInv, DirsTyped
  <2>2. CASE pc \in AfterGrants /\ Next
    <3>1. CASE QuietAfter
      BY <1>1, <1>3, <2>1, <2>2, <3>1, QuietAfterSteps, QuietHost, QuietInTime DEF DirsTyped
    <3>2. CASE Cover
      BY <1>1, <1>3, <2>1, <3>2, CoverHides DEF DirsTyped
    <3>3. CASE FixProc
      BY <1>1, <2>1, <3>3, ProcHides DEF DirsTyped
    <3> QED
      BY <2>2, <3>1, <3>2, <3>3, StepsAfterGrants DEF AfterSteps, QuietAfter
  <2>3. CASE pc \notin AfterGrants /\ StillSteps
    <3>1. /\ pc' \in AfterGrants => GrantsDone
          /\ UNCHANGED dirs \/ MakeBlacklist \/ MakeSandboxHome \/ MakeTarget
          /\ UNCHANGED conf
      BY <1>1, <2>3, StillBefore, StillStepsAre DEF Still
    <3>2. DirsTyped'
      BY <1>1, <2>1, <3>1, MadeInPaths DEF DirsTyped
    <3> QED
      BY <1>1, <2>1, <2>3, <3>1, <3>2, StillHost, NotYet
  <2>4. CASE pc \notin AfterGrants /\ MountingOwn
    <3>1. pc \notin AfterGrants => ~Cover /\ ~FixProc
      BY DEF Cover, FixProc, Step, Goto, AfterGrants
    <3>2. CASE MountOverlay
      BY <1>1, <2>1, <2>4, <3>2, OverlayHost, OverlayInPaths, NotYet
    <3>3. CASE ~MountOverlay
      <4>1. HostMounts' /\ UNCHANGED << conf, dirs >> /\ pc' \notin AfterGrants
        BY <1>1, <1>3, <2>1, <2>4, <3>1, <3>3, TreesHost, UnsharingHost, DetachHost, PlacesHost,
           GrantHost DEF MountingOwn
      <4> QED
        BY <2>1, <2>4, <4>1, NotYet DEF DirsTyped
    <3> QED
      BY <3>2, <3>3
  <2>5. CASE UNCHANGED vars
    BY <2>1, <2>5, SecretsStutter DEF vars
  <2> QED
    BY <1>2, <2>2, <2>3, <2>4, <2>5
<1>4. UNCHANGED conf
  <2>1. CASE StillSteps
    BY <1>1, <2>1, StillStepsAre DEF Still
  <2>2. CASE MountingOwn
    BY <2>2 DEF MountingOwn, Step, Place, Goto, MakePrivateTmp, ClonePasswd, MakePrivateRun,
           CloneHome, SetAttr, MountOverlay, Unshare, MakeReadOnly, DetachShared, PlaceTmp,
           PlaceVarTmp, PlaceHome, PlacePasswd, PlaceRun, AttachGrant, Cover, FixProc
  <2>3. CASE UNCHANGED vars
    BY <2>3 DEF vars
  <2> QED
    BY <1>2, <2>1, <2>2, <2>3
<1> QED
  BY <1>3, <1>4, SameHost DEF SecretsInv, DirsTyped

(***************************************************************************)
(* SecretsInv in every reachable state: which mounts of the jail show      *)
(* anything of the host, and that each of the two directories is hidden    *)
(* once blockdir has been there (make_mnt_ns).                             *)
(***************************************************************************)
THEOREM SecretsInvariant == Spec => []SecretsInv
<1>1. Init => SecretsInv
  BY SecretsInitInv
<1>2. PrivInv /\ NsInv /\ JailInv /\ SecretsInv /\ [Next]_vars => SecretsInv'
  BY SecretsNextInv
<1> QED
  BY <1>1, <1>2, PrivInvariant, NsInvariant, JailInvariant, PTL DEF Spec

(***************************************************************************)
(* In every world whose storage and configuration directories are on the   *)
(* root of the host, which nothing else shows, no path that the program    *)
(* can read leads to what is in them: whatever is granted above them,      *)
(* whichever of them lies in the other, and whether they are seen through  *)
(* the host, a granted directory or the overlay on home; and where         *)
(* blockdir covers nothing, there is nothing to read (blockdir).           *)
(***************************************************************************)
THEOREM AlwaysHidden == Spec => [](SecretsOnHost => SecretsHidden)
<1>1. ASSUME JailInv, SecretsInv, SecretsOnHost
      PROVE  SecretsHidden
  <2> SUFFICES ASSUME Program, NEW p \in Names, CanRead(ns.new, sbcred.uid, p),
                      Reveals(Resolve(ns.new, p))
               PROVE  FALSE
    BY DEF SecretsHidden
  <2>1. /\ pc \in AfterDetach /\ pc \in AfterGrants /\ pc \notin Early \cup Ending
        /\ pc \notin {"block"} \cup Blocking
    BY HostPlaces DEF Program, AfterGrants, Early, Ending, Blocking
  <2>2. MountsOK(ns.new) /\ conf \in Worlds /\ conf.homepath_ \in Paths
    BY <1>1, <2>1, WorldPaths DEF JailInv, JailTypeOK
  <2>3. HostMounts /\ DirsTyped /\ BlockedInTime
    BY <1>1 DEF SecretsInv, DirsTyped
  <2>4. p \in Paths
    <3>1. \A x \in dirs : x.path \in Paths
      BY <2>3 DEF DirsTyped
    <3>2. \A r \in Paths : conf.homepath_ \o r \in Paths
      BY <2>2, ContainsFacts
    <3> QED
      BY <3>1, <3>2 DEF Names
  <2>5. \A b \in Blocked : ~contains(b, p)
    BY <2>1, <2>3, <2>4 DEF BlockedInTime, Pending, Closed
  <2> DEFINE n == MountOf(ns.new, p)
             m == ns.new[n]
  <2>6. n \in DOMAIN ns.new /\ contains(m.at, p) /\ m \in Attached /\ m.at \in Paths
    BY <2>2, <2>4, Shown DEF MountsOK
  <2>7. m.root \in Paths /\ m.at # Nowhere
    BY <2>4, <2>6, PathFacts DEF Attached, Mounts
  <2>8. Resolve(ns.new, p) = [fs |-> m.fs, path |-> m.root \o Rest(p, m.at)]
    BY DEF Resolve
  <2> HIDE DEF n
  <2>9. CASE InOwnPlace(m)
    BY <2>2, <2>4, <2>5, <2>6, <2>7, <2>8, <2>9, OwnPlaceShows
  <2>10. CASE Empty(m)
    BY <2>5, <2>6, <2>10 DEF Empty
  <2> QED
    BY <2>1, <2>3, <2>6, <2>7, <2>9, <2>10 DEF HostMounts, HostShown
<1> QED
  BY <1>1, JailInvariant, SecretsInvariant, PTL

=============================================================================
