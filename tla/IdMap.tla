-------------------------------- MODULE IdMap --------------------------------
(***************************************************************************)
(* make_id_map (cred.cc) and make_idmap_ns (jai.cc): the user and group id *)
(* maps of the user namespace through which a strict jail sees the user's  *)
(* directories.  The untrusted account stands in for the user, and nobody  *)
(* stands in for the untrusted account.                                    *)
(***************************************************************************)
EXTENDS Integers

CONSTANT max_mapped  \* the largest id that can be mapped, 2^32 - 2 in the code

ASSUME MaxMappedAssumption == max_mapped \in Nat

\* All ids but the last one, (uid_t) -1, which stands for no id at all.
Ids == 0 .. max_mapped

Extent(inside, outside, count) ==
  [inside |-> inside, outside |-> outside, count |-> count]

\* The calls of add in make_id_map.
Extents(user, untrusted) ==
  IF user = untrusted
    THEN {Extent(0, 0, max_mapped + 1)}
  ELSE IF user < untrusted
    THEN {Extent(0, 0, user),
          Extent(user, untrusted, 1),
          Extent(user + 1, user + 1, untrusted - user - 1),
          Extent(untrusted + 1, untrusted + 1, max_mapped - untrusted)}
    ELSE {Extent(0, 0, untrusted),
          Extent(untrusted + 1, untrusted + 1, user - untrusted - 1),
          Extent(user, untrusted, 1),
          Extent(user + 1, user + 1, max_mapped - user)}

\* add leaves empty extents out.
make_id_map(user, untrusted) ==
  {e \in Extents(user, untrusted) : e.count # 0}

\* What the kernel makes of a map: the ids that it translates id to.
Covers(e, id) == e.inside <= id /\ id < e.inside + e.count
Lookup(map, id) == {e.outside + (id - e.inside) : e \in {f \in map : Covers(f, id)}}

\* ... and the maps that it accepts: no two extents overlap on either side,
\* and none reaches an id that is not one.
Apart(first, second, n, m) == first + n <= second \/ second + m <= first
Accepted(map) ==
  /\ \A e \in map :
       /\ e.inside >= 0 /\ e.outside >= 0 /\ e.count > 0
       /\ e.inside + e.count <= max_mapped + 1
       /\ e.outside + e.count <= max_mapped + 1
  /\ \A e, f \in map : e # f =>
       /\ Apart(e.inside, f.inside, e.count, f.count)
       /\ Apart(e.outside, f.outside, e.count, f.count)

-----------------------------------------------------------------------------
(* make_idmap_ns *)

VARIABLES
  idpc,          \* where make_idmap_ns is
  user_cred_,    \* the ids of the user
  untrusted_cred_, \* the ids of the untrusted account
  gid_map,       \* the group ids that the new namespace maps, as a set of extents
  uid_map        \* the user ids

idVars == << idpc, user_cred_, untrusted_cred_, gid_map, uid_map >>

Credentials == [uid : Ids, gid : Ids]

IdInit ==
  /\ idpc = "fork"
  /\ user_cred_ \in Credentials
  /\ untrusted_cred_ \in Credentials
  /\ gid_map = {}
  /\ uid_map = {}

IdGoto(from, to) == idpc = from /\ idpc' = to

\* A child in a new user namespace, whose maps are empty.
ForkIdmap ==
  /\ IdGoto("fork", "gid_map")
  /\ UNCHANGED << user_cred_, untrusted_cred_, gid_map, uid_map >>

\* The kernel takes a map or leaves the file as it was.
WriteGidMap ==
  /\ IdGoto("gid_map", "uid_map")
  /\ gid_map' = make_id_map(user_cred_.gid, untrusted_cred_.gid)
  /\ Accepted(gid_map')
  /\ UNCHANGED << user_cred_, untrusted_cred_, uid_map >>

\* The group map written to both files.
WriteUidMap_Stale ==
  /\ IdGoto("uid_map", "done")
  /\ uid_map' = gid_map
  /\ Accepted(uid_map')
  /\ UNCHANGED << user_cred_, untrusted_cred_, gid_map >>

WriteUidMap ==
  /\ IdGoto("uid_map", "done")
  /\ uid_map' = make_id_map(user_cred_.uid, untrusted_cred_.uid)
  /\ Accepted(uid_map')
  /\ UNCHANGED << user_cred_, untrusted_cred_, gid_map >>

\* A system call fails: syserr throws, and the Defer reaps the child.
IdFail ==
  /\ idpc \notin {"done", "failed"}
  /\ idpc' = "failed"
  /\ UNCHANGED << user_cred_, untrusted_cred_, gid_map, uid_map >>

IdNext == ForkIdmap \/ WriteGidMap \/ WriteUidMap \/ IdFail

IdSpec == IdInit /\ [][IdNext]_idVars

-----------------------------------------------------------------------------
\* "Make a uid map mapping user to untrusted, leaving untrusted unmapped, and
\* leaving everything else identical" (cred.cc).
Intended(user, untrusted, id) ==
  IF id = user THEN {untrusted}
  ELSE IF id = untrusted THEN {}
  ELSE {id}

(***************************************************************************)
(* A namespace that make_idmap_ns returns maps every user id and every     *)
(* group id as make_id_map's comment says.                                 *)
(***************************************************************************)
MapsAsIntended ==
  idpc = "done" => \A id \in Ids :
    /\ Lookup(uid_map, id) = Intended(user_cred_.uid, untrusted_cred_.uid, id)
    /\ Lookup(gid_map, id) = Intended(user_cred_.gid, untrusted_cred_.gid, id)

(***************************************************************************)
(* The kernel never has a reason to reject a map: the extents are apart on *)
(* both sides and stay within the ids, so that no addition in make_id_map  *)
(* wraps around.                                                           *)
(***************************************************************************)
MapsAccepted ==
  /\ Accepted(make_id_map(user_cred_.uid, untrusted_cred_.uid))
  /\ Accepted(make_id_map(user_cred_.gid, untrusted_cred_.gid))
=============================================================================
