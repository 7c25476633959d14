----------------------------- MODULE Privileges -----------------------------
(***************************************************************************)
(* The user and group ids of the jai process: Credentials::make_effective  *)
(* and make_real (cred.cc), Config::asuser (jai.cc), and the Defers that   *)
(* undo what asuser did when a scope is left, by return or by exception    *)
(* (defer.h).                                                              *)
(*                                                                         *)
(* jai is set-user-id root.  It has three user ids and three group ids,    *)
(* the real, effective and saved ones, and a list of supplementary groups, *)
(* which is named here by the account whose list it is.  A module that     *)
(* extends this one says in which order its code makes these calls.        *)
(***************************************************************************)
EXTENDS Sequences, Naturals

VARIABLES
  ids,     \* the ids of the process
  defers   \* what the live Defers will do, the innermost one last

privVars == << ids, defers >>

Three(id) == [r |-> id, e |-> id, s |-> id]
Target(c) == [uid |-> c.uid, gid |-> c.gid, groups |-> c.uid]

\* Credentials::get_effective
get_effective == [uid |-> ids.uid.e, gid |-> ids.gid.e, groups |-> ids.groups]

\* seteuid(0), whose result nobody looks at: it is allowed to a process that
\* has root among its ids.
Escalate(i) ==
  IF 0 \in {i.uid.r, i.uid.e, i.uid.s} THEN [i EXCEPT !.uid.e = 0] ELSE i

Outcome(i, ok) == [ids |-> i, ok |-> ok]

\* make_effective that changes the user id before the groups.
make_effective_UidFirst(i, c) ==
  LET uid    == [Escalate(i) EXCEPT !.uid.e = c.uid]
      groups == [uid EXCEPT !.groups = c.groups]
      gid    == [groups EXCEPT !.gid.e = c.gid]
  IN  {Outcome(Escalate(i), FALSE), Outcome(uid, FALSE)}
        \cup (IF c.uid = 0 THEN {Outcome(gid, TRUE)} ELSE {})

\* make_effective stops at the first call that fails.  Only root may change
\* the groups, or take an id that is not one of its own.
make_effective(i, c) ==
  LET root   == Escalate(i)
      groups == [root EXCEPT !.groups = c.groups]
      gid    == [groups EXCEPT !.gid.e = c.gid]
      uid    == [gid EXCEPT !.uid.e = c.uid]
  IN  IF root.uid.e # 0
        THEN {Outcome(root, FALSE)}
        ELSE {Outcome(uid, TRUE)}
               \cup {Outcome(f, FALSE) : f \in {root, groups, gid}}

\* setgid and setuid, called by root, change the real and the saved id too.
make_real(i, c) ==
  LET root   == Escalate(i)
      groups == [root EXCEPT !.groups = c.groups]
      gid    == IF c.gid = i.gid.r THEN groups ELSE [groups EXCEPT !.gid = Three(c.gid)]
      uid    == [gid EXCEPT !.uid = Three(c.uid)]
  IN  IF root.uid.e # 0
        THEN {Outcome(root, FALSE)}
        ELSE {Outcome(uid, TRUE)}
               \cup {Outcome(f, FALSE) : f \in {root, groups, gid}}

-----------------------------------------------------------------------------
(* Defers *)

Nothing == [does |-> "nothing"]                     \* an empty Defer
RestoreIds(old) == [does |-> "ids", old |-> old]    \* of asuser
RestoreNs == [does |-> "ns"]                        \* of make_mnt_ns

Innermost == defers[Len(defers)]
Arm(d) == defers' = Append(defers, d)
Disarm == defers' = SubSeq(defers, 1, Len(defers) - 1)

\* asuser(c) makes c's ids effective, if they are not yet, and arms a Defer
\* that restores what was there.
asuser(c) ==
  \/ /\ c.uid = 0 \/ ids.uid.e = c.uid
     /\ Arm(Nothing)
     /\ UNCHANGED ids
  \/ /\ c.uid # 0
     /\ ids.uid.e = 0
     /\ \E o \in make_effective(ids, Target(c)) :
          /\ o.ok
          /\ ids' = o.ids
     /\ Arm(RestoreIds(get_effective))

\* asuser throws: because another user's ids are in effect, or half way
\* through make_effective, when there is no Defer yet.
asuserThrows(c) ==
  /\ c.uid # 0
  /\ ids.uid.e # c.uid
  /\ \/ ids.uid.e # 0 /\ UNCHANGED ids
     \/ /\ ids.uid.e = 0
        /\ \E o \in make_effective(ids, Target(c)) :
             /\ ~o.ok
             /\ ids' = o.ids
  /\ UNCHANGED defers

\* A Defer that is content with seteuid.
Restore_UidOnly(ok) ==
  /\ defers # << >>
  /\ Disarm
  /\ \/ Innermost.does = "nothing" /\ ok /\ UNCHANGED ids
     \/ Innermost.does = "ids" /\ ok /\ ids' = [ids EXCEPT !.uid.e = Innermost.old.uid]

\* The innermost Defer is reset or destroyed, and does what it has to.
Restore(ok) ==
  /\ defers # << >>
  /\ Disarm
  /\ \/ Innermost.does = "nothing" /\ ok /\ UNCHANGED ids
     \/ /\ Innermost.does = "ids"
        /\ \E o \in make_effective(ids, Innermost.old) :
             /\ o.ok = ok
             /\ ids' = o.ids
=============================================================================
