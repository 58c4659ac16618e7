------------------------------- MODULE UserRoles -------------------------------
(***************************************************************************)
(* Users and their roles live in Keycloak alone; routers/users.py changes  *)
(* them with chains of single calls (keycloak_admin.py), each of which may *)
(* fail, or take effect although its answer is lost.  The requests of      *)
(* several administrators run side by side.                                *)
(***************************************************************************)
EXTENDS Naturals, FiniteSets

CONSTANTS Usernames,
          Managers,     \* requests at the same time
          MaxManaged,   \* bound on requests
          MaxRefusals   \* bound on calls that fail, or whose answer is lost

AppRoles == {"admin", "user"}  \* ROLE_PRIORITY

ASSUME UsersAssumption == MaxManaged \in Nat /\ MaxRefusals \in Nat

VARIABLES
  account,   \* each username at Keycloak: its id, 0 where there is none
  ids,       \* how many ids were given out
  chore,     \* each request: what it is about and how far it is
  managed, refusals,
  (* History. *)
  bare,      \* ids created without a role whose creator could not clean up
  contested  \* ids two requests changed the role of side by side

userVars == <<account, ids, chore, managed, refusals, bare, contested>>

NoAccount == [id |-> 0, enabled |-> FALSE, roles |-> {}]
NoChore == [at |-> "free", id |-> 0]

UsersInit ==
  /\ account = [u \in Usernames |-> NoAccount] /\ ids = 0
  /\ chore = [m \in Managers |-> NoChore] /\ managed = 0 /\ refusals = 0
  /\ bare = {} /\ contested = {}

Exists(id) == \E u \in Usernames : account[u].id = id
NameOf(id) == CHOOSE u \in Usernames : account[u].id = id
Assigned(id) == IF Exists(id) THEN account[NameOf(id)].roles ELSE {}

-------------------------------------------------------------------------------
(* A call to the admin API: a refusal, an outage or an expired token fails *)
(* it, a timeout leaves the caller ignorant of its effect.                 *)
Replies == {"ok", "failed", "lost"}
Replied(reply) ==
  \/ reply = "ok" /\ UNCHANGED refusals
  \/ reply # "ok" /\ refusals < MaxRefusals /\ refusals' = refusals + 1

(* A call on an id that Keycloak no longer has is answered 404. *)
Well(m, reply) == reply = "ok" /\ Exists(chore[m].id)
Took(m, reply) == reply # "failed" /\ Exists(chore[m].id)

Becomes(m, next) == chore' = [chore EXCEPT ![m] = next]
Goes(m, at) == Becomes(m, [chore[m] EXCEPT !.at = at])
Ends(m) == Becomes(m, NoChore)
Edited(m, change(_)) == account' = [account EXCEPT ![NameOf(chore[m].id)] = change(@)]

ForARole == {"assign", "undo", "change", "view", "remove", "reply"}

(* A request of an administrator, one who is not the user it is about when *)
(* it disables or deletes one.                                             *)
Starts(m, chores) ==
  /\ chore[m].at = "free" /\ managed < MaxManaged /\ managed' = managed + 1
  /\ \E c \in chores : Becomes(m, c)
  /\ UNCHANGED <<account, ids, refusals, bare>>

CreateUser(m) ==
  /\ Starts(m, [at : {"post"}, id : {0}, name : Usernames, role : AppRoles])
  /\ UNCHANGED contested

Contested(m, id) == \E o \in Managers \ {m} : chore[o].at \in ForARole /\ chore[o].id = id
ChangeRole(m) ==
  \E id \in 1..ids :
    /\ Starts(m, [at : {"change"}, id : {id}, role : AppRoles, todo : {{}}])
    /\ contested' = contested \cup (IF Contested(m, id) THEN {id} ELSE {})

ToggleOrDelete(m) ==
  \E id \in 1..ids :
    /\ Starts(m, [at : {"enable", "disable", "delete"}, id : {id}])
    /\ UNCHANGED contested

-------------------------------------------------------------------------------
(* create_user: POST /users, 409 for a name that is taken.  When the reply *)
(* is lost there is a user and nobody who knows its id.                    *)
PostUser(m, reply) ==
  /\ chore[m].at = "post" /\ Replied(reply)
  /\ LET u == chore[m].name  new == ids + 1 IN
     IF reply = "failed" \/ account[u] # NoAccount
     THEN Ends(m) /\ UNCHANGED <<account, ids, bare>>
     ELSE /\ account' = [account EXCEPT ![u] = [id |-> new, enabled |-> TRUE, roles |-> {}]]
          /\ ids' = new
          /\ IF reply = "ok"
             THEN Becomes(m, [at |-> "assign", id |-> new, role |-> chore[m].role]) /\ UNCHANGED bare
             ELSE Ends(m) /\ bare' = bare \cup {new}
  /\ UNCHANGED <<managed, contested>>

Assigns(m, reply) ==
  /\ Replied(reply)
  /\ IF Took(m, reply)
     THEN Edited(m, LAMBDA a : [a EXCEPT !.roles = @ \cup {chore[m].role}])
     ELSE UNCHANGED account

(* Mutant: a user without a role is kept. *)
KeptHalf(m, reply) == /\ chore[m].at = "assign" /\ Assigns(m, reply) /\ Ends(m)
                      /\ UNCHANGED <<ids, managed, bare, contested>>

(* ... and the role it is to have; without it the user is deleted again. *)
AssignFirst(m, reply) ==
  /\ chore[m].at = "assign" /\ Assigns(m, reply)
  /\ IF Well(m, reply) THEN Ends(m) ELSE Goes(m, "undo")
  /\ UNCHANGED <<ids, managed, bare, contested>>

UndoUser(m, reply) ==
  /\ chore[m].at = "undo" /\ Replied(reply)
  /\ account' = IF Took(m, reply) THEN [account EXCEPT ![NameOf(chore[m].id)] = NoAccount] ELSE account
  /\ bare' = IF Took(m, reply) THEN bare ELSE bare \cup {chore[m].id}
  /\ Ends(m) /\ UNCHANGED <<ids, managed, contested>>

-------------------------------------------------------------------------------
(* change_role assigns the new role, looks which roles the user has, and   *)
(* removes the others of the application one by one.                       *)
AssignNew(m, reply) ==
  /\ chore[m].at = "change" /\ Assigns(m, reply)
  /\ IF Well(m, reply) THEN Goes(m, "view") ELSE Ends(m)
  /\ UNCHANGED <<ids, managed, bare, contested>>

ViewRoles(m, reply) ==
  /\ chore[m].at = "view" /\ Replied(reply)
  /\ IF Well(m, reply)
     THEN LET old == Assigned(chore[m].id) \ {chore[m].role} IN
          Becomes(m, [chore[m] EXCEPT !.at = IF old = {} THEN "reply" ELSE "remove", !.todo = old])
     ELSE Ends(m)
  /\ UNCHANGED <<account, ids, managed, bare, contested>>

RemoveOld(m, r, reply) ==
  /\ chore[m].at = "remove" /\ r \in chore[m].todo /\ Replied(reply)
  /\ IF Took(m, reply) THEN Edited(m, LAMBDA a : [a EXCEPT !.roles = @ \ {r}]) ELSE UNCHANGED account
  /\ IF Well(m, reply)
     THEN LET left == chore[m].todo \ {r} IN
          Becomes(m, [chore[m] EXCEPT !.at = IF left = {} THEN "reply" ELSE "remove", !.todo = left])
     ELSE Ends(m)
  /\ UNCHANGED <<ids, managed, bare, contested>>

(* The user is looked up once more for the answer and the audit log. *)
RoleAnswered(m, reply) ==
  /\ chore[m].at = "reply" /\ Replied(reply) /\ Ends(m)
  /\ UNCHANGED <<account, ids, managed, bare, contested>>

-------------------------------------------------------------------------------
(* toggle_enabled and delete_user look the user up, to refuse one's own    *)
(* account, before they go on.                                             *)
LookUp(m, itself, reply) ==
  /\ chore[m].at \in {"enable", "disable", "delete"} /\ Replied(reply)
  /\ IF Well(m, reply) /\ ~itself THEN Becomes(m, [at |-> "do", id |-> chore[m].id, what |-> chore[m].at])
                                  ELSE Ends(m)
  /\ UNCHANGED <<account, ids, managed, bare, contested>>

Do(m, reply) ==
  /\ chore[m].at = "do" /\ Replied(reply)
  /\ IF Took(m, reply)
     THEN Edited(m, LAMBDA a : IF chore[m].what = "delete" THEN NoAccount
                               ELSE [a EXCEPT !.enabled = (chore[m].what = "enable")])
     ELSE UNCHANGED account
  /\ Ends(m) /\ UNCHANGED <<ids, managed, bare, contested>>

UsersNext ==
  \E m \in Managers :
    \/ CreateUser(m) \/ ChangeRole(m) \/ ToggleOrDelete(m)
    \/ \E reply \in Replies :
         \/ PostUser(m, reply) \/ AssignFirst(m, reply) \/ UndoUser(m, reply)
         \/ AssignNew(m, reply) \/ ViewRoles(m, reply) \/ (\E r \in AppRoles : RemoveOld(m, r, reply))
         \/ RoleAnswered(m, reply) \/ Do(m, reply) \/ \E itself \in BOOLEAN : LookUp(m, itself, reply)

UsersSpec == UsersInit /\ [][UsersNext]_userVars

-------------------------------------------------------------------------------
BeingMade(id) == \E m \in Managers : chore[m].at \in {"assign", "undo"} /\ chore[m].id = id

(* Whoever is in Keycloak can sign in under some role, whatever calls fail *)
(* half-way through a creation or a change of role, and a change nobody    *)
(* contested leaves exactly the role it was asked for: the rest is a user  *)
(* still being made, one its creator could not delete again, or one whose  *)
(* role two administrators changed side by side.                           *)
UsersKeepARole ==
  \A u \in Usernames : LET id == account[u].id IN
    id # 0 /\ ~BeingMade(id) /\ id \notin bare \cup contested =>
      /\ account[u].roles # {}
      /\ \A m \in Managers : chore[m].at = "reply" /\ chore[m].id = id => account[u].roles = {chore[m].role}
===============================================================================
