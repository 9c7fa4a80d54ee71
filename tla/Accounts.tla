-------------------------------- MODULE Accounts --------------------------------
(***************************************************************************)
(* User accounts (services/user_service.go) and the tokens that sign their *)
(* holders in (services/auth_service.go, pkg/jwt, middleware/auth.go).  A  *)
(* token carries the role it was made with and is not looked up anywhere:  *)
(* it is good until it expires.  Time is counted in ticks.                 *)
(***************************************************************************)
EXTENDS Integers, BackOfficeConstants

VARIABLES
  account, (* account[u]: [state, role, active], the row while "stored"    *)
  tokens,  (* tokens handed out: [user, role, left], left in ticks         *)
  call,    (* what a call is about to do                                   *)
  seenUser,(* the user row it has read: [user, row]                        *)
  (* book-keeping of the model, read by no guard *)
  since    (* since[u][r]: ticks since u last was active in role r, at     *)
           (* most TTL, which also stands for never                        *)

accountsVars == <<account, tokens, call, seenUser, since>>

UserRow == [state : {"unused", "stored", "deleted"}, role : Roles, active : BOOLEAN]
UserChanges == {"update", "toggle", "photo"}
IsRow(u) == account[u].state = "stored"
Active(role) == [state |-> "stored", role |-> role, active |-> TRUE]

Nobody == [user |-> CHOOSE u \in Users : TRUE,
           row  |-> Active(CHOOSE r \in Roles : TRUE)]

(* Every step notes who is active in which role after it.                  *)
Noted(aged) ==
  since' = [u \in Users |-> [r \in Roles |->
              IF account'[u] = Active(r) THEN 0 ELSE aged[u][r]]]

-----------------------------------------------------------------------------
(* Signing in.                                                             *)

(* The row is read and tested ...                                          *)
MayLogin_Anyone(u) == IsRow(u)
MayLogin(u) == IsRow(u) /\ account[u].active

FindLogin(c, u) ==
  /\ call[c] = "idle"
  /\ MayLogin(u)
  /\ call'   = [call EXCEPT ![c] = "issue"]
  /\ seenUser' = [seenUser EXCEPT ![c] = [user |-> u, row |-> account[u]]]
  /\ UNCHANGED <<account, tokens>>
  /\ Noted(since)

(* ... and the token is made from what was read.                           *)
Lifetime_OneMore == TTL + 1
Lifetime == TTL

GenerateToken(c) ==
  /\ call[c] = "issue"
  /\ tokens' = tokens \cup {[user |-> seenUser[c].user, role |-> seenUser[c].row.role,
                              left |-> Lifetime]}
  /\ call' = [call EXCEPT ![c] = "idle"]
  /\ UNCHANGED <<account, seenUser>>
  /\ Noted(since)

RefuseLogin(c) ==
  /\ call[c] = "issue"
  /\ call' = [call EXCEPT ![c] = "idle"]
  /\ UNCHANGED <<account, tokens, seenUser>>
  /\ Noted(since)

(* ValidateToken: what the middleware lets pass.                           *)
Valid(t) == t.left > 0

(* Time passes, in steps longer than it takes to answer a login.           *)
Aged_Kept(t) == t
Aged(t) == [t EXCEPT !.left = @ - 1]

Tick ==
  /\ \A c \in Calls : call[c] # "issue"
  /\ tokens' = {Aged(t) : t \in {s \in tokens : s.left > 1}}
  /\ UNCHANGED <<account, call, seenUser>>
  /\ Noted([u \in Users |-> [r \in Roles |->
              IF since[u][r] < TTL THEN since[u][r] + 1 ELSE TTL]])

-----------------------------------------------------------------------------
(* Administration.                                                         *)

(* A new row is active: the column's default stands in for false.          *)
CreateUser(u) ==
  /\ account[u].state = "unused"
  /\ \E r \in Roles : account' = [account EXCEPT ![u] = Active(r)]
  /\ UNCHANGED <<tokens, call, seenUser>>
  /\ Noted(since)

(* Update, ToggleActive and UpdatePhoto read the row ...                   *)
FindUser(c, u, change) ==
  /\ call[c] = "idle"
  /\ IsRow(u)
  /\ call' = [call EXCEPT ![c] = change]
  /\ seenUser' = [seenUser EXCEPT ![c] = [user |-> u, row |-> account[u]]]
  /\ UNCHANGED <<account, tokens>>
  /\ Noted(since)

(* ... and save every column of it; is_active is false when the form does  *)
(* not send it.                                                            *)
Changed(row, change) ==
  CASE change = "update" -> {[Active(r) EXCEPT !.active = a] : r \in Roles, a \in BOOLEAN}
    [] change = "toggle" -> {[row EXCEPT !.active = ~ @]}
    [] change = "photo"  -> {row}

(* Save inserts the row again when it has been deleted since, and then the *)
(* column's default stands in for an is_active of false.                   *)
Saved(u, row) == IF IsRow(u) THEN row ELSE Active(row.role)

SaveUser(c) ==
  LET u == seenUser[c].user IN
  /\ call[c] \in UserChanges
  /\ \E row \in Changed(seenUser[c].row, call[c]) :
       account' = [account EXCEPT ![u] = Saved(u, row)]
  /\ call' = [call EXCEPT ![c] = "idle"]
  /\ UNCHANGED <<tokens, seenUser>>
  /\ Noted(since)

SaveUserFails(c) ==
  /\ call[c] \in UserChanges
  /\ call' = [call EXCEPT ![c] = "idle"]
  /\ UNCHANGED <<account, tokens, seenUser>>
  /\ Noted(since)

(* Orders and notifications of the user make the database refuse this.     *)
DeleteUser(u) ==
  /\ IsRow(u)
  /\ account' = [account EXCEPT ![u].state = "deleted"]
  /\ UNCHANGED <<tokens, call, seenUser>>
  /\ Noted(since)

-----------------------------------------------------------------------------
AccountsInit ==
  /\ account \in [Users -> {a \in UserRow : \/ a.state = "stored"
                                           \/ a = [Nobody.row EXCEPT !.state = "unused"]}]
  /\ tokens = {}
  /\ call = [c \in Calls |-> "idle"]
  /\ seenUser = [c \in Calls |-> Nobody]
  /\ since = [u \in Users |-> [r \in Roles |-> IF account[u] = Active(r) THEN 0 ELSE TTL]]

AccountsNext ==
  \/ Tick
  \/ \E u \in Users : CreateUser(u) \/ DeleteUser(u)
  \/ \E c \in Calls :
       \/ \E u \in Users : FindLogin(c, u) \/ \E change \in UserChanges : FindUser(c, u, change)
       \/ GenerateToken(c) \/ RefuseLogin(c) \/ SaveUser(c) \/ SaveUserFails(c)

AccountsSpec == AccountsInit /\ [][AccountsNext]_accountsVars

-----------------------------------------------------------------------------
(* Properties.                                                             *)

AccountsTypeOK ==
  /\ account \in [Users -> UserRow]
  /\ tokens \subseteq [user : Users, role : Roles, left : 0 .. TTL]
  /\ call \in [Calls -> {"idle", "issue"} \cup UserChanges]
  /\ seenUser \in [Calls -> [user : Users, row : UserRow]]
  /\ since \in [Users -> [Roles -> 0 .. TTL]]

(* Nobody acts in a role longer than TTL after having lost it, by being    *)
(* switched off, demoted or deleted: no matter what was saved while the    *)
(* login was running.                                                      *)
RightsRunOut ==
  \A t \in tokens : Valid(t) => t.left + since[t.user][t.role] <= TTL

(* "Pengguna berhasil dihapus": an account that was deleted does not come   *)
(* back, whatever toggle, photo or edit had read it before.                *)
StaysDeleted ==
  [][\A u \in Users : account[u].state = "deleted"
                        => account'[u].state = "deleted"]_accountsVars
=============================================================================
