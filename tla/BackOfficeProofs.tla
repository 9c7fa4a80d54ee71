--------------------------- MODULE BackOfficeProofs ---------------------------
(***************************************************************************)
(* Theorems about the three parts of the back office of module             *)
(* MCBackOffice, each for itself and composed.                             *)
(*                                                                         *)
(* Accounts: rights run out.                                               *)
(*                                                                         *)
(* Settings: the row everyone reads is settled, and what an admin was told *)
(* is saved is stored.  The strengthening follows a script from the click: *)
(* while nobody else writes, what it has read is still the first row, and  *)
(* a logo it has uploaded stays in it (Alone).                             *)
(*                                                                         *)
(* Catalog: has_variants is as it was last counted.  The strengthening: a  *)
(* fresh count is still right when it is about to be stored, and without a *)
(* product there is neither a variant nor a flag.                          *)
(***************************************************************************)
EXTENDS MCBackOffice, SumProofs

-----------------------------------------------------------------------------
(* Accounts.                                                               *)

(* A login that has read a row issues its token before the clock moves, so *)
(* its user was active in that role less than a tick ago.                  *)
JustActive ==
  \A c \in Calls : call[c] = "issue" => since[seenUser[c].user][seenUser[c].row.role] = 0

AccountsInv == AccountsTypeOK /\ RightsRunOut /\ JustActive

LEMMA NobodyIsTyped == Nobody \in [user : Users, row : UserRow] /\ Nobody.row.state = "stored"
BY AccountsAssumption DEF Nobody, UserRow, Active

(* What Noted does to the book-keeping, whatever else the step does.       *)
LEMMA NotedIsTyped ==
  ASSUME NEW aged, Noted(aged), aged \in [Users -> [Roles -> 0 .. TTL]]
  PROVE  since' \in [Users -> [Roles -> 0 .. TTL]]
<1>1. 0 \in 0 .. TTL
  BY AccountsAssumption
<1> QED BY <1>1 DEF Noted

LEMMA AccountsStarts == AccountsInit => AccountsInv
<1> SUFFICES ASSUME AccountsInit PROVE AccountsInv
  OBVIOUS
<1>1. AccountsTypeOK
  <2>1. account \in [Users -> UserRow]
    BY DEF AccountsInit
  <2>2. 0 \in 0 .. TTL /\ TTL \in 0 .. TTL
    BY AccountsAssumption
  <2>3. since \in [Users -> [Roles -> 0 .. TTL]]
    BY <2>2 DEF AccountsInit
  <2> QED BY <2>1, <2>3, NobodyIsTyped DEF AccountsInit, AccountsTypeOK
<1>2. RightsRunOut /\ JustActive
  BY DEF AccountsInit, RightsRunOut, JustActive
<1> QED BY <1>1, <1>2 DEF AccountsInv

LEMMA AccountsTypeStep == AccountsTypeOK /\ [AccountsNext]_accountsVars => AccountsTypeOK'
<1> SUFFICES ASSUME AccountsTypeOK, [AccountsNext]_accountsVars PROVE AccountsTypeOK'
  OBVIOUS
<1>0. since \in [Users -> [Roles -> 0 .. TTL]]
  BY DEF AccountsTypeOK
<1>1. ASSUME Tick PROVE AccountsTypeOK'
  <2> DEFINE aged == [u \in Users |-> [r \in Roles |->
                     IF since[u][r] < TTL THEN since[u][r] + 1 ELSE TTL]]
  <2>1. aged \in [Users -> [Roles -> 0 .. TTL]]
    BY <1>0, AccountsAssumption
  <2>2. Noted(aged)
    BY <1>1 DEF Tick
  <2>3. since' \in [Users -> [Roles -> 0 .. TTL]]
    <3> HIDE DEF aged
    <3> QED BY <2>1, <2>2, NotedIsTyped
  <2>4. tokens' \subseteq [user : Users, role : Roles, left : 0 .. TTL]
    <3>1. ASSUME NEW t \in tokens, t.left > 1
          PROVE  Aged(t) \in [user : Users, role : Roles, left : 0 .. TTL]
      <4>1. t \in [user : Users, role : Roles, left : 0 .. TTL]
        BY DEF AccountsTypeOK
      <4>2. t.left - 1 \in 0 .. TTL
        BY <4>1, <3>1, AccountsAssumption
      <4> QED BY <4>1, <4>2 DEF Aged
    <3> QED BY <3>1, <1>1 DEF Tick
  <2> QED BY <2>3, <2>4, <1>1 DEF AccountsTypeOK, Tick
<1>2. ASSUME NEW c \in Calls, NEW u \in Users, FindLogin(c, u) PROVE AccountsTypeOK'
  <2>1. since' \in [Users -> [Roles -> 0 .. TTL]]
    BY <1>0, <1>2, NotedIsTyped DEF FindLogin
  <2>2. call' \in [Calls -> {"idle", "issue"} \cup UserChanges]
    BY <1>2 DEF FindLogin, AccountsTypeOK
  <2>3. seenUser' \in [Calls -> [user : Users, row : UserRow]]
    BY <1>2 DEF FindLogin, AccountsTypeOK
  <2> QED BY <2>1, <2>2, <2>3, <1>2 DEF AccountsTypeOK, FindLogin
<1>3. ASSUME NEW c \in Calls, GenerateToken(c) PROVE AccountsTypeOK'
  <2>1. since' \in [Users -> [Roles -> 0 .. TTL]]
    BY <1>0, <1>3, NotedIsTyped DEF GenerateToken
  <2>2. seenUser[c] \in [user : Users, row : UserRow]
    BY DEF AccountsTypeOK
  <2>3. Lifetime \in 0 .. TTL /\ seenUser[c].row.role \in Roles
    BY <2>2, AccountsAssumption DEF Lifetime, UserRow
  <2>4. tokens' \subseteq [user : Users, role : Roles, left : 0 .. TTL]
    BY <2>2, <2>3, <1>3 DEF AccountsTypeOK, GenerateToken
  <2> QED BY <2>1, <2>4, <1>3 DEF AccountsTypeOK, GenerateToken
<1>4. ASSUME NEW c \in Calls, RefuseLogin(c) \/ SaveUserFails(c) PROVE AccountsTypeOK'
  <2>1. since' \in [Users -> [Roles -> 0 .. TTL]]
    BY <1>0, <1>4, NotedIsTyped DEF RefuseLogin, SaveUserFails
  <2> QED BY <2>1, <1>4 DEF AccountsTypeOK, RefuseLogin, SaveUserFails
<1>5. ASSUME NEW u \in Users, CreateUser(u) \/ DeleteUser(u) PROVE AccountsTypeOK'
  <2>1. since' \in [Users -> [Roles -> 0 .. TTL]]
    BY <1>0, <1>5, NotedIsTyped DEF CreateUser, DeleteUser
  <2>2. CASE CreateUser(u)
    <3>1. PICK r \in Roles : account' = [account EXCEPT ![u] = Active(r)]
      BY <2>2 DEF CreateUser
    <3>2. Active(r) \in UserRow
      BY DEF Active, UserRow
    <3> QED BY <3>1, <3>2, <2>1, <2>2 DEF AccountsTypeOK, CreateUser
  <2>3. CASE DeleteUser(u)
    <3>1. [account[u] EXCEPT !.state = "deleted"] \in UserRow
      BY DEF AccountsTypeOK, UserRow
    <3> QED BY <3>1, <2>1, <2>3 DEF AccountsTypeOK, DeleteUser
  <2> QED BY <2>2, <2>3, <1>5
<1>6. ASSUME NEW c \in Calls, NEW u \in Users, NEW change \in UserChanges, FindUser(c, u, change)
      PROVE  AccountsTypeOK'
  <2>1. since' \in [Users -> [Roles -> 0 .. TTL]]
    BY <1>0, <1>6, NotedIsTyped DEF FindUser
  <2>2. call' \in [Calls -> {"idle", "issue"} \cup UserChanges]
    BY <1>6 DEF FindUser, AccountsTypeOK
  <2>3. seenUser' \in [Calls -> [user : Users, row : UserRow]]
    BY <1>6 DEF FindUser, AccountsTypeOK
  <2> QED BY <2>1, <2>2, <2>3, <1>6 DEF AccountsTypeOK, FindUser
<1>7. ASSUME NEW c \in Calls, SaveUser(c) PROVE AccountsTypeOK'
  <2>1. since' \in [Users -> [Roles -> 0 .. TTL]]
    BY <1>0, <1>7, NotedIsTyped DEF SaveUser
  <2>2. seenUser[c] \in [user : Users, row : UserRow]
    BY DEF AccountsTypeOK
  <2>3. Changed(seenUser[c].row, call[c]) \subseteq UserRow
    <3>1. CASE call[c] = "update"
      <4>1. Changed(seenUser[c].row, call[c])
              = {[Active(r) EXCEPT !.active = a] : r \in Roles, a \in BOOLEAN}
        BY <3>1 DEF Changed
      <4>2. ASSUME NEW r \in Roles, NEW a \in BOOLEAN
            PROVE  [Active(r) EXCEPT !.active = a] \in UserRow
        BY DEF Active, UserRow
      <4> QED BY <4>1, <4>2
    <3>2. CASE call[c] = "toggle"
      <4>1. Changed(seenUser[c].row, call[c])
              = {[seenUser[c].row EXCEPT !.active = ~ @]}
        BY <3>2 DEF Changed
      <4> QED BY <4>1, <2>2 DEF UserRow
    <3>3. CASE call[c] = "photo"
      BY <3>3, <2>2 DEF Changed
    <3> QED BY <3>1, <3>2, <3>3, <1>7 DEF SaveUser, UserChanges
  <2>4. account' \in [Users -> UserRow]
    <3>1. PICK row \in Changed(seenUser[c].row, call[c]) :
            account' = [account EXCEPT ![seenUser[c].user] = Saved(seenUser[c].user, row)]
      BY <1>7 DEF SaveUser
    <3>2. Saved(seenUser[c].user, row) \in UserRow
      BY <2>3 DEF Saved, Active, UserRow
    <3> QED BY <3>1, <3>2, <2>2 DEF AccountsTypeOK
  <2> QED BY <2>1, <2>4, <1>7 DEF AccountsTypeOK, SaveUser
<1>8. ASSUME UNCHANGED accountsVars PROVE AccountsTypeOK'
  BY <1>8 DEF AccountsTypeOK, accountsVars
<1> QED BY <1>1, <1>2, <1>3, <1>4, <1>5, <1>6, <1>7, <1>8 DEF AccountsNext


(* Only the clock lengthens the time since somebody was active.            *)
LEMMA SinceShrinks ==
  ASSUME AccountsTypeOK, Noted(since), NEW u \in Users, NEW r \in Roles
  PROVE  since'[u][r] \in {0, since[u][r]}
BY DEF Noted, AccountsTypeOK

LEMMA RightsStep == AccountsInv /\ AccountsTypeOK' /\ [AccountsNext]_accountsVars => RightsRunOut' /\ JustActive'
<1> SUFFICES ASSUME AccountsInv, AccountsTypeOK', [AccountsNext]_accountsVars PROVE RightsRunOut' /\ JustActive'
  OBVIOUS
<1>0. AccountsTypeOK /\ RightsRunOut /\ JustActive
  BY DEF AccountsInv
<1>t. \A t \in tokens : t.user \in Users /\ t.role \in Roles /\ t.left \in 0 .. TTL
  BY <1>0 DEF AccountsTypeOK
<1>c. \A c \in Calls : seenUser[c].user \in Users /\ seenUser[c].row.role \in Roles
  BY <1>0 DEF AccountsTypeOK, UserRow
<1>n. \A u \in Users, r \in Roles : since[u][r] \in 0 .. TTL
  BY <1>0 DEF AccountsTypeOK
<1>1. CASE Tick
  <2>1. ASSUME NEW t \in tokens', Valid(t) PROVE t.left + since'[t.user][t.role] <= TTL
    <3>1. PICK s \in tokens : t = Aged(s) /\ s.left > 1
      BY <2>1, <1>1 DEF Tick
    <3>2. s.user \in Users /\ s.role \in Roles /\ s.left \in 0 .. TTL
      BY <1>t
    <3>3. t.user = s.user /\ t.role = s.role /\ t.left = s.left - 1
      <4>1. s \in [user : Users, role : Roles, left : 0 .. TTL]
        BY <1>0 DEF AccountsTypeOK
      <4> QED BY <4>1, <3>1 DEF Aged
    <3>4. s.left + since[s.user][s.role] <= TTL
      BY <3>1, <3>2, <1>0, AccountsAssumption DEF RightsRunOut, Valid
    <3>5. since'[s.user][s.role] \in {0, since[s.user][s.role] + 1, TTL}
          /\ (since'[s.user][s.role] = TTL => since[s.user][s.role] >= TTL - 1)
      BY <3>2, <1>n, <1>1, AccountsAssumption DEF Tick, Noted
    <3> QED BY <3>1, <3>2, <3>3, <3>4, <3>5, <1>n, AccountsAssumption
  <2>2. JustActive'
    BY <1>1 DEF Tick, JustActive
  <2> QED BY <2>1, <2>2 DEF RightsRunOut
<1>2. ASSUME Noted(since),
             tokens' \subseteq tokens,
             \A c \in Calls : call'[c] = "issue" => call[c] = "issue" /\ seenUser'[c] = seenUser[c]
      PROVE  RightsRunOut' /\ JustActive'
  <2>1. RightsRunOut'
    <3> SUFFICES ASSUME NEW t \in tokens', Valid(t)
                 PROVE  t.left + since'[t.user][t.role] <= TTL
      BY DEF RightsRunOut, Valid
    <3>1. t \in tokens /\ t.left + since[t.user][t.role] <= TTL
      BY <1>2, <1>0 DEF RightsRunOut
    <3>2. since'[t.user][t.role] \in {0, since[t.user][t.role]}
      BY <3>1, <1>t, <1>2, <1>0, SinceShrinks
    <3> QED BY <3>1, <3>2, <1>t, <1>n, AccountsAssumption
  <2>2. JustActive'
    BY <1>2, <1>0, <1>c, SinceShrinks DEF JustActive
  <2> QED BY <2>1, <2>2
<1>3. ASSUME NEW d \in Calls, NEW u \in Users, FindLogin(d, u) PROVE RightsRunOut' /\ JustActive'
  <2>1. RightsRunOut'
    <3> SUFFICES ASSUME NEW t \in tokens', Valid(t)
                 PROVE  t.left + since'[t.user][t.role] <= TTL
      BY DEF RightsRunOut, Valid
    <3>1. t \in tokens /\ t.left + since[t.user][t.role] <= TTL
      BY <1>3, <1>0 DEF RightsRunOut, FindLogin
    <3>2. since'[t.user][t.role] \in {0, since[t.user][t.role]}
      BY <3>1, <1>t, <1>3, <1>0, SinceShrinks DEF FindLogin
    <3> QED BY <3>1, <3>2, <1>t, <1>n, AccountsAssumption
  <2>2. ASSUME NEW c \in Calls, call'[c] = "issue"
        PROVE  since'[seenUser'[c].user][seenUser'[c].row.role] = 0
    <3>1. CASE c = d
      <4>1. account[u] \in UserRow /\ account[u].state = "stored" /\ account[u].active
        BY <1>3, <1>0 DEF AccountsTypeOK, FindLogin, MayLogin, IsRow
      <4>2. account[u] = Active(account[u].role) /\ account[u].role \in Roles
        BY <4>1 DEF UserRow, Active
      <4>3. account' = account /\ seenUser'[c] = [user |-> u, row |-> account[u]]
        BY <3>1, <1>3, <1>0 DEF FindLogin, AccountsTypeOK
      <4> QED BY <4>2, <4>3, <1>3 DEF FindLogin, Noted
    <3>2. CASE c # d
      <4>1. call[c] = "issue" /\ seenUser'[c] = seenUser[c]
        BY <3>2, <2>2, <1>3, <1>0 DEF FindLogin, AccountsTypeOK
      <4> QED BY <4>1, <1>0, <1>c, <1>3, SinceShrinks DEF JustActive, FindLogin
    <3> QED BY <3>1, <3>2
  <2> QED BY <2>1, <2>2 DEF JustActive
<1>4. ASSUME NEW d \in Calls, GenerateToken(d) PROVE RightsRunOut' /\ JustActive'
  <2>1. ASSUME NEW t \in tokens', Valid(t) PROVE t.left + since'[t.user][t.role] <= TTL
    <3>1. CASE t \in tokens
      <4>1. t.left + since[t.user][t.role] <= TTL
        BY <3>1, <2>1, <1>0 DEF RightsRunOut
      <4>2. since'[t.user][t.role] \in {0, since[t.user][t.role]}
        BY <3>1, <1>t, <1>4, <1>0, SinceShrinks DEF GenerateToken
      <4> QED BY <4>1, <4>2, <3>1, <1>t, <1>n, AccountsAssumption
    <3>2. CASE t \notin tokens
      <4>1. t = [user |-> seenUser[d].user, role |-> seenUser[d].row.role, left |-> TTL]
        BY <3>2, <2>1, <1>4 DEF GenerateToken, Lifetime
      <4>2. since[t.user][t.role] = 0
        BY <4>1, <1>4, <1>0 DEF GenerateToken, JustActive
      <4>3. since'[t.user][t.role] \in {0, since[t.user][t.role]}
        BY <4>1, <1>c, <1>4, <1>0, SinceShrinks DEF GenerateToken
      <4> QED BY <4>1, <4>2, <4>3, AccountsAssumption
    <3> QED BY <3>1, <3>2
  <2>2. JustActive'
    <3> SUFFICES ASSUME NEW c \in Calls, call'[c] = "issue"
                 PROVE  since'[seenUser'[c].user][seenUser'[c].row.role] = 0
      BY DEF JustActive
    <3>1. call[c] = "issue" /\ seenUser' = seenUser
      BY <1>4, <1>0 DEF GenerateToken, AccountsTypeOK
    <3> QED BY <3>1, <1>0, <1>c, <1>4, SinceShrinks DEF JustActive, GenerateToken
  <2> QED BY <2>1, <2>2 DEF RightsRunOut
<1>5. ASSUME NEW d \in Calls,
             \/ RefuseLogin(d) \/ SaveUser(d) \/ SaveUserFails(d)
             \/ \E u \in Users, change \in UserChanges : FindUser(d, u, change)
      PROVE  RightsRunOut' /\ JustActive'
  <2>1. Noted(since) /\ tokens' = tokens
    BY <1>5 DEF RefuseLogin, SaveUser, SaveUserFails, FindUser
  <2>2. \A c \in Calls : call'[c] = "issue" => call[c] = "issue" /\ seenUser'[c] = seenUser[c]
    BY <1>5, <1>0 DEF RefuseLogin, SaveUser, SaveUserFails, FindUser, UserChanges, AccountsTypeOK
  <2> QED BY <2>1, <2>2, <1>2
<1>6. ASSUME NEW u \in Users, CreateUser(u) \/ DeleteUser(u) PROVE RightsRunOut' /\ JustActive'
  <2>1. Noted(since) /\ tokens' = tokens /\ call' = call /\ seenUser' = seenUser
    BY <1>6 DEF CreateUser, DeleteUser
  <2> QED BY <2>1, <1>2
<1>7. CASE UNCHANGED accountsVars
  BY <1>7, <1>0 DEF accountsVars, RightsRunOut, JustActive, Valid
<1> QED BY <1>1, <1>3, <1>4, <1>5, <1>6, <1>7 DEF AccountsNext

LEMMA AccountsInvHolds == AccountsSpec => []AccountsInv
<1>1. AccountsInv /\ [AccountsNext]_accountsVars => AccountsInv'
  BY AccountsTypeStep, RightsStep DEF AccountsInv
<1> QED BY AccountsStarts, <1>1, PTL DEF AccountsSpec

-----------------------------------------------------------------------------

(* Every step of user_service.go and auth_service.go keeps rows, tokens    *)
(* and calls of their types; no token outlives the lifetime in jwt.go.     *)
THEOREM AccountsTypeCorrect == AccountsSpec => []AccountsTypeOK
BY AccountsInvHolds, PTL DEF AccountsInv

(* However many users, roles, calls and ticks there are: who was switched  *)
(* off, demoted or deleted acts in the lost role for at most a token's     *)
(* lifetime, though no request looks the user up (middleware/auth.go).     *)
THEOREM RightsDoRunOut == AccountsSpec => []RightsRunOut
BY AccountsInvHolds, PTL DEF AccountsInv

-----------------------------------------------------------------------------
(* Variants and has_variants.                                              *)

CountIsFresh == \A c \in Calls : sync[c] = "flag" /\ fresh[c] => count[c] = (ActiveVariants # {})
NoOrphan == ~ product => ~ flag /\ \A v \in Variants : ~ Live(v)
CatalogInv == CatalogTypeOK /\ FlagExplained /\ CountIsFresh /\ NoOrphan

LEMMA CatalogStarts == CatalogInit => CatalogInv
<1> SUFFICES ASSUME CatalogInit PROVE CatalogInv
  OBVIOUS
<1>1. CatalogTypeOK
  BY CatalogAssumption DEF CatalogInit, CatalogTypeOK, SyncLabels
<1>2. FlagExplained /\ CountIsFresh /\ NoOrphan
  BY DEF CatalogInit, FlagExplained, CountIsFresh, NoOrphan
<1> QED BY <1>1, <1>2 DEF CatalogInv

(* A change of a variant leaves no count fresh and nothing settled.        *)
LEMMA VariantStep ==
  ASSUME CatalogTypeOK, NEW v \in Variants, NEW to \in {"unused", "on", "off", "deleted"},
         VariantBecomes(v, to)
  PROVE  /\ variant' \in [Variants -> {"unused", "on", "off", "deleted"}]
         /\ fresh' \in [Calls -> BOOLEAN] /\ settled' = FALSE
         /\ \A c \in Calls : ~ fresh'[c]
BY DEF CatalogTypeOK, VariantBecomes

LEMMA CatalogStep == CatalogInv /\ [CatalogNext]_catalogVars => CatalogInv'
<1> SUFFICES ASSUME CatalogInv, [CatalogNext]_catalogVars PROVE CatalogInv'
  OBVIOUS
<1>0. CatalogTypeOK /\ FlagExplained /\ CountIsFresh /\ NoOrphan
  BY DEF CatalogInv
<1>1. CASE SaveProduct
  <2>1. CatalogTypeOK'
    BY <1>1, <1>0 DEF SaveProduct, CatalogTypeOK
  <2>2. FlagExplained' /\ CountIsFresh' /\ NoOrphan'
    BY <1>1, <1>0 DEF SaveProduct, FlagExplained, CountIsFresh, NoOrphan, ActiveVariants
  <2> QED BY <2>1, <2>2 DEF CatalogInv
<1>2. CASE DeleteProduct
  <2>1. CatalogTypeOK'
    BY <1>2, <1>0 DEF DeleteProduct, CatalogTypeOK
  <2>2. FlagExplained' /\ CountIsFresh' /\ NoOrphan'
    BY <1>2, <1>0 DEF DeleteProduct, FlagExplained, CountIsFresh, NoOrphan, ActiveVariants, Live
  <2> QED BY <2>1, <2>2 DEF CatalogInv
<1>3. ASSUME NEW c \in Calls, NEW v \in Variants, CreateVariant(c, v) PROVE CatalogInv'
  <2>1. /\ variant' \in [Variants -> {"unused", "on", "off", "deleted"}]
        /\ fresh' \in [Calls -> BOOLEAN] /\ settled' = FALSE
        /\ \A d \in Calls : ~ fresh'[d]
    BY <1>3, <1>0, VariantStep DEF CreateVariant
  <2>2. CatalogTypeOK'
    BY <2>1, <1>3, <1>0 DEF CreateVariant, CatalogTypeOK, SyncAt, SyncLabels
  <2>3. FlagExplained' /\ CountIsFresh' /\ NoOrphan'
    BY <2>1, <1>3 DEF CreateVariant, FlagExplained, CountIsFresh, NoOrphan
  <2> QED BY <2>2, <2>3 DEF CatalogInv
<1>4. ASSUME NEW c \in Calls, NEW v \in Variants, FindVariant(c, v) PROVE CatalogInv'
  <2>1. PICK l \in {"save", "delete"} : sync' = [sync EXCEPT ![c] = l]
    BY <1>4 DEF FindVariant, SyncAt
  <2>2. CatalogTypeOK'
    BY <2>1, <1>4, <1>0 DEF FindVariant, CatalogTypeOK, SyncLabels, Unchanged
  <2>3. FlagExplained' /\ CountIsFresh' /\ NoOrphan'
    BY <2>1, <1>4, <1>0 DEF FindVariant, FlagExplained, CountIsFresh, NoOrphan, Unchanged, Live,
                            ActiveVariants, CatalogTypeOK
  <2> QED BY <2>2, <2>3 DEF CatalogInv
<1>5. ASSUME NEW c \in Calls, SaveVariant(c) PROVE CatalogInv'
  <2>0. target[c] \in Variants /\ product
    BY <1>5, <1>0 DEF SaveVariant, NoOrphan, CatalogTypeOK
  <2>1. /\ variant' \in [Variants -> {"unused", "on", "off", "deleted"}]
        /\ fresh' \in [Calls -> BOOLEAN] /\ settled' = FALSE
        /\ \A d \in Calls : ~ fresh'[d]
    BY <2>0, <1>5, <1>0, VariantStep DEF SaveVariant
  <2>2. CatalogTypeOK'
    BY <2>1, <1>5, <1>0 DEF SaveVariant, CatalogTypeOK, SyncAt, SyncLabels
  <2>3. FlagExplained' /\ CountIsFresh' /\ NoOrphan'
    BY <2>0, <2>1, <1>5 DEF SaveVariant, FlagExplained, CountIsFresh, NoOrphan
  <2> QED BY <2>2, <2>3 DEF CatalogInv
<1>6. ASSUME NEW c \in Calls, DeleteVariant(c) PROVE CatalogInv'
  <2> DEFINE to == IF Live(target[c]) THEN "deleted" ELSE variant[target[c]]
  <2>0. target[c] \in Variants /\ to \in {"unused", "on", "off", "deleted"} \ {"on", "off"}
    BY <1>0 DEF CatalogTypeOK, Live
  <2> HIDE DEF to
  <2>1. /\ variant' \in [Variants -> {"unused", "on", "off", "deleted"}]
        /\ fresh' \in [Calls -> BOOLEAN] /\ settled' = FALSE
        /\ \A d \in Calls : ~ fresh'[d]
    BY <2>0, <1>6, <1>0, VariantStep DEF DeleteVariant, to
  <2>2. CatalogTypeOK'
    BY <2>1, <1>6, <1>0 DEF DeleteVariant, CatalogTypeOK, SyncAt, SyncLabels
  <2>3. NoOrphan'
    <3>1. variant' = [variant EXCEPT ![target[c]] = to]
      BY <1>6 DEF DeleteVariant, VariantBecomes, to
    <3> QED BY <2>0, <3>1, <1>6, <1>0 DEF DeleteVariant, NoOrphan, Live, CatalogTypeOK
  <2>4. FlagExplained' /\ CountIsFresh'
    BY <2>1 DEF FlagExplained, CountIsFresh
  <2> QED BY <2>2, <2>3, <2>4 DEF CatalogInv
<1>7. ASSUME NEW c \in Calls, List(c) PROVE CatalogInv'
  <2>0. /\ sync' = [sync EXCEPT ![c] = "flag"]
        /\ UNCHANGED <<product, variant, flag, target, settled>>
    BY <1>7 DEF List, SyncAt
  <2>1. CASE count' = [count EXCEPT ![c] = ActiveVariants # {}] /\ fresh' = [fresh EXCEPT ![c] = TRUE]
    <3>1. CatalogTypeOK'
      BY <2>0, <2>1, <1>0 DEF CatalogTypeOK, SyncLabels
    <3>2. CountIsFresh'
      BY <2>0, <2>1, <1>0 DEF CountIsFresh, CatalogTypeOK, ActiveVariants
    <3>3. FlagExplained' /\ NoOrphan'
      BY <2>0, <1>0 DEF FlagExplained, NoOrphan, Live
    <3> QED BY <3>1, <3>2, <3>3 DEF CatalogInv
  <2>2. CASE count' = [count EXCEPT ![c] = FALSE] /\ fresh' = [fresh EXCEPT ![c] = FALSE]
    <3>1. CatalogTypeOK'
      BY <2>0, <2>2, <1>0 DEF CatalogTypeOK, SyncLabels
    <3>2. CountIsFresh'
      BY <2>0, <2>2, <1>0 DEF CountIsFresh, CatalogTypeOK, ActiveVariants
    <3>3. FlagExplained' /\ NoOrphan'
      BY <2>0, <1>0 DEF FlagExplained, NoOrphan, Live
    <3> QED BY <3>1, <3>2, <3>3 DEF CatalogInv
  <2> QED BY <2>1, <2>2, <1>7 DEF List
<1>8. ASSUME NEW c \in Calls, UpdateHasVariants(c) PROVE CatalogInv'
  <2>1. CatalogTypeOK'
    BY <1>8, <1>0 DEF UpdateHasVariants, CatalogTypeOK, SyncAt, SyncLabels
  <2>2. CountIsFresh' /\ NoOrphan'
    BY <1>8, <1>0 DEF UpdateHasVariants, CountIsFresh, NoOrphan, CatalogTypeOK, SyncAt,
                      ActiveVariants, Live
  <2>3. FlagExplained'
    <3> SUFFICES ASSUME fresh[c] PROVE flag' = (\E v \in Variants : variant[v] = "on")
      BY <1>8 DEF UpdateHasVariants, FlagExplained
    <3>1. count[c] = (\E v \in Variants : variant[v] = "on")
      BY <1>8, <1>0 DEF UpdateHasVariants, CountIsFresh, ActiveVariants, CatalogTypeOK
    <3>2. ~ product => ~ flag /\ ~ (\E v \in Variants : variant[v] = "on")
      BY <1>0 DEF NoOrphan, Live
    <3> QED BY <3>1, <3>2, <1>8, <1>0 DEF UpdateHasVariants, CatalogTypeOK
  <2> QED BY <2>1, <2>2, <2>3 DEF CatalogInv
<1>9. ASSUME NEW c \in Calls, Stops(c) PROVE CatalogInv'
  <2>1. CatalogTypeOK'
    BY <1>9, <1>0 DEF Stops, CatalogTypeOK, SyncAt, SyncLabels, Unchanged
  <2>2. FlagExplained' /\ CountIsFresh' /\ NoOrphan'
    BY <1>9, <1>0 DEF Stops, FlagExplained, CountIsFresh, NoOrphan, Unchanged, Live, SyncAt,
                      ActiveVariants, CatalogTypeOK
  <2> QED BY <2>1, <2>2 DEF CatalogInv
<1>10. CASE UNCHANGED catalogVars
  BY <1>10, <1>0 DEF catalogVars, CatalogInv, CatalogTypeOK, FlagExplained, CountIsFresh, NoOrphan,
                     ActiveVariants, Live
<1> QED BY <1>1, <1>2, <1>3, <1>4, <1>5, <1>6, <1>7, <1>8, <1>9, <1>10 DEF CatalogNext

LEMMA CatalogInvHolds == CatalogSpec => []CatalogInv
BY CatalogStarts, CatalogStep, PTL DEF CatalogSpec

(* For any variants and any number of calls at once, every step of         *)
(* variant_service.go keeps rows, flags and calls of their types.          *)
THEOREM CatalogTypeCorrect == CatalogSpec => []CatalogTypeOK
BY CatalogInvHolds, PTL DEF CatalogInv

(* has_variants, from which the till knows that a product is sold by       *)
(* variant, is as the last count found it, in any interleaving of any      *)
(* number of calls, when that count was stored before anything changed.    *)
THEOREM FlagIsExplained == CatalogSpec => []FlagExplained
BY CatalogInvHolds, PTL DEF CatalogInv
-----------------------------------------------------------------------------
(* Settings.                                                               *)

RowsTyped ==
  /\ nextId \in Nat \ {0}
  /\ rows \in [DOMAIN rows -> SettingsRow]
  /\ DOMAIN rows \subseteq 1 .. nextId - 1

ScriptsTyped ==
  /\ page \in [Pages -> PageLabels]
  /\ form \in [Pages -> Form] /\ captured \in [Pages -> Form]
  /\ picked \in [Pages -> [logo : Images, footer : Images]]
  /\ seenRow \in [Pages -> [id : Nat, row : SettingsRow]]
  /\ mixed \in [Pages -> BOOLEAN]

(* The row a script is about to commit has an id of its own, the one it is *)
(* about to save is there.                                                 *)
SeenIsThere ==
  \A p \in Pages :
    /\ page[p] = "commit" => seenRow[p].id \in 1 .. nextId - 1
    /\ page[p] \in Saving => seenRow[p].id \in DOMAIN rows

AfterLogo == {"find_footer", "save_footer", "find_form", "save_form", "saved"}

(* While nobody else writes, a script has the first row as it is, the logo *)
(* it has uploaded is in there, and in the end so is its text.             *)
Alone(p) ==
  ~ mixed[p] =>
    /\ page[p] \in Saving => seenRow[p] = [id |-> First, row |-> rows[First]]
    /\ page[p] \in AfterLogo /\ picked[p].logo # None => rows[First].logo = picked[p].logo
    /\ page[p] = "saved" => rows[First].text = captured[p].text

SettingsInv == RowsTyped /\ ScriptsTyped /\ SeenIsThere /\ \A p \in Pages : Alone(p)

(* The least id is the only one that is below all of them.                 *)
LEMMA LeastIs ==
  ASSUME NEW D \in SUBSET Nat, NEW n \in D, \A m \in D : n <= m
  PROVE  (CHOOSE i \in D : \A j \in D : i <= j) = n
<1> DEFINE f == CHOOSE i \in D : \A j \in D : i <= j
<1>1. f \in D /\ \A j \in D : f <= j
  OBVIOUS
<1> HIDE DEF f
<1>2. f <= n /\ n <= f /\ f \in Nat /\ n \in Nat
  BY <1>1
<1>3. f = n
  BY <1>2
<1> QED BY <1>3 DEF f

LEMMA NoRows == ASSUME NEW f, DOMAIN f = {}, f = [i \in {} |-> f[i]] PROVE f = <<>>
OBVIOUS

LEMMA FirstIsFirst ==
  ASSUME RowsTyped, rows # <<>>
  PROVE  First \in DOMAIN rows /\ \A j \in DOMAIN rows : First <= j
<1>1. DOMAIN rows # {}
  BY NoRows DEF RowsTyped
<1>2. DOMAIN rows \in SUBSET Nat
  BY DEF RowsTyped
<1>3. PICK n \in DOMAIN rows : \A m \in DOMAIN rows : n <= m
  BY <1>1, <1>2, LeastNat
<1>4. First = n
  BY <1>2, <1>3, LeastIs DEF First
<1> QED BY <1>3, <1>4

(* A step that adds no lower id leaves the first row the first.            *)
LEMMA FirstStays ==
  ASSUME RowsTyped, rows # <<>>, DOMAIN rows' \in SUBSET Nat, DOMAIN rows \subseteq DOMAIN rows',
         \A j \in DOMAIN rows' : j \in DOMAIN rows \/ First < j
  PROVE  First' = First
<1>1. First \in DOMAIN rows /\ \A j \in DOMAIN rows : First <= j
  BY FirstIsFirst
<1> DEFINE n == First
<1>2. n \in DOMAIN rows' /\ \A j \in DOMAIN rows' : n <= j
  BY <1>1 DEF RowsTyped
<1> HIDE DEF n
<1>3. (CHOOSE i \in DOMAIN rows' : \A j \in DOMAIN rows' : i <= j) = n
  BY <1>2, LeastIs
<1> QED BY <1>3 DEF n, First

LEMMA BlankTyped ==
  /\ Blank \in SettingsRow /\ EmptyForm \in Form /\ NoFiles \in [logo : Images, footer : Images]
  /\ Nothing \in [id : Nat, row : SettingsRow]
BY DEF Blank, EmptyForm, NoFiles, Nothing, SettingsRow, Form, Images, Texts

LEMMA SettingsStarts == SettingsInit => SettingsInv
<1> SUFFICES ASSUME SettingsInit PROVE SettingsInv
  OBVIOUS
<1>1. RowsTyped
  BY DEF SettingsInit, RowsTyped
<1>2. ScriptsTyped
  BY BlankTyped DEF SettingsInit, ScriptsTyped, PageLabels
<1>3. SeenIsThere /\ \A p \in Pages : Alone(p)
  BY DEF SettingsInit, SeenIsThere, Alone, Saving, AfterLogo
<1> QED BY <1>1, <1>2, <1>3 DEF SettingsInv

(* A script that goes on while the others wait.                            *)
LEMMA SeenKept ==
  ASSUME SettingsInv, NEW p \in Pages, nextId' \in Nat, nextId <= nextId',
         DOMAIN rows \subseteq DOMAIN rows',
         \A q \in Pages : q # p => page'[q] = page[q] /\ seenRow'[q] = seenRow[q],
         page'[p] = "commit" => seenRow'[p].id \in 1 .. nextId' - 1,
         page'[p] \in Saving => seenRow'[p].id \in DOMAIN rows'
  PROVE  SeenIsThere'
<1> SUFFICES ASSUME NEW q \in Pages
             PROVE  /\ page'[q] = "commit" => seenRow'[q].id \in 1 .. nextId' - 1
                    /\ page'[q] \in Saving => seenRow'[q].id \in DOMAIN rows'
  BY DEF SeenIsThere, Saving
<1>1. CASE q = p
  BY <1>1
<1>2. CASE q # p
  <2>1. page'[q] = page[q] /\ seenRow'[q] = seenRow[q]
    BY <1>2
  <2>2. /\ page[q] = "commit" => seenRow[q].id \in 1 .. nextId - 1
        /\ page[q] \in Saving => seenRow[q].id \in DOMAIN rows
    BY DEF SettingsInv, SeenIsThere
  <2>3. 1 .. nextId - 1 \subseteq 1 .. nextId' - 1
    BY DEF SettingsInv, RowsTyped
  <2> QED BY <2>1, <2>2, <2>3
<1> QED BY <1>1, <1>2

LEMMA AloneKept ==
  ASSUME NEW p \in Pages, Alone(p), rows' = rows, mixed'[p] = mixed[p], page'[p] = page[p],
         seenRow'[p] = seenRow[p], picked'[p] = picked[p], captured'[p] = captured[p]
  PROVE  Alone(p)'
BY DEF Alone, First, Saving, AfterLogo

LEMMA OthersMixed ==
  ASSUME ScriptsTyped, NEW p \in Pages, NEW q \in Pages, q # p, Written(p), page'[q] = page[q]
  PROVE  Alone(q)'
<1>1. CASE page[q] \in {"saved"} \cup Finding \cup Saving
  <2>1. mixed'[q]
    BY <1>1 DEF Written
  <2> QED BY <2>1 DEF Alone
<1>2. CASE page[q] \notin {"saved"} \cup Finding \cup Saving
  <2>1. page'[q] \notin Saving /\ page'[q] \notin AfterLogo /\ page'[q] # "saved"
    BY <1>2 DEF Finding, Saving, AfterLogo
  <2> QED BY <2>1 DEF Alone, Saving, AfterLogo
<1> QED BY <1>1, <1>2

LEMMA WrittenTyped ==
  ASSUME ScriptsTyped, NEW p \in Pages, Written(p)
  PROVE  mixed' \in [Pages -> BOOLEAN] /\ (mixed'[p] <=> mixed[p])
BY DEF ScriptsTyped, Written

LEMMA RowSaved ==
  ASSUME RowsTyped, NEW i \in DOMAIN rows, NEW row \in SettingsRow,
         rows' = [rows EXCEPT ![i] = row], nextId' = nextId
  PROVE  /\ RowsTyped' /\ DOMAIN rows' = DOMAIN rows /\ First' = First
         /\ i = First => rows'[First] = row
<1>1. DOMAIN rows' = DOMAIN rows /\ rows' \in [DOMAIN rows -> SettingsRow]
  BY DEF RowsTyped
<1>2. RowsTyped'
  BY <1>1 DEF RowsTyped
<1>3. rows # <<>> /\ DOMAIN rows \in SUBSET Nat
  BY DEF RowsTyped
<1>4. First' = First
  BY <1>1, <1>3, FirstStays
<1>5. i = First => rows'[First] = row
  <2> DEFINE n == First
  <2> HIDE DEF n
  <2>1. i = n => rows'[n] = row
    OBVIOUS
  <2> QED BY <2>1 DEF n
<1> QED BY <1>1, <1>2, <1>4, <1>5

(* What the three saves have in common.                                    *)
LEMMA SaveStep ==
  ASSUME SettingsInv, NEW p \in Pages, page[p] \in Saving,
         NEW row \in SettingsRow, rows' = [rows EXCEPT ![seenRow[p].id] = row],
         NEW l \in PageLabels \ (Saving \cup {"commit"}), PageAt(p, l),
         Written(p), Forget(p), form' \in [Pages -> Form],
         UNCHANGED <<nextId, captured, picked>>,
         ~ mixed[p] => /\ l \in AfterLogo /\ picked[p].logo # None => row.logo = picked[p].logo
                       /\ l = "saved" => row.text = captured[p].text
  PROVE  SettingsInv' /\ (rows # <<>> => First' = First)
<1>0. RowsTyped /\ ScriptsTyped /\ SeenIsThere
  BY DEF SettingsInv
<1>1. seenRow[p].id \in DOMAIN rows
  BY <1>0 DEF SeenIsThere
<1>2. /\ RowsTyped' /\ DOMAIN rows' = DOMAIN rows /\ First' = First
      /\ seenRow[p].id = First => rows'[First] = row
  BY <1>0, <1>1, RowSaved
<1>3. /\ page' = [page EXCEPT ![p] = l] /\ page'[p] = l
      /\ seenRow' = [seenRow EXCEPT ![p] = Nothing]
  BY <1>0 DEF PageAt, Forget, ScriptsTyped
<1>4. ScriptsTyped'
  BY <1>0, <1>3, BlankTyped, WrittenTyped DEF ScriptsTyped
<1>5. SeenIsThere'
  <2>1. \A q \in Pages : q # p => page'[q] = page[q] /\ seenRow'[q] = seenRow[q]
    BY <1>0, <1>3 DEF ScriptsTyped
  <2>2. nextId' \in Nat /\ nextId <= nextId' /\ DOMAIN rows \subseteq DOMAIN rows'
    BY <1>0, <1>2 DEF RowsTyped
  <2>3. page'[p] # "commit" /\ page'[p] \notin Saving
    BY <1>3
  <2> QED BY <2>1, <2>2, <2>3, SeenKept
<1>6. ASSUME NEW q \in Pages PROVE Alone(q)'
  <2>1. CASE q # p
    <3>1. page'[q] = page[q]
      BY <2>1, <1>0, <1>3 DEF ScriptsTyped
    <3> QED BY <2>1, <3>1, <1>0, OthersMixed
  <2>2. CASE q = p
    <3> SUFFICES ASSUME ~ mixed'[p]
                 PROVE  /\ l \in AfterLogo /\ picked[p].logo # None
                             => rows'[First'].logo = picked[p].logo
                        /\ l = "saved" => rows'[First'].text = captured[p].text
      BY <2>2, <1>3 DEF Alone, Saving, AfterLogo
    <3>1. ~ mixed[p]
      BY <1>0, WrittenTyped
    <3>2. seenRow[p].id = First
      BY <3>1 DEF SettingsInv, Alone
    <3> QED BY <3>1, <3>2, <1>2
  <2> QED BY <2>1, <2>2
<1> QED BY <1>2, <1>4, <1>5, <1>6 DEF SettingsInv

(* The steps that leave the rows alone: the others stay as they are, and   *)
(* the script itself is in order.                                          *)
LEMMA QuietStep ==
  ASSUME SettingsInv, NEW p \in Pages, rows' = rows, nextId' \in Nat, nextId <= nextId',
         ScriptsTyped',
         \A q \in Pages : q # p =>
           /\ page'[q] = page[q] /\ seenRow'[q] = seenRow[q] /\ mixed'[q] = mixed[q]
           /\ picked'[q] = picked[q] /\ captured'[q] = captured[q],
         page'[p] = "commit" => seenRow'[p].id \in 1 .. nextId' - 1,
         page'[p] \in Saving => seenRow'[p].id \in DOMAIN rows,
         Alone(p)'
  PROVE  SettingsInv'
<1>1. RowsTyped'
  BY DEF SettingsInv, RowsTyped
<1>2. SeenIsThere'
  BY SeenKept
<1>3. ASSUME NEW q \in Pages PROVE Alone(q)'
  BY AloneKept DEF SettingsInv
<1> QED BY <1>1, <1>2, <1>3 DEF SettingsInv

LEMMA ScriptStep ==
  ASSUME SettingsInv, NEW p \in Pages,
         Open(p) \/ Get(p) \/ GetNothing(p) \/ Insert(p) \/ Click(p) \/ FindRow(p) \/ CallFails(p)
  PROVE  SettingsInv' /\ rows' = rows
<1>0. RowsTyped /\ ScriptsTyped /\ SeenIsThere /\ Alone(p)
  BY DEF SettingsInv
<1>n. nextId \in Nat /\ nextId <= nextId
  BY <1>0 DEF RowsTyped
<1> USE DEF PageAt
<1>1. CASE Open(p) \/ CallFails(p)
  <2>1. PICK l \in {"get", "editing"} :
          /\ page' = [page EXCEPT ![p] = l]
          /\ Leave(p) /\ mixed' = [mixed EXCEPT ![p] = FALSE]
          /\ form' = [form EXCEPT ![p] = EmptyForm] \/ form' = form
          /\ UNCHANGED <<rows, nextId>>
    BY <1>1 DEF Open, CallFails
  <2>2. ScriptsTyped'
    BY <2>1, <1>0, BlankTyped DEF ScriptsTyped, Leave, Forget, PageLabels
  <2>3. page'[p] = l
    BY <2>1, <1>0 DEF ScriptsTyped
  <2>4. Alone(p)' /\ page'[p] # "commit" /\ page'[p] \notin Saving
    BY <2>3 DEF Alone, Saving, AfterLogo
  <2>5. \A q \in Pages : q # p =>
          /\ page'[q] = page[q] /\ seenRow'[q] = seenRow[q] /\ mixed'[q] = mixed[q]
          /\ picked'[q] = picked[q] /\ captured'[q] = captured[q]
    BY <2>1, <1>0 DEF ScriptsTyped, Leave, Forget
  <2> QED BY <2>1, <2>2, <2>4, <2>5, <1>n, QuietStep
<1>2. CASE Get(p)
  <2>1. First \in DOMAIN rows
    BY <1>2, <1>0, FirstIsFirst DEF Get
  <2>2. [text |-> rows[First].text, footer |-> rows[First].footer] \in Form
    BY <2>1, <1>0 DEF RowsTyped, SettingsRow, Form
  <2>3. ScriptsTyped'
    BY <2>2, <1>2, <1>0 DEF Get, ScriptsTyped, PageLabels
  <2>4. page'[p] = "editing"
    BY <1>2, <1>0 DEF Get, ScriptsTyped
  <2>5. Alone(p)' /\ page'[p] # "commit" /\ page'[p] \notin Saving
    BY <2>4 DEF Alone, Saving, AfterLogo
  <2>6. \A q \in Pages : q # p =>
          /\ page'[q] = page[q] /\ seenRow'[q] = seenRow[q] /\ mixed'[q] = mixed[q]
          /\ picked'[q] = picked[q] /\ captured'[q] = captured[q]
    BY <1>2, <1>0 DEF Get, ScriptsTyped
  <2> QED BY <2>3, <2>5, <2>6, <1>2, <1>n, QuietStep DEF Get
<1>3. CASE GetNothing(p)
  <2>1. ScriptsTyped' /\ page'[p] = "insert"
    BY <1>3, <1>0 DEF GetNothing, ScriptsTyped, PageLabels
  <2>2. Alone(p)' /\ page'[p] # "commit" /\ page'[p] \notin Saving
    BY <2>1 DEF Alone, Saving, AfterLogo
  <2>3. \A q \in Pages : q # p =>
          /\ page'[q] = page[q] /\ seenRow'[q] = seenRow[q] /\ mixed'[q] = mixed[q]
          /\ picked'[q] = picked[q] /\ captured'[q] = captured[q]
    BY <1>3, <1>0 DEF GetNothing, ScriptsTyped
  <2> QED BY <2>1, <2>2, <2>3, <1>3, <1>n, QuietStep DEF GetNothing
<1>4. CASE Insert(p)
  <2>1. nextId' = nextId + 1 /\ seenRow' = [seenRow EXCEPT ![p].id = nextId]
    BY <1>4 DEF Insert
  <2>2. seenRow' \in [Pages -> [id : Nat, row : SettingsRow]] /\ seenRow'[p].id = nextId
    BY <2>1, <1>0, <1>n DEF ScriptsTyped
  <2>3. ScriptsTyped' /\ page'[p] = "commit"
    BY <2>2, <1>4, <1>0 DEF Insert, ScriptsTyped, PageLabels
  <2>4. Alone(p)' /\ page'[p] \notin Saving
    BY <2>3 DEF Alone, Saving, AfterLogo
  <2>5. nextId' \in Nat /\ nextId <= nextId' /\ seenRow'[p].id \in 1 .. nextId' - 1
    BY <2>1, <2>2, <1>0 DEF RowsTyped
  <2>6. \A q \in Pages : q # p =>
          /\ page'[q] = page[q] /\ seenRow'[q] = seenRow[q] /\ mixed'[q] = mixed[q]
          /\ picked'[q] = picked[q] /\ captured'[q] = captured[q]
    BY <2>1, <1>4, <1>0 DEF Insert, ScriptsTyped
  <2> QED BY <2>3, <2>4, <2>5, <2>6, <1>4, QuietStep DEF Insert
<1>5. CASE Click(p)
  <2>1. PICK l, f \in Images :
          /\ picked' = [picked EXCEPT ![p] = [logo |-> l, footer |-> f]]
          /\ page' = [page EXCEPT ![p] = IF l # None THEN "find_logo" ELSE
                                        IF f # None THEN "find_footer" ELSE "find_form"]
    BY <1>5 DEF Click
  <2> DEFINE at == IF l # None THEN "find_logo" ELSE
                   IF f # None THEN "find_footer" ELSE "find_form"
  <2>2. /\ at \in Finding /\ (at # "find_logo" => l = None)
        /\ page' = [page EXCEPT ![p] = at]
    BY <2>1 DEF Finding
  <2> HIDE DEF at
  <2>3. form' \in [Pages -> Form] /\ captured' \in [Pages -> Form]
    <3>1. p \in Texts
      BY DEF Texts
    <3> DEFINE g == form[p]
    <3>2. [g EXCEPT !.text = p] \in Form
      <4>1. g \in [text : Texts, footer : Images]
        BY <1>0 DEF ScriptsTyped, Form
      <4> HIDE DEF g
      <4> QED BY <3>1, <4>1 DEF Form
    <3>3. form' = [form EXCEPT ![p] = [form[p] EXCEPT !.text = p]]
      BY <1>5 DEF Click
    <3> QED BY <3>2, <3>3, <1>5, <1>0 DEF Click, ScriptsTyped
  <2>4. ScriptsTyped'
    BY <2>1, <2>2, <2>3, <1>5, <1>0 DEF Click, ScriptsTyped, PageLabels
  <2>5. page'[p] = at /\ picked'[p].logo = l
    BY <2>1, <2>2, <1>0 DEF ScriptsTyped
  <2>6. Alone(p)' /\ page'[p] # "commit" /\ page'[p] \notin Saving
    BY <2>2, <2>5 DEF Alone, Saving, AfterLogo, Finding
  <2>7. \A q \in Pages : q # p =>
          /\ page'[q] = page[q] /\ seenRow'[q] = seenRow[q] /\ mixed'[q] = mixed[q]
          /\ picked'[q] = picked[q] /\ captured'[q] = captured[q]
    BY <2>1, <2>2, <1>5, <1>0 DEF Click, ScriptsTyped
  <2> QED BY <2>4, <2>6, <2>7, <1>5, <1>n, QuietStep DEF Click
<1>6. CASE FindRow(p)
  <2> DEFINE to == SaveAfter[page[p]]
             n == First
  <2>1. First \in DOMAIN rows
    BY <1>6, <1>0, FirstIsFirst DEF FindRow
  <2>2. /\ to \in Saving
        /\ to \in AfterLogo => page[p] \in AfterLogo
        /\ page' = [page EXCEPT ![p] = to]
    BY <1>6 DEF FindRow, SaveAfter, Finding, Saving, AfterLogo
  <2>3. seenRow' = [seenRow EXCEPT ![p] = [id |-> n, row |-> rows[n]]]
    BY <1>6 DEF FindRow
  <2>f. First' = First
    BY <1>6 DEF FindRow, First
  <2> HIDE DEF to, n
  <2>4. [id |-> n, row |-> rows[n]] \in [id : Nat, row : SettingsRow]
    BY <2>1, <1>0 DEF RowsTyped, n
  <2>5. ScriptsTyped'
    BY <2>2, <2>3, <2>4, <1>6, <1>0 DEF FindRow, ScriptsTyped, PageLabels
  <2>6. page'[p] = to /\ seenRow'[p] = [id |-> n, row |-> rows[n]]
    BY <2>2, <2>3, <1>0 DEF ScriptsTyped
  <2>7. page'[p] # "commit" /\ seenRow'[p].id \in DOMAIN rows
    BY <2>1, <2>2, <2>6 DEF Saving, n
  <2>8. Alone(p)'
    <3> SUFFICES ASSUME ~ mixed'[p]
                 PROVE  /\ seenRow'[p] = [id |-> First', row |-> rows'[First']]
                        /\ to \in AfterLogo /\ picked'[p].logo # None
                             => rows'[First'].logo = picked'[p].logo
                        /\ to # "saved"
      BY <2>6 DEF Alone, Saving, AfterLogo
    <3>1. to # "saved"
      BY <2>2 DEF Saving
    <3>2. seenRow'[p] = [id |-> First', row |-> rows'[First']]
      BY <2>6, <2>f, <1>6 DEF FindRow, n
    <3>3. ASSUME to \in AfterLogo, picked'[p].logo # None
          PROVE  rows'[First'].logo = picked'[p].logo
      BY <3>3, <2>2, <2>f, <1>6, <1>0 DEF FindRow, Alone
    <3> QED BY <3>1, <3>2, <3>3
  <2>9. \A q \in Pages : q # p =>
          /\ page'[q] = page[q] /\ seenRow'[q] = seenRow[q] /\ mixed'[q] = mixed[q]
          /\ picked'[q] = picked[q] /\ captured'[q] = captured[q]
    BY <2>2, <2>3, <1>6, <1>0 DEF FindRow, ScriptsTyped
  <2> QED BY <2>5, <2>7, <2>8, <2>9, <1>6, <1>n, QuietStep DEF FindRow
<1> QED BY <1>1, <1>2, <1>3, <1>4, <1>5, <1>6

LEMMA RowStep ==
  ASSUME SettingsInv, NEW p \in Pages, SaveLogo(p) \/ SaveFooter(p) \/ SaveForm(p)
  PROVE  SettingsInv' /\ (rows # <<>> => First' = First)
<1>0. ScriptsTyped /\ Alone(p) /\ RowsTyped
  BY DEF SettingsInv
<1> DEFINE row == seenRow[p].row
           pick == picked[p]
<1>1. row \in [text : Texts, logo : Images, footer : Images]
  BY <1>0 DEF ScriptsTyped, SettingsRow
<1>2. pick \in [logo : Images, footer : Images]
  BY <1>0 DEF ScriptsTyped
<1>3. captured[p] \in [text : Texts, footer : Images]
  BY <1>0 DEF ScriptsTyped, Form
<1>4. /\ page[p] \in Saving /\ Written(p) /\ Forget(p)
      /\ UNCHANGED <<nextId, captured, picked>>
  BY DEF SaveLogo, SaveFooter, SaveForm, Saving
<1>5. ~ mixed[p] => /\ row = rows[First]
                    /\ page[p] \in AfterLogo /\ pick.logo # None => row.logo = pick.logo
  BY <1>4, <1>0 DEF Alone
<1>6. CASE SaveLogo(p)
  <2> DEFINE to == IF pick.footer # None THEN "find_footer" ELSE "find_form"
             new == [row EXCEPT !.logo = pick.logo]
  <2>1. to \in PageLabels \ (Saving \cup {"commit"}) /\ to \in AfterLogo /\ to # "saved"
    BY DEF PageLabels, Finding, Saving, AfterLogo
  <2>2. PageAt(p, to) /\ rows' = [rows EXCEPT ![seenRow[p].id] = new] /\ form' = form
    BY <1>6 DEF SaveLogo
  <2> HIDE DEF row, pick
  <2>3. new \in SettingsRow /\ new.logo = pick.logo
    BY <1>1, <1>2 DEF SettingsRow
  <2> HIDE DEF to, new
  <2>4. form' \in [Pages -> Form]
    BY <2>2, <1>0 DEF ScriptsTyped
  <2> QED BY <2>1, <2>2, <2>3, <2>4, <1>4, SaveStep DEF pick
<1>7. CASE SaveFooter(p)
  <2> DEFINE new == [row EXCEPT !.footer = pick.footer]
  <2>1. "find_form" \in PageLabels \ (Saving \cup {"commit"}) /\ page[p] \in AfterLogo
    BY <1>7 DEF PageLabels, Finding, Saving, AfterLogo, SaveFooter
  <2>2. /\ PageAt(p, "find_form") /\ rows' = [rows EXCEPT ![seenRow[p].id] = new]
        /\ form' = [form EXCEPT ![p].footer = pick.footer]
    BY <1>7 DEF SaveFooter
  <2> HIDE DEF row, pick
  <2>3. new \in SettingsRow /\ new.logo = row.logo
    BY <1>1, <1>2 DEF SettingsRow
  <2>4. form' \in [Pages -> Form]
    BY <2>2, <1>0, <1>2 DEF ScriptsTyped, Form
  <2> HIDE DEF new
  <2>5. ~ mixed[p] => (picked[p].logo # None => new.logo = picked[p].logo)
    BY <2>1, <2>3, <1>5 DEF pick
  <2> QED BY <2>1, <2>2, <2>3, <2>4, <2>5, <1>4, SaveStep
<1>8. CASE SaveForm(p)
  <2> DEFINE new == [row EXCEPT !.text = captured[p].text, !.footer = captured[p].footer]
  <2>1. "saved" \in PageLabels \ (Saving \cup {"commit"}) /\ page[p] \in AfterLogo
    BY <1>8 DEF PageLabels, Finding, Saving, AfterLogo, SaveForm
  <2>2. PageAt(p, "saved") /\ rows' = [rows EXCEPT ![seenRow[p].id] = new] /\ form' = form
    BY <1>8 DEF SaveForm, Updated
  <2> HIDE DEF row, pick
  <2>3. new \in SettingsRow /\ new.logo = row.logo /\ new.text = captured[p].text
    BY <1>1, <1>3 DEF SettingsRow
  <2>4. form' \in [Pages -> Form]
    BY <2>2, <1>0 DEF ScriptsTyped
  <2> HIDE DEF new
  <2>5. ~ mixed[p] => (picked[p].logo # None => new.logo = picked[p].logo)
    BY <2>1, <2>3, <1>5 DEF pick
  <2> QED BY <2>1, <2>2, <2>3, <2>4, <2>5, <1>4, SaveStep
<1> QED BY <1>6, <1>7, <1>8

(* The row a reader creates appears.                                       *)
LEMMA CommitStep ==
  ASSUME SettingsInv, NEW p \in Pages, CommitInsert(p)
  PROVE  SettingsInv' /\ (rows # <<>> /\ (\A i \in Pending : First < i) => First' = First)
<1>0. RowsTyped /\ ScriptsTyped /\ SeenIsThere
  BY DEF SettingsInv
<1> DEFINE new == seenRow[p].id
<1>1. new \in 1 .. nextId - 1 /\ page[p] = "commit" /\ new \in Pending
  BY <1>0 DEF CommitInsert, SeenIsThere, Pending
<1>2. /\ rows' = [i \in DOMAIN rows \cup {new} |-> IF i = new THEN Blank ELSE rows[i]]
      /\ page' = [page EXCEPT ![p] = "editing"]
      /\ seenRow' = [seenRow EXCEPT ![p] = Nothing]
      /\ Written(p) /\ UNCHANGED <<nextId, form, captured, picked>>
  BY DEF CommitInsert, PageAt, Forget
<1> HIDE DEF new
<1>3. DOMAIN rows' = DOMAIN rows \cup {new} /\ rows' \in [DOMAIN rows \cup {new} -> SettingsRow]
  BY <1>2, <1>0, BlankTyped DEF RowsTyped
<1>4. RowsTyped'
  BY <1>1, <1>2, <1>3, <1>0 DEF RowsTyped
<1>5. ScriptsTyped'
  BY <1>2, <1>0, BlankTyped, WrittenTyped DEF ScriptsTyped, PageLabels
<1>6. /\ page'[p] = "editing"
      /\ \A q \in Pages : q # p => page'[q] = page[q] /\ seenRow'[q] = seenRow[q]
  BY <1>2, <1>0 DEF ScriptsTyped
<1>7. SeenIsThere'
  <2>1. nextId' \in Nat /\ nextId <= nextId' /\ DOMAIN rows \subseteq DOMAIN rows'
    BY <1>0, <1>2, <1>3 DEF RowsTyped
  <2> QED BY <2>1, <1>6, SeenKept DEF Saving
<1>8. ASSUME NEW q \in Pages PROVE Alone(q)'
  <2>1. CASE q # p
    BY <2>1, <1>0, <1>2, <1>6, OthersMixed
  <2>2. CASE q = p
    BY <2>2, <1>6 DEF Alone, Saving, AfterLogo
  <2> QED BY <2>1, <2>2
<1>9. ASSUME rows # <<>>, \A i \in Pending : First < i PROVE First' = First
  <2>1. DOMAIN rows' \in SUBSET Nat /\ DOMAIN rows \subseteq DOMAIN rows'
    BY <1>3, <1>4 DEF RowsTyped
  <2>2. \A j \in DOMAIN rows' : j \in DOMAIN rows \/ First < j
    BY <1>1, <1>3, <1>9
  <2> QED BY <2>1, <2>2, <1>0, <1>9, FirstStays
<1> QED BY <1>4, <1>5, <1>7, <1>8, <1>9 DEF SettingsInv

LEMMA SettingsStep == SettingsInv /\ [SettingsNext]_settingsVars => SettingsInv'
<1> SUFFICES ASSUME SettingsInv, [SettingsNext]_settingsVars PROVE SettingsInv'
  OBVIOUS
<1>1. CASE SettingsNext
  BY <1>1, ScriptStep, RowStep, CommitStep DEF SettingsNext
<1>2. CASE UNCHANGED settingsVars
  <2>1. RowsTyped' /\ ScriptsTyped' /\ SeenIsThere'
    BY <1>2 DEF settingsVars, SettingsInv, RowsTyped, ScriptsTyped, SeenIsThere, Saving
  <2>2. ASSUME NEW q \in Pages PROVE Alone(q)'
    BY <1>2, AloneKept DEF settingsVars, SettingsInv
  <2> QED BY <2>1, <2>2 DEF SettingsInv
<1> QED BY <1>1, <1>2

LEMMA SettingsInvHolds == SettingsSpec => []SettingsInv
BY SettingsStarts, SettingsStep, PTL DEF SettingsSpec

LEMMA SettingsInvTypes == SettingsInv => SettingsTypeOK
BY DEF SettingsInv, RowsTyped, ScriptsTyped, SettingsTypeOK

(* For any pages and images, every step of StoreSettingsPage.tsx and       *)
(* store_settings_service.go keeps rows and scripts of their types, and    *)
(* every row has an id the sequence has given out.                         *)
THEOREM SettingsTypeCorrect == SettingsSpec => []SettingsTypeOK
BY SettingsInvHolds, SettingsInvTypes, PTL

(* Any number of first readers may each create a row (the race in          *)
(* GetFirst's callers); once none with a lower id is under way, the row    *)
(* that everyone reads and saves never changes again.                      *)
THEOREM RowIsSettled == SettingsSpec => SettledRow
<1>1. ASSUME SettingsInv, [SettingsNext]_settingsVars
      PROVE  [ rows # <<>> /\ (\A i \in Pending : First < i) => First' = First ]_settingsVars
  <2>1. ASSUME NEW p \in Pages,
               \/ Open(p) \/ Get(p) \/ GetNothing(p) \/ Insert(p) \/ Click(p)
               \/ FindRow(p) \/ CallFails(p)
        PROVE  First' = First
    BY <2>1, <1>1, ScriptStep DEF First
  <2> QED BY <2>1, <1>1, RowStep, CommitStep DEF SettingsNext
<1> QED BY <1>1, SettingsInvHolds, PTL DEF SettingsSpec, SettledRow

(* Three calls, each of which reads the row and saves every column of it,  *)
(* lose nothing of what one admin saves while nobody else writes, however  *)
(* many others read, click or fail: the text and the logo are stored when  *)
(* handleSave says so.                                                     *)
THEOREM SavedStays == SettingsSpec => []SavedIsStored
<1>1. SettingsInv => SavedIsStored
  BY DEF SettingsInv, Alone, AfterLogo, SavedIsStored, Undisturbed
<1> QED BY <1>1, SettingsInvHolds, PTL

-----------------------------------------------------------------------------
(* The three together.                                                     *)

BackOfficeInv == SettingsInv /\ AccountsInv /\ CatalogInv

LEMMA BackOfficeInvHolds == Spec => []BackOfficeInv
<1>1. Init => BackOfficeInv
  BY SettingsStarts, AccountsStarts, CatalogStarts DEF Init, BackOfficeInv
<1>2. BackOfficeInv /\ [Next]_<<part, settingsVars, accountsVars, catalogVars>> => BackOfficeInv'
  <2> SUFFICES ASSUME BackOfficeInv, [Next]_<<part, settingsVars, accountsVars, catalogVars>>
               PROVE  BackOfficeInv'
    OBVIOUS
  <2>1. /\ [SettingsNext]_settingsVars
        /\ [AccountsNext]_accountsVars
        /\ [CatalogNext]_catalogVars
    BY DEF Next
  <2> QED BY <2>1, SettingsStep, CatalogStep, AccountsTypeStep, RightsStep
          DEF BackOfficeInv, AccountsInv
<1> QED BY <1>1, <1>2, PTL DEF Spec

(* In a behaviour of the composed back office every part's state is of its *)
(* type: no part writes another's.                                         *)
THEOREM BackOfficeTypeCorrect == Spec => []TypeOK
<1>1. BackOfficeInv => TypeOK
  BY SettingsInvTypes DEF BackOfficeInv, AccountsInv, CatalogInv, TypeOK
<1> QED BY <1>1, BackOfficeInvHolds, PTL

=============================================================================
