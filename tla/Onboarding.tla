----------------------------- MODULE Onboarding -----------------------------
(***************************************************************************)
(* Organizations, schools, partners and the accounts that get roles in     *)
(* them (platform/service.py, platform/owner.py, partners/service.py,      *)
(* users/service.py, rbac/account_resolver.py, schools/router.py).         *)
(*                                                                         *)
(* A school is created with its administrator and its source of            *)
(* acquisition in one transaction, which locks the organization, then the  *)
(* email of the administrator, and then decides whether an account of that *)
(* email may be used again.  Accounts are also invited to a school one at  *)
(* a time, without those locks; unique keys are then the only arbiters.    *)
(* Names, emails and slugs are normal forms unless said otherwise.         *)
(***************************************************************************)
EXTENDS Integers, FiniteSets

CONSTANTS
  Operator,     \* requests in progress at the same time
  Email, Org,   \* emails of accounts; organizations, by their slug
  Site,         \* schools, by organization and slug
  OrgOf,        \* the organization of each
  NameOf,       \* the name it is created with
  Normal,       \* _normalized_name: case and spaces ignored
  Global,       \* the scope of a role in no organization
  FirstSites, FirstRoles, FirstSource,  \* what is there at first
  Invitable,    \* role codes that are given in a school
  MaxSetups     \* bound on requests

NoName == ""
Schooling == {"SCHOOL_ADMIN", "DIRECTOR", "TEACHER"}
NonSchool == {"PLATFORM_OWNER", "PARTNER_ADMIN", "SUPER_ADMIN"}
ReusableAdmin == {"SCHOOL_ADMIN", "DIRECTOR"}
Scope == Org \cup Site \cup {Global}
Role == Email \X (Schooling \cup NonSchool) \X Scope
Source == {"none", "PLATFORM_OWNER"} \cup Email

OrgAt(scope) == IF scope \in Site THEN OrgOf[scope] ELSE scope

ASSUME ScopeAssumption ==
  /\ Global \notin Org \cup Site /\ Org \cap Site = {}
  /\ OrgOf \in [Site -> Org] /\ MaxSetups \in Nat /\ Invitable \subseteq Schooling
ASSUME NamesAssumption ==
  \A s, t \in FirstSites :
    OrgOf[s] = OrgOf[t] /\ Normal[NameOf[s]] = Normal[NameOf[t]] => s = t
ASSUME RolesAssumption ==
  /\ FirstSites \subseteq Site /\ FirstRoles \subseteq Role /\ FirstSource \in Source
  /\ \A r \in FirstRoles : r[2] \in NonSchool <=> r[3] = Global
  /\ \A r, q \in FirstRoles : r[1] = q[1] => OrgAt(r[3]) = OrgAt(q[3])
  /\ \A r \in FirstRoles : r[3] # Global => \E s \in FirstSites : OrgOf[s] = OrgAt(r[3])
ASSUME RowsAssumption ==
  /\ Email # {} /\ Site # {} /\ FirstSource # "none"
  /\ \A s \in Site : NameOf[s] # NoName

VARIABLES
  known,        \* emails with an account
  active,       \* those that are active
  flagged,      \* those with is_platform_admin
  role,         \* committed user_roles
  name,         \* the name of each school, NoName where there is none
  renamed,      \* schools that were given another name
  source,       \* partner_school_enrollments: one source for each school
  setup,        \* each request
  invited,      \* emails that were sent a link to activate their account
  setups

setupVars == <<known, active, flagged, role, name, renamed, source, setup, invited, setups>>

Latch == ({"org"} \X Org) \cup ({"mail", "key"} \X Email)

(* src: who enrolls the school; grant, drop: roles to add and to delete;   *)
(* fresh: the account is new; mail: it will be sent a link; held: locks.   *)
Setup ==
  [pc : {"idle", "slug", "org", "email", "resolve", "insert", "commit", "mail"},
   kind : {"found", "add", "invite", "change", "partner", "promote"},
   who : Email, site : Site, src : Source, grant : SUBSET Role,
   drop : SUBSET Role, fresh : BOOLEAN, held : SUBSET Latch]
NoSetup ==
  [pc |-> "idle", kind |-> "found", who |-> CHOOSE e \in Email : TRUE,
   site |-> CHOOSE s \in Site : TRUE, src |-> "none", grant |-> {}, drop |-> {},
   fresh |-> FALSE, held |-> {}]

Built == {s \in Site : name[s] # NoName}
Founded == {OrgOf[s] : s \in Built}

OnboardTypeOK ==
  /\ active \subseteq known /\ flagged \subseteq known /\ known \subseteq Email
  /\ role \subseteq Role
  /\ \A r \in role : r[1] \in known /\ (r[3] # Global => OrgAt(r[3]) \in Founded)
  /\ name \in [Site -> {NameOf[s] : s \in Site} \cup {NoName}] /\ renamed \subseteq Built
  /\ source \in [Site -> Source]
  /\ \A s \in Site : source[s] = "none" <=> s \notin Built
  /\ setup \in [Operator -> Setup]
  /\ invited \subseteq Email /\ setups \in 0 .. MaxSetups

OnboardInit ==
  /\ known = {r[1] : r \in FirstRoles} /\ active = known
  /\ flagged = {r[1] : r \in {r \in FirstRoles : r[2] = "SUPER_ADMIN"}}
  /\ role = FirstRoles
  /\ name = [s \in Site |-> IF s \in FirstSites THEN NameOf[s] ELSE NoName]
  /\ renamed = {}
  /\ source = [s \in Site |-> IF s \in FirstSites THEN FirstSource ELSE "none"]
  /\ setup = [o \in Operator |-> NoSetup]
  /\ invited = {} /\ setups = 0

----------------------------------------------------------------------------
Accounts == <<known, active, flagged, role>>
Schools == <<name, renamed, source>>

(* What an account may do, from all its roles.                             *)
RolesOf(e) == {r \in role : r[1] = e}
Isolated(e) == e \in flagged \/ \E r \in RolesOf(e) : r[2] \in NonSchool
Reusable(e, g) ==
  /\ e \in active /\ ~Isolated(e)
  /\ \E r \in RolesOf(e) : OrgAt(r[3]) = g /\ r[2] \in ReusableAdmin
\* Faulty variant: the administrator of one school counts for all of them.
CoversSome(e, g) == \E r \in RolesOf(e) : r[2] = "SCHOOL_ADMIN" /\ OrgAt(r[3]) = g
CoversAll(e, g) == <<e, "SCHOOL_ADMIN", g>> \in role
\* Faulty variant: an account of any organization may be attached.
EligibleAnywhere(e, s, code) ==
  e \in active /\ ~Isolated(e) /\ (code = "SCHOOL_ADMIN" => Reusable(e, OrgOf[s]))
Eligible(e, s, code) ==
  /\ e \in active /\ ~Isolated(e)
  /\ \E r \in RolesOf(e) : OrgAt(r[3]) = OrgOf[s]
  /\ code = "SCHOOL_ADMIN" => Reusable(e, OrgOf[s])

HeldByOther(o, l) == \E p \in Operator \ {o} : l \in setup[p].held
Became(o, s) == setup' = [setup EXCEPT ![o] = s]
GiveUp(o) == Became(o, NoSetup) /\ UNCHANGED <<Accounts, Schools, invited, setups>>

AskSetup(o, s) ==
  /\ setup[o].pc = "idle"
  /\ setups < MaxSetups
  /\ setups' = setups + 1
  /\ Became(o, s)
  /\ UNCHANGED <<Accounts, Schools, invited>>

(* A partner enrolls in its own name, anywhere a new organization, and in  *)
(* organizations where it enrolled a school before.                        *)
MayEnroll(src) == src = "PLATFORM_OWNER" \/ <<src, "PARTNER_ADMIN", Global>> \in role
AskFound(o, s, e, src) ==
  /\ MayEnroll(src)
  /\ AskSetup(o, [NoSetup EXCEPT !.pc = "slug", !.kind = "found", !.who = e, !.site = s, !.src = src])
AskAdd(o, s, e, src) ==
  /\ MayEnroll(src)
  /\ src \in Email => \E t \in Built : OrgOf[t] = OrgOf[s] /\ source[t] = src
  /\ AskSetup(o, [NoSetup EXCEPT !.pc = "org", !.kind = "add", !.who = e, !.site = s, !.src = src])

(* The new organization's slug: an insert waits for an uncommitted one.    *)
TakeSlug(o) ==
  /\ setup[o].pc = "slug"
  /\ LET g == OrgOf[setup[o].site] IN
     /\ ~HeldByOther(o, <<"org", g>>)
     /\ IF g \in Founded THEN GiveUp(o)
        ELSE /\ Became(o, [setup[o] EXCEPT !.pc = "email", !.held = {<<"org", g>>}])
             /\ UNCHANGED <<Accounts, Schools, invited, setups>>

(* The organization is locked before the names in it are read; a school of *)
(* the same name or slug refuses the new one.                              *)
Taken(s) ==
  s \in Built \/ \E t \in Built : OrgOf[t] = OrgOf[s] /\ Normal[name[t]] = Normal[NameOf[s]]
\* Faulty variant: the organization is read without a lock.
ReadOrg(o) ==
  /\ setup[o].pc = "org"
  /\ IF OrgOf[setup[o].site] \notin Founded \/ Taken(setup[o].site) THEN GiveUp(o)
     ELSE /\ Became(o, [setup[o] EXCEPT !.pc = "email"])
          /\ UNCHANGED <<Accounts, Schools, invited, setups>>
LockOrg(o) ==
  /\ setup[o].pc = "org"
  /\ LET g == OrgOf[setup[o].site] IN
     /\ g \in Founded => ~HeldByOther(o, <<"org", g>>)
     /\ IF g \notin Founded \/ Taken(setup[o].site) THEN GiveUp(o)
        ELSE /\ Became(o, [setup[o] EXCEPT !.pc = "email", !.held = {<<"org", g>>}])
             /\ UNCHANGED <<Accounts, Schools, invited, setups>>

(* lock_account_email, to the end of the transaction.                      *)
LockEmail(o) ==
  /\ setup[o].pc = "email"
  /\ ~HeldByOther(o, <<"mail", setup[o].who>>)
  /\ Became(o, [setup[o] EXCEPT !.pc = "resolve", !.held = @ \cup {<<"mail", setup[o].who>>}])
  /\ UNCHANGED <<Accounts, Schools, invited, setups>>

(* resolve_or_create_school_admin: a new account, an account that covers   *)
(* the school already, one that gets a role in it, or a refusal.           *)
Resolve(o) ==
  /\ setup[o].pc = "resolve"
  /\ LET e == setup[o].who
         s == setup[o].site
         g == OrgOf[s]
         admin == <<e, "SCHOOL_ADMIN", IF setup[o].kind = "found" THEN g ELSE s>> IN
     IF e \notin known THEN
       /\ Became(o, [setup[o] EXCEPT !.pc = "insert", !.fresh = TRUE, !.grant = {admin}])
       /\ UNCHANGED <<Accounts, Schools, invited, setups>>
     ELSE IF ~Reusable(e, g) THEN GiveUp(o)
     ELSE
       /\ Became(o, [setup[o] EXCEPT !.pc = "commit",
            !.grant = IF CoversAll(e, g) THEN {} ELSE {<<e, "SCHOOL_ADMIN", s>>}])
       /\ UNCHANGED <<Accounts, Schools, invited, setups>>

(* create_or_attach_user: the account and all its roles are read first.    *)
AskInvite(o, s, e, code) ==
  /\ s \in Built /\ code \in Invitable
  /\ LET row == <<e, code, s>>
         call == [NoSetup EXCEPT !.kind = "invite", !.who = e, !.site = s] IN
     \/ /\ e \notin known
        /\ AskSetup(o, [call EXCEPT !.pc = "insert", !.fresh = TRUE, !.grant = {row}])
     \/ /\ e \in known /\ Eligible(e, s, code)
        /\ AskSetup(o, [call EXCEPT !.pc = "commit",
             !.grant = IF row \in role \/ (code = "SCHOOL_ADMIN" /\ CoversAll(e, OrgOf[s]))
                       THEN {} ELSE {row}])

(* create_partner: a new account only.                                     *)
AskPartner(o, e) ==
  /\ e \notin known
  /\ AskSetup(o, [NoSetup EXCEPT !.pc = "insert", !.kind = "partner", !.who = e, !.fresh = TRUE,
       !.grant = {<<e, "PARTNER_ADMIN", Global>>}])

(* update_user_in_school: the roles read in the school are replaced by one *)
(* (a platform account's own scope covers every account).                  *)
AskChange(o, s, e, code) ==
  LET rows == {r \in RolesOf(e) : r[3] = s} IN
  /\ rows # {} /\ code \in Invitable
  /\ AskSetup(o, [NoSetup EXCEPT !.pc = "commit", !.kind = "change", !.who = e, !.site = s,
       !.drop = rows, !.grant = {<<e, code, s>>}])

(* promote_to_platform_owner: an active account without any school role.   *)
AskPromote(o, e) ==
  /\ e \in active
  /\ \A r \in RolesOf(e) : r[3] = Global /\ r[2] # "PARTNER_ADMIN"
  /\ AskSetup(o, [NoSetup EXCEPT !.pc = "commit", !.kind = "promote", !.who = e,
       !.drop = {r \in RolesOf(e) : r[2] = "SUPER_ADMIN"},
       !.grant = {<<e, "PLATFORM_OWNER", Global>>} \ role])

(* The account is inserted: its email is a unique key, held to the commit. *)
\* Faulty variant: the link is sent before the commit.
InsertMailing(o) ==
  /\ setup[o].pc = "insert"
  /\ setup[o].who \notin known
  /\ ~HeldByOther(o, <<"key", setup[o].who>>)
  /\ Became(o, [setup[o] EXCEPT !.pc = "commit", !.held = @ \cup {<<"key", setup[o].who>>}])
  /\ invited' = IF setup[o].kind \in {"invite", "partner"} THEN invited \cup {setup[o].who} ELSE invited
  /\ UNCHANGED <<Accounts, Schools, setups>>
Insert(o) ==
  /\ setup[o].pc = "insert"
  /\ setup[o].who \notin known
  /\ ~HeldByOther(o, <<"key", setup[o].who>>)
  /\ Became(o, [setup[o] EXCEPT !.pc = "commit", !.held = @ \cup {<<"key", setup[o].who>>}])
  /\ UNCHANGED <<Accounts, Schools, invited, setups>>
InsertConflict(o) ==
  /\ setup[o].pc = "insert"
  /\ setup[o].who \in known
  /\ GiveUp(o)

(* A role row refers to its organization: who inserts one waits while the  *)
(* organization is locked.                                                 *)
Blocked(o) ==
  /\ setup[o].kind \in {"invite", "change"}
  /\ HeldByOther(o, <<"org", OrgOf[setup[o].site]>>)
RoleExists(o) == setup[o].grant \cap (role \ setup[o].drop) # {}
CommitConflict(o) ==
  /\ setup[o].pc = "commit"
  /\ ~Blocked(o) /\ RoleExists(o)
  /\ GiveUp(o)
\* Faulty variant: the source of the school is left to be written later.
NoSourceYet(src) == "none"
SourceRow(src) == src
CommitSetup(o) ==
  /\ setup[o].pc = "commit"
  /\ ~Blocked(o) /\ ~RoleExists(o)
  /\ LET x == setup[o]
         new == IF x.fresh THEN {x.who} ELSE {} IN
     /\ known' = known \cup new
     /\ active' = active \cup new
     /\ flagged' = IF x.kind = "promote" THEN flagged \cup {x.who} ELSE flagged
     /\ role' = (role \ x.drop) \cup x.grant
     /\ IF x.kind \in {"found", "add"}
        THEN /\ name' = [name EXCEPT ![x.site] = NameOf[x.site]]
             /\ source' = [source EXCEPT ![x.site] = SourceRow(x.src)]
        ELSE UNCHANGED <<name, source>>
     /\ Became(o, IF x.fresh /\ x.kind \in {"invite", "partner"}
                  THEN [NoSetup EXCEPT !.pc = "mail", !.who = x.who] ELSE NoSetup)
  /\ UNCHANGED <<renamed, invited, setups>>

(* Sent after the commit, best effort.                                     *)
Invite(o) ==
  /\ setup[o].pc = "mail"
  /\ invited' = invited \cup {setup[o].who}
  /\ Became(o, NoSetup)
  /\ UNCHANGED <<Accounts, Schools, setups>>

(* The process dies, or is chosen as the victim of a deadlock.             *)
FailSetup(o) == setup[o].pc # "idle" /\ GiveUp(o)

(* update_school: the name is not compared with any other.                 *)
Rename(s, n) ==
  /\ s \in Built /\ name[s] # n
  /\ setups < MaxSetups /\ setups' = setups + 1
  /\ name' = [name EXCEPT ![s] = n]
  /\ renamed' = renamed \cup {s}
  /\ UNCHANGED <<Accounts, source, setup, invited>>

SetActive(e) ==
  /\ \E r \in RolesOf(e) : r[3] \in Site
  /\ setups < MaxSetups /\ setups' = setups + 1
  /\ active' = IF e \in active THEN active \ {e} ELSE active \cup {e}
  /\ UNCHANGED <<known, flagged, role, Schools, setup, invited>>

----------------------------------------------------------------------------
OnboardNext ==
  \/ \E o \in Operator, s \in Site, e \in Email, src \in Source \ {"none"} :
       AskFound(o, s, e, src) \/ AskAdd(o, s, e, src)
  \/ \E o \in Operator, s \in Site, e \in Email, code \in Schooling :
       AskInvite(o, s, e, code) \/ AskChange(o, s, e, code)
  \/ \E o \in Operator, e \in Email : AskPartner(o, e) \/ AskPromote(o, e)
  \/ \E o \in Operator :
       \/ TakeSlug(o) \/ LockOrg(o) \/ LockEmail(o) \/ Resolve(o)
       \/ Insert(o) \/ InsertConflict(o) \/ CommitConflict(o) \/ CommitSetup(o)
       \/ Invite(o) \/ FailSetup(o)
  \/ \E s \in Site, t \in Site : Rename(s, NameOf[t])
  \/ \E e \in Email : SetActive(e)

OnboardSpec == OnboardInit /\ [][OnboardNext]_setupVars

----------------------------------------------------------------------------
(* Whatever is created, attached, changed and promoted at the same time,   *)
(* an account has its roles in one place: in no organization, or all of    *)
(* them in the same one; only the first kind is ever a platform account.   *)
AccountsKeepTheirPlace ==
  /\ \A r, q \in role : r[1] = q[1] => OrgAt(r[3]) = OrgAt(q[3])
  /\ \A r \in role : (r[2] \in NonSchool \/ r[1] \in flagged) => r[3] = Global

(* Two schools of one organization never have the same name, case and      *)
(* spaces ignored, unless one of them was renamed.                         *)
OneSchoolPerName ==
  \A s, t \in Built \ renamed :
    s # t /\ OrgOf[s] = OrgOf[t] => Normal[name[s]] # Normal[name[t]]

(* A school appears together with its source, and with the account that   *)
(* was asked for as an administrator whose role covers it, although the    *)
(* roles of that account were read before.                                 *)
NewSchoolHasAdmin ==
  [][\A o \in Operator :
       LET s == setup[o].site IN
       /\ setup[o].pc = "commit" /\ setup[o].kind \in {"found", "add"}
       /\ s \notin Built /\ name'[s] # NoName
       => /\ source'[s] # "none"
          /\ \E g \in {s, OrgOf[s]} : <<setup[o].who, "SCHOOL_ADMIN", g>> \in role']_setupVars

(* Nobody is sent the link of an account that does not exist.              *)
InvitedAccountsExist == invited \subseteq known

(* Founding schools and inviting people ends in a sound organization, with *)
(* the reads of the other requests done long before: names are unique, a   *)
(* new school has an administrator, and no link goes to a missing account. *)
FoundationsHold ==
  []OneSchoolPerName /\ []InvitedAccountsExist /\ NewSchoolHasAdmin
=============================================================================
