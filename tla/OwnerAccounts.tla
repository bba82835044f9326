---------------------------- MODULE OwnerAccounts ----------------------------
(***************************************************************************)
(* The console account of one person, a restaurant's owner or a platform   *)
(* operator: the invite and password-reset links that set an owner's       *)
(* password, the sessions, and when the guards let a session through       *)
(* (admin/auth.service, ops/auth.service, directory.service's              *)
(* regenerateOwnerInvite, admin-auth.guard, ops-auth.guard).               *)
(*                                                                         *)
(* Every handler is one transaction that reads, without a lock, and then   *)
(* writes; statements of others commit in between.  A statement that       *)
(* updates or deletes many rows works on those it saw when it began, and   *)
(* on what is left of them once it has their locks.                        *)
(***************************************************************************)
EXTENDS Naturals, FiniteSets

CONSTANTS
  Invites,    \* owner_invites rows that can come to be
  Resets,     \* owner_password_resets rows that can come to be
  Browsers,   \* sessions that can be signed
  Consoles,   \* slots for requests in flight
  MaxLogouts  \* bound: log-outs

ASSUME AccountsAssumption == Invites \cap Resets = {} /\ MaxLogouts \in Nat

Links == Invites \cup Resets

VARIABLES
  kind,      \* "owner" or "operator"
  account,   \* owner_users or operator_users row: does it exist, sessionVersion
  link,      \* each link: "unissued", "open", "expired", "used" or "deleted"
  session,   \* sessions signed; history: has it been ended
  console,   \* the request in each slot
  logouts,
  over,      \* history: links used, replaced by a newer one or ended by a reset
  abused     \* history: links that set a password when they were over

accountVars == <<kind, account, link, session, console, logouts, over, abused>>

NoSessionYet == [st |-> "none", version |-> 0, ended |-> FALSE]
IdleConsole == [op |-> "idle", of |-> {}, version |-> 0, ended |-> FALSE]

\* provision() issues the first invite with the tenant; an operator is seeded.
AccountsInit ==
  /\ kind \in {"owner", "operator"}
  /\ account = [exists |-> kind = "operator", version |-> 0]
  /\ \E first \in Invites :
       link = [l \in Links |-> IF l = first /\ kind = "owner" THEN "open" ELSE "unissued"]
  /\ session = [s \in Browsers |-> NoSessionYet]
  /\ console = [k \in Consoles |-> IdleConsole]
  /\ logouts = 0 /\ over = {} /\ abused = {}

Issued(S) == {l \in S : link[l] \notin {"unissued", "deleted"}}

Start(k, c) == console[k].op = "idle" /\ console' = [console EXCEPT ![k] = c]

\* History: every session is over, and every sign-in that has read its version.
EndSessions(c) ==
  /\ session' = [s \in Browsers |-> [session[s] EXCEPT !.ended = @ \/ session[s].st = "signed"]]
  /\ console' = [k \in Consoles |-> [c[k] EXCEPT !.ended = @ \/ c[k].op = "sign"]]

-----------------------------------------------------------------------------
\* Links

\* Time passes an unused link's expiresAt.
Expire(l) ==
  /\ link[l] = "open"
  /\ link' = [link EXCEPT ![l] = "expired"]
  /\ UNCHANGED <<kind, account, session, console, logouts, over, abused>>

\* deleteMany() sees the tenant's invites ...
RegenerateRead(k) ==
  /\ Issued(Invites) # {}
  /\ Start(k, [IdleConsole EXCEPT !.op = "regenerate", !.of = Issued(Invites)])
  /\ UNCHANGED <<kind, account, link, session, logouts, over, abused>>

\* ... deletes them, and the new one is created.
regenerateOwnerInvite(k, new) ==
  LET old == console[k].of IN
  /\ console[k].op = "regenerate"
  /\ new \in Invites /\ link[new] = "unissued"
  /\ link' = [l \in Links |-> IF l = new THEN "open" ELSE IF l \in old THEN "deleted" ELSE link[l]]
  /\ over' = over \cup old
  /\ console' = [console EXCEPT ![k] = IdleConsole]
  /\ UNCHANGED <<kind, account, session, logouts, abused>>

\* A request for a new link ends those it finds open for the owner.
ForgotRead(k) ==
  /\ kind = "owner" /\ account.exists
  /\ Start(k, [IdleConsole EXCEPT !.op = "forgot", !.of = {r \in Resets : link[r] \in {"open", "expired"}}])
  /\ UNCHANGED <<kind, account, link, session, logouts, over, abused>>

forgotPassword(k, new) ==
  LET old == console[k].of IN
  /\ console[k].op = "forgot"
  /\ new \in Resets /\ link[new] = "unissued"
  /\ link' = [l \in Links |-> IF l = new THEN "open" ELSE IF l \in old THEN "used" ELSE link[l]]
  /\ over' = over \cup old
  /\ console' = [console EXCEPT ![k] = IdleConsole]
  /\ UNCHANGED <<kind, account, session, logouts, abused>>

\* acceptInvite() and resetPassword() look the link up: unused, not expired.
LinkRead(k, l) ==
  /\ link[l] = "open"
  /\ Start(k, [IdleConsole EXCEPT !.op = "link", !.of = {l}])
  /\ UNCHANGED <<kind, account, link, session, logouts, over, abused>>

\* updateMany where usedAt is null: the atomic use of a link.
Mut_Unused(l) == link[l] # "deleted"
Unused(l) == link[l] \in {"open", "expired"}

\* The owner row is created, or its password replaced; its sessions go on.
acceptInvite(k) ==
  \E l \in console[k].of \cap Invites :
    /\ console[k].op = "link"
    /\ Unused(l)
    /\ link' = [link EXCEPT ![l] = "used"]
    /\ account' = [account EXCEPT !.exists = TRUE]
    /\ over' = over \cup {l}
    /\ abused' = abused \cup ({l} \cap over)
    /\ console' = [console EXCEPT ![k] = [IdleConsole EXCEPT !.op = "sign", !.version = account.version]]
    /\ UNCHANGED <<kind, session, logouts>>

\* The session version after a reset.
Bumped == account.version + 1

resetPassword(k) ==
  \E l \in console[k].of \cap Resets :
    LET open == {r \in Resets : link[r] \in {"open", "expired"}} IN
    /\ console[k].op = "link"
    /\ Unused(l)
    /\ link' = [r \in Links |-> IF r \in open \cup {l} THEN "used" ELSE link[r]]
    /\ account' = [account EXCEPT !.version = Bumped]
    /\ over' = over \cup open \cup {l}
    /\ abused' = abused \cup ({l} \cap over)
    /\ EndSessions([console EXCEPT ![k] = IdleConsole])
    /\ UNCHANGED <<kind, logouts>>

LinkRefused(k) ==
  /\ console[k].op = "link"
  /\ \A l \in console[k].of : ~Unused(l)
  /\ console' = [console EXCEPT ![k] = IdleConsole]
  /\ UNCHANGED <<kind, account, link, session, logouts, over, abused>>

-----------------------------------------------------------------------------
\* Sessions

\* login() with the right password reads the version it will sign.
LoginRead(k) ==
  /\ account.exists
  /\ Start(k, [IdleConsole EXCEPT !.op = "sign", !.version = account.version])
  /\ UNCHANGED <<kind, account, link, session, logouts, over, abused>>

\* signAdminToken(), signOpsToken()
Sign(k, s) ==
  /\ console[k].op = "sign"
  /\ session[s].st = "none"
  /\ session' = [session EXCEPT ![s] = [st |-> "signed", version |-> console[k].version, ended |-> console[k].ended]]
  /\ console' = [console EXCEPT ![k] = IdleConsole]
  /\ UNCHANGED <<kind, account, link, logouts, over, abused>>

\* The guards' check of a session (isTenantBlocked is TenantLifecycle's).
SessionValid(s) == session[s].st = "signed" /\ account.exists /\ session[s].version = account.version

\* Any session may log out, and ends all of them.
LogOut(s) ==
  /\ SessionValid(s)
  /\ logouts < MaxLogouts
  /\ logouts' = logouts + 1
  /\ account' = [account EXCEPT !.version = @ + 1]
  /\ EndSessions(console)
  /\ UNCHANGED <<kind, link, over, abused>>

AccountsNext ==
  \/ \E l \in Links : Expire(l)
  \/ \E k \in Consoles :
       \/ RegenerateRead(k) \/ ForgotRead(k) \/ LoginRead(k)
       \/ acceptInvite(k) \/ resetPassword(k) \/ LinkRefused(k)
       \/ \E l \in Links : LinkRead(k, l) \/ regenerateOwnerInvite(k, l) \/ forgotPassword(k, l)
       \/ \E s \in Browsers : Sign(k, s)
  \/ \E s \in Browsers : LogOut(s)

AccountsSpec == AccountsInit /\ [][AccountsNext]_accountVars

-----------------------------------------------------------------------------
\* A link sets a password at most once, and never once it was replaced by a
\* newer link or another link of the owner was used to reset the password -
\* not even for a request that had found it open before that
\* (acceptInvite, resetPassword: "Atomic use").
LinksSpentOnce == abused = {}

\* A session that a log-out or a password reset ended stays ended, and so does
\* one whose login had read the session version before it and was signed after
\* (login, resetPassword "ends every session", logout, the guards).
OwnerSessionsEnd == \A s \in Browsers : session[s].ended => ~SessionValid(s)

\* Nothing that was ended, a link or a session, opens the console again.
AccountsSound == LinksSpentOnce /\ OwnerSessionsEnd
=============================================================================
