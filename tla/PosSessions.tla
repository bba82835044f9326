----------------------------- MODULE PosSessions -----------------------------
(***************************************************************************)
(* The POS sessions of one staff member: signing in with a PIN at a till   *)
(* or in a browser, the tokens that come of it, what the owner does to     *)
(* the staff row meanwhile, and when PosAuthGuard lets a token through     *)
(* (pos/auth, platform/pos-jwt, platform/pos-auth.guard, admin/staff).     *)
(*                                                                         *)
(* A token is never stored: the guard compares what it says with the staff *)
(* row, the revoked token ids and the device.  A sign-in reads the row,    *)
(* then signs; the owner's edits read the row, then write it.  Outlets are *)
(* never deleted.  Throttling is the module AttemptLimiter's.              *)
(***************************************************************************)
EXTENDS Naturals, FiniteSets

CONSTANTS
  Outlets,
  TillOutlet,   \* devices, and the outlet each is enrolled at
  Roles,
  TokenIds,     \* sessions that can be signed
  LegacyTokens, \* those signed before tokens had a jti
  Hands,        \* slots for sign-ins and staff edits in flight
  NoDevice,
  MaxVersion    \* bound: changes that end sessions

Devices == DOMAIN TillOutlet

ASSUME SessionsAssumption ==
  /\ Outlets # {} /\ Roles # {}
  /\ TillOutlet \in [Devices -> Outlets] /\ NoDevice \notin Devices
  /\ LegacyTokens \subseteq TokenIds /\ MaxVersion \in Nat

VARIABLES
  staff,      \* staff_users row: sessionVersion, PIN, role, outlets
  revoked,    \* devices.status = 'revoked'
  jtis,       \* revoked_pos_tokens
  token,      \* tokens signed; history: has its session been ended
  selecting,  \* an unexpired outlet-selection token is out
  hand,       \* the request in each slot
  raced       \* history: an update was written over another's change

sessionVars == <<staff, revoked, jtis, token, selecting, hand, raced>>

NoToken == [st |-> "none", version |-> 0, outlet |-> NoDevice, device |-> NoDevice, ended |-> FALSE]
IdleHand == [op |-> "idle", row |-> [version |-> 0], outlet |-> NoDevice, device |-> NoDevice, ended |-> FALSE]

\* Of an empty set, every outlet.
Allowed(row) == IF row.outlets = {} THEN Outlets ELSE row.outlets

SessionsInit ==
  /\ \E hasPin \in BOOLEAN :
       /\ staff = [version |-> 0, hasPin |-> hasPin, pinRevoked |-> FALSE,
                   role |-> CHOOSE r \in Roles : TRUE, outlets |-> {}]
       /\ token = [t \in TokenIds |->
                     IF hasPin /\ t \in LegacyTokens
                     THEN [NoToken EXCEPT !.st = "signed", !.outlet = CHOOSE o \in Outlets : TRUE]
                     ELSE NoToken]
  /\ revoked = {} /\ jtis = {}
  /\ selecting = FALSE
  /\ hand = [k \in Hands |-> IdleHand]
  /\ raced = FALSE

\* History: the sessions of the tokens and sign-ins in T are over.
EndTokens(T(_)) == [t \in TokenIds |-> [token[t] EXCEPT !.ended = @ \/ (token[t].st = "signed" /\ T(token[t]))]]
EndHands(T(_)) == [k \in Hands |-> [hand[k] EXCEPT !.ended = @ \/ (hand[k].op = "sign" /\ T(hand[k]))]]
All(x) == TRUE

-----------------------------------------------------------------------------
\* Signing in

LoginDevice(k, d) ==
  /\ hand[k].op = "idle"
  /\ d \notin revoked
  /\ hand' = [hand EXCEPT ![k] = [IdleHand EXCEPT !.op = "pin", !.device = d]]
  /\ UNCHANGED <<staff, revoked, jtis, token, selecting, raced>>

pinStatus(row) == IF ~row.hasPin THEN "none" ELSE IF row.pinRevoked THEN "revoked" ELSE "active"

\* findStaffByPin() with the right PIN, listOutlets(), and what follows from
\* them: refuse, hand out an outlet-selection token, or go on to sign.
LoginPin(k) ==
  LET h == hand[k]
      own == Allowed(staff)
  IN
  /\ h.op = "pin"
  /\ pinStatus(staff) = "active"
  /\ \/ /\ h.device # NoDevice
        /\ hand' = [hand EXCEPT ![k] =
             IF TillOutlet[h.device] \in own
             THEN [h EXCEPT !.op = "sign", !.row = staff, !.outlet = TillOutlet[h.device]] ELSE IdleHand]
        /\ UNCHANGED selecting
     \/ /\ h.device = NoDevice /\ Cardinality(own) > 1
        /\ selecting' = TRUE
        /\ hand' = [hand EXCEPT ![k] = IdleHand]
     \/ /\ h.device = NoDevice /\ Cardinality(own) = 1
        /\ hand' = [hand EXCEPT ![k] = [h EXCEPT !.op = "sign", !.row = staff, !.outlet = CHOOSE o \in own : TRUE]]
        /\ UNCHANGED selecting
  /\ UNCHANGED <<staff, revoked, jtis, token, raced>>

\* A wrong PIN, or the client went away.
GiveUp(k) ==
  /\ hand[k].op \in {"pin", "sign"}
  /\ hand' = [hand EXCEPT ![k] = IdleHand]
  /\ UNCHANGED <<staff, revoked, jtis, token, selecting, raced>>

selectOutlet(k, o) ==
  /\ hand[k].op = "idle"
  /\ selecting
  /\ o \in Allowed(staff)
  /\ hand' = [hand EXCEPT ![k] = [IdleHand EXCEPT !.op = "sign", !.row = staff, !.outlet = o]]
  /\ UNCHANGED <<staff, revoked, jtis, token, selecting, raced>>

SelectionExpires ==
  /\ selecting
  /\ selecting' = FALSE
  /\ UNCHANGED <<staff, revoked, jtis, token, hand, raced>>

\* signPosToken(), with the version the row had when it was read.
finalize(k, t) ==
  LET h == hand[k] IN
  /\ h.op = "sign"
  /\ token[t].st = "none" /\ t \notin LegacyTokens
  /\ token' = [token EXCEPT ![t] = [st |-> "signed", version |-> h.row.version,
                                    outlet |-> h.outlet, device |-> h.device, ended |-> h.ended]]
  /\ hand' = [hand EXCEPT ![k] = IdleHand]
  /\ UNCHANGED <<staff, revoked, jtis, selecting, raced>>

-----------------------------------------------------------------------------
\* PosAuthGuard.canActivate

canActivate(t) ==
  /\ token[t].st = "signed"
  /\ t \notin jtis
  /\ ~staff.pinRevoked
  /\ staff.version = token[t].version
  /\ token[t].device # NoDevice => token[t].device \notin revoked

\* One token by its jti; a token without one ends every session.
logout(t) ==
  /\ canActivate(t)
  /\ IF t \in LegacyTokens
     THEN /\ staff.version < MaxVersion
          /\ staff' = [staff EXCEPT !.version = @ + 1]
          /\ token' = EndTokens(All) /\ hand' = EndHands(All)
          /\ UNCHANGED jtis
     ELSE /\ jtis' = jtis \cup {t}
          /\ token' = [token EXCEPT ![t].ended = TRUE]
          /\ UNCHANGED <<staff, hand>>
  /\ UNCHANGED <<revoked, selecting, raced>>

-----------------------------------------------------------------------------
\* The owner

Mut_issuePin ==
  /\ staff.version < MaxVersion
  /\ staff' = [staff EXCEPT !.hasPin = TRUE, !.pinRevoked = FALSE]
  /\ token' = EndTokens(All) /\ hand' = EndHands(All)
  /\ UNCHANGED <<revoked, jtis, selecting, raced>>

issuePin ==
  /\ staff.version < MaxVersion
  /\ staff' = [staff EXCEPT !.hasPin = TRUE, !.pinRevoked = FALSE, !.version = @ + 1]
  /\ token' = EndTokens(All) /\ hand' = EndHands(All)
  /\ UNCHANGED <<revoked, jtis, selecting, raced>>

RevokePinRead(k) ==
  /\ hand[k].op = "idle"
  /\ pinStatus(staff) = "active"
  /\ hand' = [hand EXCEPT ![k] = [IdleHand EXCEPT !.op = "revoke"]]
  /\ UNCHANGED <<staff, revoked, jtis, token, selecting, raced>>

RevokePinWrite(k) ==
  /\ hand[k].op = "revoke"
  /\ staff.version < MaxVersion
  /\ staff' = [staff EXCEPT !.pinRevoked = TRUE, !.version = @ + 1]
  /\ token' = EndTokens(All)
  /\ hand' = [EndHands(All) EXCEPT ![k] = IdleHand]
  /\ UNCHANGED <<revoked, jtis, selecting, raced>>

UpdateRead(k) ==
  /\ hand[k].op = "idle"
  /\ hand' = [hand EXCEPT ![k] = [IdleHand EXCEPT !.op = "update", !.row = staff]]
  /\ UNCHANGED <<staff, revoked, jtis, token, selecting, raced>>

\* Does the update end the sessions: judged by the row as it was read.
Ending(row, role, outlets) == role # row.role \/ outlets # row.outlets

UpdateWrite(k, role, outlets) ==
  LET ending == Ending(hand[k].row, role, outlets) IN
  /\ hand[k].op = "update"
  /\ ending => staff.version < MaxVersion
  /\ staff' = [staff EXCEPT !.role = role, !.outlets = outlets, !.version = IF ending THEN @ + 1 ELSE @]
  /\ raced' = (raced \/ <<staff.role, staff.outlets>> # <<hand[k].row.role, hand[k].row.outlets>>)
  /\ token' = IF ending THEN EndTokens(All) ELSE token
  /\ hand' = [(IF ending THEN EndHands(All) ELSE hand) EXCEPT ![k] = IdleHand]
  /\ UNCHANGED <<revoked, jtis, selecting>>

\* By the owner or an operator; a revoked device never comes back.
RevokeDevice(d) ==
  LET On(x) == x.device = d IN
  /\ d \notin revoked
  /\ revoked' = revoked \cup {d}
  /\ token' = EndTokens(On) /\ hand' = EndHands(On)
  /\ UNCHANGED <<staff, jtis, selecting, raced>>

SessionsNext ==
  \/ \E k \in Hands, d \in Devices \cup {NoDevice} : LoginDevice(k, d)
  \/ \E k \in Hands : LoginPin(k) \/ GiveUp(k) \/ RevokePinRead(k) \/ RevokePinWrite(k) \/ UpdateRead(k)
  \/ \E k \in Hands, o \in Outlets : selectOutlet(k, o)
  \/ SelectionExpires \/ issuePin
  \/ \E k \in Hands, t \in TokenIds : finalize(k, t)
  \/ \E t \in TokenIds : logout(t)
  \/ \E k \in Hands, role \in Roles, outlets \in SUBSET Outlets : UpdateWrite(k, role, outlets)
  \/ \E d \in Devices : RevokeDevice(d)

SessionsSpec == SessionsInit /\ [][SessionsNext]_sessionVars

-----------------------------------------------------------------------------
\* A session that was ended - by a new PIN, a revoked PIN, a change of role or
\* outlets, a log-out or the removal of its till - is never let in again, nor
\* is one whose sign-in had read the staff row before that and signed its
\* token after (PosAuthGuard, signPosToken, #169, #197, #209).
EndedStaysEnded == \A t \in TokenIds : token[t].ended => ~canActivate(t)

\* A session that is let in is at an outlet the staff member still works at,
\* as long as no two owners' edits of the staff row crossed (update, #197).
SessionsAtOwnOutlets ==
  ~raced => \A t \in TokenIds : canActivate(t) => token[t].outlet \in Allowed(staff)

\* What the till's guard lets in: no session that was ended, and none at an
\* outlet its holder no longer works at.
SignInsSound == EndedStaysEnded /\ SessionsAtOwnOutlets
=============================================================================
