---------------------------- MODULE SignInProofs ----------------------------
(***************************************************************************)
(* Proofs about who is let in, for any number of tokens, tills, outlets,   *)
(* links, browsers and requests in flight: the tills' sessions             *)
(* (PosSessions), the console's accounts (OwnerAccounts) and the throttle  *)
(* in front of every secret (AttemptLimiter).                              *)
(*                                                                         *)
(* The argument is the same for sessions and accounts.  A token carries    *)
(* the version its account row had when a sign-in read it, so no token and *)
(* no sign-in under way is ahead of the row, and whatever ends sessions    *)
(* puts the row ahead of all of them.                                      *)
(***************************************************************************)
EXTENDS PosSessions, OwnerAccounts, AttemptLimiter, FiniteSetTheorems, TLAPS

-----------------------------------------------------------------------------
(* The tills. *)

StaffRow == [version : Nat, hasPin : BOOLEAN, pinRevoked : BOOLEAN, role : Roles, outlets : SUBSET Outlets]
TokenRow == [st : {"none", "signed"}, version : Nat, outlet : Outlets \cup {NoDevice},
             device : Devices \cup {NoDevice}, ended : BOOLEAN]
HandRow == [op : {"idle", "pin", "sign", "revoke", "update"}, row : StaffRow \cup {[version |-> 0]},
            outlet : Outlets \cup {NoDevice}, device : Devices \cup {NoDevice}, ended : BOOLEAN]

\* The rows, tokens and request slots keep their types.
SessionsTypeOK ==
  /\ staff \in StaffRow
  /\ token \in [TokenIds -> TokenRow]
  /\ hand \in [Hands -> HandRow]
  /\ \A k \in Hands : hand[k].op \in {"sign", "update"} => hand[k].row \in StaffRow

\* Neither a token nor a sign-in is ahead of the staff row, and one that was
\* ended is behind it, at a revoked till, or revoked by its id.
VersionsInv ==
  /\ \A t \in TokenIds : token[t].st = "signed" => token[t].version <= staff.version
  /\ \A t \in TokenIds : token[t].ended =>
       /\ token[t].st = "signed"
       /\ \/ t \in jtis
          \/ token[t].version < staff.version
          \/ token[t].device # NoDevice /\ token[t].device \in revoked
  /\ \A k \in Hands : hand[k].op = "sign" => hand[k].row.version <= staff.version
  /\ \A k \in Hands : hand[k].ended =>
       /\ hand[k].op = "sign"
       /\ \/ hand[k].row.version < staff.version
          \/ hand[k].device # NoDevice /\ hand[k].device \in revoked

\* While no two edits crossed, a token or a sign-in of the row's own version is
\* at one of the row's outlets.
OutletsInv ==
  ~raced =>
    /\ \A t \in TokenIds : token[t].st = "signed" /\ token[t].version = staff.version =>
         token[t].outlet \in Allowed(staff)
    /\ \A k \in Hands : hand[k].op = "sign" /\ hand[k].row.version = staff.version =>
         hand[k].outlet \in Allowed(staff)

\* The inductive invariant of the tills' sessions.
SessionsInv == SessionsTypeOK /\ VersionsInv /\ OutletsInv

\* An empty slot has its type and holds no sign-in.
LEMMA IdleHandType == IdleHand \in HandRow /\ IdleHand.op = "idle" /\ IdleHand.ended = FALSE
  BY DEF IdleHand, HandRow

\* The first row, the tokens of before and the empty slots satisfy it.
LEMMA SessionsInitial == SessionsInit => SessionsInv
<1> SUFFICES ASSUME SessionsInit PROVE SessionsInv
  OBVIOUS
<1> DEFINE role == CHOOSE r \in Roles : TRUE
           o1 == CHOOSE o \in Outlets : TRUE
<1>1. role \in Roles /\ o1 \in Outlets
  BY SessionsAssumption
<1>2. PICK hasPin \in BOOLEAN :
        /\ staff = [version |-> 0, hasPin |-> hasPin, pinRevoked |-> FALSE, role |-> role, outlets |-> {}]
        /\ token = [t \in TokenIds |-> IF hasPin /\ t \in LegacyTokens
                      THEN [NoToken EXCEPT !.st = "signed", !.outlet = o1] ELSE NoToken]
  BY DEF SessionsInit
<1>3. \A t \in TokenIds : /\ token[t] \in TokenRow
                          /\ token[t].version = 0 /\ token[t].ended = FALSE
                          /\ token[t].st = "signed" => token[t].outlet = o1
  BY <1>1, <1>2 DEF NoToken, TokenRow
<1>4. staff \in StaffRow /\ staff.version = 0 /\ Allowed(staff) = Outlets
  BY <1>1, <1>2 DEF StaffRow, Allowed
<1>5. hand = [k \in Hands |-> IdleHand]
  BY DEF SessionsInit
<1>6. token \in [TokenIds -> TokenRow]
  BY <1>2, <1>3
<1> HIDE DEF role, o1
<1> QED
  BY <1>1, <1>3, <1>4, <1>5, <1>6, IdleHandType DEF SessionsInv, SessionsTypeOK, VersionsInv, OutletsInv

\* A step that fills one slot, with a sign-in only of the row as it is.
LEMMA SlotStep ==
  ASSUME SessionsInv, NEW k \in Hands, NEW h \in HandRow,
         hand' = [hand EXCEPT ![k] = h],
         UNCHANGED <<staff, revoked, jtis, token, raced>>,
         h.op \in {"sign", "update"} => h.row = staff,
         h.op = "sign" => h.outlet \in Allowed(staff),
         h.ended = FALSE
  PROVE  SessionsInv'
<1>1. /\ \A j \in Hands \ {k} : hand'[j] = hand[j]
      /\ hand'[k] = h
      /\ hand' \in [Hands -> HandRow]
  BY DEF SessionsInv, SessionsTypeOK
<1>2. staff.version \in Nat /\ Allowed(staff)' = Allowed(staff)
  BY DEF SessionsInv, SessionsTypeOK, StaffRow, Allowed
<1>3. SessionsTypeOK'
  BY <1>1 DEF SessionsInv, SessionsTypeOK
<1>4. VersionsInv'
  BY <1>1, <1>2 DEF SessionsInv, VersionsInv
<1>5. OutletsInv'
  BY <1>1, <1>2 DEF SessionsInv, OutletsInv
<1> QED
  BY <1>3, <1>4, <1>5 DEF SessionsInv

\* loginDevice() and loginBrowser() take a slot that has read nothing yet.
LEMMA LoginDeviceStep ==
  ASSUME SessionsInv, NEW k \in Hands, NEW d \in Devices \cup {NoDevice}, LoginDevice(k, d)
  PROVE  SessionsInv'
<1> DEFINE h == [IdleHand EXCEPT !.op = "pin", !.device = d]
<1>1. h \in HandRow /\ h.op = "pin" /\ h.ended = FALSE
  BY IdleHandType DEF IdleHand, HandRow
<1> QED
  BY <1>1, SlotStep DEF LoginDevice

\* A right PIN goes on to sign at an outlet of the row, or frees the slot.
LEMMA LoginPinStep ==
  ASSUME SessionsInv, NEW k \in Hands, LoginPin(k)
  PROVE  SessionsInv'
<1> DEFINE own == Allowed(staff)
<1>1. hand[k] \in HandRow /\ staff \in StaffRow
  BY DEF SessionsInv, SessionsTypeOK
<1>2. own \subseteq Outlets
  BY <1>1 DEF Allowed, StaffRow
<1>3. ASSUME NEW o \in own
      PROVE  /\ [hand[k] EXCEPT !.op = "sign", !.row = staff, !.outlet = o] \in HandRow
             /\ [hand[k] EXCEPT !.op = "sign", !.row = staff, !.outlet = o].op = "sign"
             /\ [hand[k] EXCEPT !.op = "sign", !.row = staff, !.outlet = o].row = staff
             /\ [hand[k] EXCEPT !.op = "sign", !.row = staff, !.outlet = o].outlet = o
             /\ [hand[k] EXCEPT !.op = "sign", !.row = staff, !.outlet = o].ended = hand[k].ended
  <2> HIDE DEF own
  <2> QED
    BY <1>1, <1>2, <1>3 DEF HandRow
<1>4. hand[k].op = "pin" /\ hand[k].ended = FALSE
  <2>1. hand[k].ended \in BOOLEAN
    BY <1>1 DEF HandRow
  <2> QED
    BY <2>1 DEF SessionsInv, VersionsInv, LoginPin
<1>5. ASSUME NEW o \in own, hand' = [hand EXCEPT ![k] = [hand[k] EXCEPT !.op = "sign", !.row = staff, !.outlet = o]]
      PROVE  SessionsInv'
  <2> HIDE DEF own
  <2> DEFINE h == [hand[k] EXCEPT !.op = "sign", !.row = staff, !.outlet = o]
  <2>1. h \in HandRow /\ h.op = "sign" /\ h.row = staff /\ h.outlet = o /\ h.ended = FALSE
    BY <1>3, <1>4, <1>5
  <2>2. hand' = [hand EXCEPT ![k] = h]
    BY <1>5
  <2> HIDE DEF h
  <2>3. o \in Allowed(staff)
    BY <1>5 DEF own
  <2>4. UNCHANGED <<staff, revoked, jtis, token, raced>>
    BY DEF LoginPin
  <2> QED
    BY <2>1, <2>2, <2>3, <2>4, SlotStep
<1>6. ASSUME hand' = [hand EXCEPT ![k] = IdleHand] PROVE SessionsInv'
  BY <1>6, IdleHandType, SlotStep DEF LoginPin
<1>7. CASE hand[k].device # NoDevice
  <2>1. hand' = [hand EXCEPT ![k] = IF TillOutlet[hand[k].device] \in own
                  THEN [hand[k] EXCEPT !.op = "sign", !.row = staff, !.outlet = TillOutlet[hand[k].device]]
                  ELSE IdleHand]
    BY <1>7 DEF LoginPin
  <2>2. CASE TillOutlet[hand[k].device] \in own
    BY <2>1, <2>2, <1>5
  <2>3. CASE TillOutlet[hand[k].device] \notin own
    BY <2>1, <2>3, <1>6
  <2> QED
    BY <2>2, <2>3
<1>8. CASE hand[k].device = NoDevice /\ Cardinality(own) > 1
  BY <1>8, <1>6 DEF LoginPin
<1>9. CASE hand[k].device = NoDevice /\ Cardinality(own) = 1
  <2>1. own # {}
    BY <1>9, FS_EmptySet
  <2>2. (CHOOSE o \in own : TRUE) \in own
    BY <2>1
  <2>3. hand' = [hand EXCEPT ![k] = [hand[k] EXCEPT !.op = "sign", !.row = staff, !.outlet = CHOOSE o \in own : TRUE]]
    BY <1>9 DEF LoginPin
  <2> QED
    BY <2>2, <2>3, <1>5
<1> QED
  BY <1>7, <1>8, <1>9 DEF LoginPin

\* A wrong PIN frees the slot, and so does a revocation or an edit once read.
LEMMA FreeStep ==
  ASSUME SessionsInv, NEW k \in Hands, hand' = [hand EXCEPT ![k] = IdleHand],
         UNCHANGED <<staff, revoked, jtis, token, raced>>
  PROVE  SessionsInv'
  BY IdleHandType, SlotStep

\* selectOutlet() signs at an outlet of the row.
LEMMA SelectOutletStep ==
  ASSUME SessionsInv, NEW k \in Hands, NEW o \in Outlets, selectOutlet(k, o)
  PROVE  SessionsInv'
<1> DEFINE h == [IdleHand EXCEPT !.op = "sign", !.row = staff, !.outlet = o]
<1>1. staff \in StaffRow
  BY DEF SessionsInv, SessionsTypeOK
<1>2. h \in HandRow /\ h.op = "sign" /\ h.row = staff /\ h.outlet = o /\ h.ended = FALSE
  BY <1>1 DEF IdleHand, HandRow
<1>3. hand' = [hand EXCEPT ![k] = h] /\ o \in Allowed(staff)
  BY DEF selectOutlet
<1> HIDE DEF h
<1> QED
  BY <1>2, <1>3, SlotStep DEF selectOutlet

\* The owner's edits take a slot that is no sign-in.
LEMMA EditReadStep ==
  ASSUME SessionsInv, NEW k \in Hands, RevokePinRead(k) \/ UpdateRead(k)
  PROVE  SessionsInv'
<1> DEFINE g == [IdleHand EXCEPT !.op = "revoke"]
           h == [IdleHand EXCEPT !.op = "update", !.row = staff]
<1>1. staff \in StaffRow
  BY DEF SessionsInv, SessionsTypeOK
<1>2. g \in HandRow /\ g.op = "revoke" /\ g.ended = FALSE
  BY DEF IdleHand, HandRow
<1>3. h \in HandRow /\ h.op = "update" /\ h.row = staff /\ h.ended = FALSE
  BY <1>1 DEF IdleHand, HandRow
<1>4. RevokePinRead(k) => hand' = [hand EXCEPT ![k] = g]
  BY DEF RevokePinRead
<1>5. UpdateRead(k) => hand' = [hand EXCEPT ![k] = h]
  BY DEF UpdateRead
<1>6. UNCHANGED <<staff, revoked, jtis, token, raced>>
  BY DEF RevokePinRead, UpdateRead
<1> HIDE DEF g, h
<1> QED
  BY <1>2, <1>3, <1>4, <1>5, <1>6, SlotStep

\* signPosToken() passes on what the sign-in holds, its end included.
LEMMA FinalizeStep ==
  ASSUME SessionsInv, NEW k \in Hands, NEW t \in TokenIds, finalize(k, t)
  PROVE  SessionsInv'
<1> DEFINE h == hand[k]
           x == [st |-> "signed", version |-> h.row.version, outlet |-> h.outlet,
                 device |-> h.device, ended |-> h.ended]
<1>1. h \in HandRow /\ h.op = "sign" /\ h.row \in StaffRow
  BY DEF SessionsInv, SessionsTypeOK, finalize
<1>2. x \in TokenRow
  BY <1>1 DEF HandRow, StaffRow, TokenRow
<1>3. x.st = "signed" /\ x.version = h.row.version /\ x.outlet = h.outlet /\ x.device = h.device /\ x.ended = h.ended
  OBVIOUS
<1>4. token' = [token EXCEPT ![t] = x] /\ hand' = [hand EXCEPT ![k] = IdleHand]
  BY DEF finalize
<1>5. UNCHANGED <<staff, revoked, jtis, raced>> /\ Allowed(staff)' = Allowed(staff)
  BY DEF finalize, Allowed
<1> HIDE DEF x
<1>6. /\ token' \in [TokenIds -> TokenRow] /\ token'[t] = x
      /\ \A u \in TokenIds \ {t} : token'[u] = token[u]
      /\ hand' \in [Hands -> HandRow] /\ hand'[k] = IdleHand
      /\ \A j \in Hands \ {k} : hand'[j] = hand[j]
  BY <1>2, <1>4, IdleHandType DEF SessionsInv, SessionsTypeOK
<1>7. SessionsTypeOK'
  BY <1>5, <1>6, IdleHandType DEF SessionsInv, SessionsTypeOK
<1>8. VersionsInv'
  BY <1>1, <1>3, <1>5, <1>6, IdleHandType DEF SessionsInv, VersionsInv
<1>9. OutletsInv'
  BY <1>1, <1>3, <1>5, <1>6, IdleHandType DEF SessionsInv, OutletsInv
<1> QED
  BY <1>7, <1>8, <1>9 DEF SessionsInv

\* Whatever moves the row's version on and marks all that came before as ended
\* leaves every one of them behind the row; slots may be freed with it.
LEMMA EndAllStep ==
  ASSUME SessionsInv,
         staff' \in StaffRow, staff'.version = staff.version + 1,
         token' = EndTokens(All),
         hand' \in [Hands -> HandRow],
         \A k \in Hands : hand'[k] \in {IdleHand, EndHands(All)[k]},
         UNCHANGED <<revoked, jtis>>
  PROVE  SessionsInv'
<1>1. \A t \in TokenIds :
        /\ token'[t] \in TokenRow
        /\ token'[t].st = token[t].st /\ token'[t].version = token[t].version
        /\ token'[t].ended => token[t].ended \/ token[t].st = "signed"
  BY ZenonT(60) DEF SessionsInv, SessionsTypeOK, EndTokens, TokenRow
<1>2. token' \in [TokenIds -> TokenRow]
  BY <1>1 DEF EndTokens
<1>3. \A k \in Hands : hand'[k].op # "idle" => hand'[k].op = hand[k].op /\ hand'[k].row = hand[k].row
  BY IdleHandType DEF SessionsInv, SessionsTypeOK, EndHands, HandRow
<1>4. \A k \in Hands : hand'[k].ended => hand'[k].op = "sign"
  <2> TAKE k \in Hands
  <2>1. CASE hand'[k] = IdleHand
    BY <2>1, IdleHandType
  <2>2. CASE hand'[k] = EndHands(All)[k]
    <3>1. hand'[k] = [hand[k] EXCEPT !.ended = hand[k].ended \/ (hand[k].op = "sign" /\ All(hand[k]))]
      BY <2>2 DEF EndHands
    <3>2. hand'[k].op = hand[k].op /\ (hand'[k].ended => hand[k].ended \/ hand[k].op = "sign")
      BY <3>1 DEF SessionsInv, SessionsTypeOK, HandRow
    <3> QED
      BY <3>2 DEF SessionsInv, VersionsInv
  <2> QED
    BY <2>1, <2>2
<1>5. \A k \in Hands : hand'[k].op \in {"sign", "update"} => hand'[k].row \in StaffRow
  BY <1>3 DEF SessionsInv, SessionsTypeOK
<1>6. staff.version \in Nat
      /\ (\A t \in TokenIds : token[t].version \in Nat)
      /\ (\A k \in Hands : hand[k].op = "sign" => hand[k].row.version \in Nat)
  BY DEF SessionsInv, SessionsTypeOK, StaffRow, TokenRow
<1>7. SessionsTypeOK'
  BY <1>2, <1>5 DEF SessionsTypeOK
<1>8. (\A t \in TokenIds : token'[t].st = "signed" => token'[t].version < staff'.version)
  BY <1>1, <1>6 DEF SessionsInv, VersionsInv
<1>9. (\A k \in Hands : hand'[k].op = "sign" => hand'[k].row.version < staff'.version)
  BY <1>3, <1>6 DEF SessionsInv, VersionsInv
<1>10. VersionsInv'
  BY <1>1, <1>4, <1>6, <1>8, <1>9, <1>3 DEF SessionsInv, VersionsInv
<1>11. OutletsInv'
  BY SMTT(40), <1>8, <1>9, <1>6, <1>1, <1>3 DEF OutletsInv
<1> QED
  BY <1>7, <1>10, <1>11 DEF SessionsInv

\* A row whose version moves on is a row, whatever else changes in it.
LEMMA StaffBumped ==
  ASSUME NEW was \in StaffRow
  PROVE  /\ was.version + 1 \in Nat
         /\ \A n \in Nat :
              LET a == [was EXCEPT !.version = n]
                  b == [was EXCEPT !.hasPin = TRUE, !.pinRevoked = FALSE, !.version = n]
                  c == [was EXCEPT !.pinRevoked = TRUE, !.version = n]
              IN  a \in StaffRow /\ b \in StaffRow /\ c \in StaffRow /\ a.version = n /\ b.version = n /\ c.version = n
<1>1. was.version + 1 \in Nat
  BY DEF StaffRow
<1>2. ASSUME NEW n \in Nat PROVE [was EXCEPT !.version = n] \in StaffRow /\ [was EXCEPT !.version = n].version = n
  BY DEF StaffRow
<1>3. ASSUME NEW n \in Nat
      PROVE  LET b == [was EXCEPT !.hasPin = TRUE, !.pinRevoked = FALSE, !.version = n]
             IN  b \in StaffRow /\ b.version = n
  BY DEF StaffRow
<1>4. ASSUME NEW n \in Nat
      PROVE  LET c == [was EXCEPT !.pinRevoked = TRUE, !.version = n]
             IN  c \in StaffRow /\ c.version = n
  BY DEF StaffRow
<1> QED
  BY <1>1, <1>2, <1>3, <1>4

\* Marking the slots keeps their types.
LEMMA EndHandsType ==
  ASSUME SessionsInv
  PROVE  EndHands(All) \in [Hands -> HandRow]
<1>1. \A k \in Hands : [hand[k] EXCEPT !.ended = hand[k].ended \/ (hand[k].op = "sign" /\ All(hand[k]))] \in HandRow
  BY DEF SessionsInv, SessionsTypeOK, HandRow, All
<1> QED
  BY <1>1 DEF EndHands

\* logout() ends one token by its id, or all sessions with a token without one.
LEMMA LogoutStep ==
  ASSUME SessionsInv, NEW t \in TokenIds, logout(t)
  PROVE  SessionsInv'
<1>1. CASE t \in LegacyTokens
  <2>1. staff' = [staff EXCEPT !.version = @ + 1] /\ token' = EndTokens(All) /\ hand' = EndHands(All)
        /\ UNCHANGED <<revoked, jtis>>
    BY <1>1 DEF logout
  <2>2. staff' \in StaffRow /\ staff'.version = staff.version + 1
    BY <2>1, StaffBumped DEF SessionsInv, SessionsTypeOK
  <2>3. hand' \in [Hands -> HandRow] /\ \A k \in Hands : hand'[k] \in {IdleHand, EndHands(All)[k]}
    BY <2>1, EndHandsType
  <2> QED
    BY <2>1, <2>2, <2>3, EndAllStep
<1>2. CASE t \notin LegacyTokens
  <2>1. jtis' = jtis \cup {t} /\ token' = [token EXCEPT ![t].ended = TRUE]
        /\ UNCHANGED <<staff, hand, revoked, raced>> /\ token[t].st = "signed"
    BY <1>2 DEF logout, canActivate
  <2>2. /\ \A u \in TokenIds : /\ token'[u] \in TokenRow
                               /\ token'[u].st = token[u].st /\ token'[u].version = token[u].version
                               /\ token'[u].device = token[u].device /\ token'[u].outlet = token[u].outlet
                               /\ u # t => token'[u] = token[u]
        /\ token' \in [TokenIds -> TokenRow]
    BY ZenonT(60), <2>1 DEF SessionsInv, SessionsTypeOK, TokenRow
  <2>3. Allowed(staff)' = Allowed(staff)
    BY <2>1 DEF Allowed
  <2>4. SessionsTypeOK'
    BY <2>1, <2>2 DEF SessionsInv, SessionsTypeOK
  <2>5. VersionsInv'
    BY <2>1, <2>2 DEF SessionsInv, VersionsInv
  <2>6. OutletsInv'
    BY <2>1, <2>2, <2>3 DEF SessionsInv, OutletsInv
  <2> QED
    BY <2>4, <2>5, <2>6 DEF SessionsInv
<1> QED
  BY <1>1, <1>2

\* A new PIN ends every session.
LEMMA IssuePinStep ==
  ASSUME SessionsInv, issuePin
  PROVE  SessionsInv'
<1>1. staff' = [staff EXCEPT !.hasPin = TRUE, !.pinRevoked = FALSE, !.version = @ + 1]
      /\ token' = EndTokens(All) /\ hand' = EndHands(All) /\ UNCHANGED <<revoked, jtis>>
  BY SMTT(40) DEF issuePin
<1>2. staff' \in StaffRow /\ staff'.version = staff.version + 1
  BY <1>1, StaffBumped DEF SessionsInv, SessionsTypeOK
<1>3. hand' \in [Hands -> HandRow] /\ \A k \in Hands : hand'[k] \in {IdleHand, EndHands(All)[k]}
  BY <1>1, EndHandsType
<1> QED
  BY <1>1, <1>2, <1>3, EndAllStep

\* A revoked PIN ends every session and frees the slot.
LEMMA RevokePinStep ==
  ASSUME SessionsInv, NEW k \in Hands, RevokePinWrite(k)
  PROVE  SessionsInv'
<1>1. staff' = [staff EXCEPT !.pinRevoked = TRUE, !.version = @ + 1]
      /\ token' = EndTokens(All) /\ hand' = [EndHands(All) EXCEPT ![k] = IdleHand] /\ UNCHANGED <<revoked, jtis>>
  BY SMTT(40) DEF RevokePinWrite
<1>2. staff' \in StaffRow /\ staff'.version = staff.version + 1
  BY <1>1, StaffBumped DEF SessionsInv, SessionsTypeOK
<1>3. hand' \in [Hands -> HandRow] /\ \A j \in Hands : hand'[j] \in {IdleHand, EndHands(All)[j]}
  BY <1>1, EndHandsType, IdleHandType
<1> QED
  BY <1>1, <1>2, <1>3, EndAllStep

\* An edit ends every session if it changed what it had read; otherwise, unless
\* another edit crossed it, the outlets stay what they were.
LEMMA UpdateWriteStep ==
  ASSUME SessionsInv, NEW k \in Hands, NEW role \in Roles, NEW outlets \in SUBSET Outlets,
         UpdateWrite(k, role, outlets)
  PROVE  SessionsInv'
<1>1. CASE Ending(hand[k].row, role, outlets)
  <2>1. staff' = [staff EXCEPT !.role = role, !.outlets = outlets, !.version = @ + 1]
        /\ token' = EndTokens(All) /\ hand' = [EndHands(All) EXCEPT ![k] = IdleHand] /\ UNCHANGED <<revoked, jtis>>
    BY <1>1 DEF UpdateWrite
  <2>2. staff' \in StaffRow /\ staff'.version = staff.version + 1
    <3> DEFINE after(n) == [staff EXCEPT !.role = role, !.outlets = outlets, !.version = n]
    <3>1. staff \in StaffRow /\ staff.version + 1 \in Nat
      BY DEF SessionsInv, SessionsTypeOK, StaffRow
    <3>2. ASSUME NEW n \in Nat PROVE after(n) \in StaffRow /\ after(n).version = n
      BY <3>1, <3>2 DEF StaffRow
    <3>3. staff' = after(staff.version + 1)
      BY <2>1
    <3> HIDE DEF after
    <3> QED
      BY <3>1, <3>2, <3>3
  <2>3. hand' \in [Hands -> HandRow] /\ \A j \in Hands : hand'[j] \in {IdleHand, EndHands(All)[j]}
    BY <2>1, EndHandsType, IdleHandType
  <2> QED
    BY <2>1, <2>2, <2>3, EndAllStep
<1>2. CASE ~Ending(hand[k].row, role, outlets)
  <2>1. staff' = [staff EXCEPT !.role = role, !.outlets = outlets, !.version = @]
        /\ raced' = (raced \/ <<staff.role, staff.outlets>> # <<hand[k].row.role, hand[k].row.outlets>>)
        /\ hand' = [hand EXCEPT ![k] = IdleHand] /\ UNCHANGED <<token, revoked, jtis>>
    BY <1>2 DEF UpdateWrite
  <2>2. staff' \in StaffRow /\ staff'.version = staff.version /\ staff'.outlets = outlets
    BY <2>1 DEF SessionsInv, SessionsTypeOK, StaffRow
  <2>3. ~raced' => ~raced /\ staff.outlets = outlets
    BY <2>1, <1>2 DEF Ending
  <2>4. ~raced' => Allowed(staff') = Allowed(staff)
    BY <2>2, <2>3 DEF Allowed
  <2>5. hand' \in [Hands -> HandRow] /\ hand'[k] = IdleHand /\ \A j \in Hands \ {k} : hand'[j] = hand[j]
    BY <2>1, IdleHandType DEF SessionsInv, SessionsTypeOK
  <2>6. SessionsTypeOK'
    BY <2>1, <2>2, <2>5, IdleHandType DEF SessionsInv, SessionsTypeOK
  <2>7. VersionsInv'
    BY <2>1, <2>2, <2>5, IdleHandType DEF SessionsInv, VersionsInv
  <2>8. OutletsInv'
    BY <2>1, <2>2, <2>3, <2>4, <2>5, IdleHandType DEF SessionsInv, OutletsInv
  <2> QED
    BY <2>6, <2>7, <2>8 DEF SessionsInv
<1> QED
  BY <1>1, <1>2

\* A revoked till takes its tokens and its sign-ins with it.
LEMMA RevokeDeviceStep ==
  ASSUME SessionsInv, NEW d \in Devices, RevokeDevice(d)
  PROVE  SessionsInv'
<1>1. revoked' = revoked \cup {d} /\ UNCHANGED <<staff, jtis, selecting, raced>> /\ d # NoDevice
  BY SessionsAssumption DEF RevokeDevice
<1>2. token' = [t \in TokenIds |-> [token[t] EXCEPT !.ended = @ \/ (token[t].st = "signed" /\ token[t].device = d)]]
  BY DEF RevokeDevice, EndTokens
<1>3. hand' = [k \in Hands |-> [hand[k] EXCEPT !.ended = @ \/ (hand[k].op = "sign" /\ hand[k].device = d)]]
  BY DEF RevokeDevice, EndHands
<1>4. \A t \in TokenIds :
        /\ token'[t] \in TokenRow
        /\ token'[t].st = token[t].st /\ token'[t].version = token[t].version
        /\ token'[t].outlet = token[t].outlet /\ token'[t].device = token[t].device
        /\ token'[t].ended => token[t].ended \/ (token[t].st = "signed" /\ token[t].device = d)
  BY ZenonT(60), <1>2 DEF SessionsInv, SessionsTypeOK, TokenRow
<1>5. \A k \in Hands :
        /\ hand'[k] \in HandRow
        /\ hand'[k].op = hand[k].op /\ hand'[k].row = hand[k].row
        /\ hand'[k].outlet = hand[k].outlet /\ hand'[k].device = hand[k].device
        /\ hand'[k].ended => hand[k].ended \/ (hand[k].op = "sign" /\ hand[k].device = d)
  BY ZenonT(60), <1>3 DEF SessionsInv, SessionsTypeOK, HandRow
<1>6. token' \in [TokenIds -> TokenRow] /\ hand' \in [Hands -> HandRow]
  BY <1>2, <1>3, <1>4, <1>5
<1>7. Allowed(staff)' = Allowed(staff)
  BY <1>1 DEF Allowed
<1>8. SessionsTypeOK'
  BY <1>1, <1>5, <1>6 DEF SessionsInv, SessionsTypeOK
<1>9. VersionsInv'
  BY <1>1, <1>4, <1>5 DEF SessionsInv, VersionsInv
<1>10. OutletsInv'
  BY <1>1, <1>4, <1>5, <1>7 DEF SessionsInv, OutletsInv
<1> QED
  BY <1>8, <1>9, <1>10 DEF SessionsInv

\* Every step of the tills, the owner and the clock keeps the invariant.
LEMMA SessionsInductive == SessionsInv /\ [SessionsNext]_sessionVars => SessionsInv'
<1> SUFFICES ASSUME SessionsInv, [SessionsNext]_sessionVars PROVE SessionsInv'
  OBVIOUS
<1>1. ASSUME NEW k \in Hands, GiveUp(k) PROVE SessionsInv'
  BY <1>1, FreeStep DEF GiveUp
<1>2. CASE SelectionExpires \/ UNCHANGED sessionVars
  BY <1>2 DEF SelectionExpires, sessionVars, SessionsInv, SessionsTypeOK, VersionsInv, OutletsInv, Allowed
<1> QED
  BY <1>1, <1>2, LoginDeviceStep, LoginPinStep, SelectOutletStep, EditReadStep, FinalizeStep,
     LogoutStep, IssuePinStep, RevokePinStep, UpdateWriteStep, RevokeDeviceStep DEF SessionsNext

\* PosAuthGuard never lets in a session that was ended, whatever sign-ins had
\* read the staff row before the end, and lets in no session at an outlet its
\* holder does not work at while no two edits of the staff row crossed.
THEOREM TillSessionsSound == SessionsSpec => []SignInsSound
<1>1. SessionsInv => SignInsSound
  BY DEF SessionsInv, SessionsTypeOK, StaffRow, TokenRow, VersionsInv, OutletsInv, SignInsSound,
         EndedStaysEnded, SessionsAtOwnOutlets, canActivate
<1> QED
  BY <1>1, SessionsInitial, SessionsInductive, PTL DEF SessionsSpec

-----------------------------------------------------------------------------
(* The console. *)

LinkStates == {"unissued", "open", "expired", "used", "deleted"}
AccountRow == [exists : BOOLEAN, version : Nat]
BrowserRow == [st : {"none", "signed"}, version : Nat, ended : BOOLEAN]
ConsoleRow == [op : {"idle", "regenerate", "forgot", "link", "sign"}, of : SUBSET Links,
               version : Nat, ended : BOOLEAN]

\* The account, its links and sessions and the request slots keep their types.
AccountsTypeOK ==
  /\ account \in AccountRow
  /\ link \in [Links -> LinkStates]
  /\ session \in [Browsers -> BrowserRow]
  /\ console \in [Consoles -> ConsoleRow]
  /\ over \subseteq Links

\* A link that is over is spent, a replacement works only on links that were
\* issued, and no link was used when it was over.
LinksInv ==
  /\ \A l \in over : link[l] \in {"used", "deleted"}
  /\ \A k \in Consoles : \A l \in console[k].of : link[l] # "unissued"
  /\ abused = {}

\* Neither a session nor a sign-in is ahead of the account, and one that was
\* ended is behind it.
OwnerVersionsInv ==
  /\ \A s \in Browsers : session[s].st = "signed" => session[s].version <= account.version
  /\ \A s \in Browsers : session[s].ended => session[s].version < account.version
  /\ \A k \in Consoles : console[k].op = "sign" => console[k].version <= account.version
  /\ \A k \in Consoles : console[k].ended => console[k].version < account.version

\* The inductive invariant of the console's accounts.
AccountsInv == AccountsTypeOK /\ LinksInv /\ OwnerVersionsInv

\* An empty slot has its type and holds no link and no sign-in.
LEMMA IdleConsoleType ==
  IdleConsole \in ConsoleRow /\ IdleConsole.op = "idle" /\ IdleConsole.of = {} /\ IdleConsole.ended = FALSE
BY DEF IdleConsole, ConsoleRow

\* A new account, with or without its first invite, satisfies it.
LEMMA AccountsInitial == AccountsInit => AccountsInv
<1> SUFFICES ASSUME AccountsInit PROVE AccountsInv
  OBVIOUS
<1>1. account \in AccountRow
  BY DEF AccountsInit, AccountRow
<1>2. link \in [Links -> LinkStates]
  BY DEF AccountsInit, LinkStates
<1>3. session \in [Browsers -> BrowserRow] /\ \A s \in Browsers : session[s].st = "none" /\ session[s].ended = FALSE
  BY DEF AccountsInit, NoSessionYet, BrowserRow
<1>4. console \in [Consoles -> ConsoleRow]
      /\ \A k \in Consoles : console[k] = IdleConsole
  BY IdleConsoleType DEF AccountsInit
<1> QED
  BY <1>1, <1>2, <1>3, <1>4, IdleConsoleType DEF AccountsInit, AccountsInv, AccountsTypeOK, LinksInv, OwnerVersionsInv

\* A step that fills one slot with links that were issued, or with a sign-in
\* that has read the version, and leaves the rest alone.
LEMMA StartStep ==
  ASSUME AccountsInv, NEW k \in Consoles, NEW c \in ConsoleRow,
         console' = [console EXCEPT ![k] = c],
         UNCHANGED <<account, link, session, over, abused>>,
         \A l \in c.of : link[l] # "unissued",
         c.op = "sign" => c.version = account.version,
         c.ended = FALSE
  PROVE  AccountsInv'
<1>1. /\ \A j \in Consoles \ {k} : console'[j] = console[j]
      /\ console'[k] = c
      /\ console' \in [Consoles -> ConsoleRow]
  BY DEF AccountsInv, AccountsTypeOK
<1>2. AccountsTypeOK'
  BY <1>1 DEF AccountsInv, AccountsTypeOK
<1>3. LinksInv'
  BY <1>1 DEF AccountsInv, LinksInv
<1>4. OwnerVersionsInv'
  BY <1>1 DEF AccountsInv, AccountsTypeOK, AccountRow, OwnerVersionsInv
<1> QED
  BY <1>2, <1>3, <1>4 DEF AccountsInv

\* The reads fill a slot: with issued links, or with the version to sign.
LEMMA ReadSteps ==
  ASSUME AccountsInv, NEW k \in Consoles,
         RegenerateRead(k) \/ ForgotRead(k) \/ LoginRead(k) \/ \E l \in Links : LinkRead(k, l)
  PROVE  AccountsInv'
<1> DEFINE work(o, S) == [IdleConsole EXCEPT !.op = o, !.of = S]
           sign(n) == [IdleConsole EXCEPT !.op = "sign", !.version = n]
<1>1. ASSUME NEW o \in {"regenerate", "forgot", "link"}, NEW S \in SUBSET Links
      PROVE  work(o, S) \in ConsoleRow /\ work(o, S).op = o /\ work(o, S).of = S /\ work(o, S).ended = FALSE
  BY DEF IdleConsole, ConsoleRow
<1>2. ASSUME NEW n \in Nat
      PROVE  sign(n) \in ConsoleRow /\ sign(n).of = {} /\ sign(n).version = n /\ sign(n).ended = FALSE
  BY DEF IdleConsole, ConsoleRow
<1>3. CASE RegenerateRead(k)
  <2> DEFINE S == Issued(Invites)
  <2>1. S \in SUBSET Links /\ \A l \in S : link[l] # "unissued"
    BY DEF Issued, Links
  <2>2. console' = [console EXCEPT ![k] = work("regenerate", S)] /\ UNCHANGED <<account, link, session, over, abused>>
    BY <1>3 DEF RegenerateRead, Start
  <2>3. work("regenerate", S) \in ConsoleRow /\ work("regenerate", S).op # "sign" /\ work("regenerate", S).of = S /\ work("regenerate", S).ended = FALSE
    BY <2>1, <1>1
  <2> DEFINE c == work("regenerate", S)
  <2> HIDE DEF S, work, c
  <2>4. c \in ConsoleRow /\ c.op # "sign" /\ c.of = S /\ c.ended = FALSE /\ console' = [console EXCEPT ![k] = c]
    BY <2>2, <2>3 DEF c
  <2> QED
    BY <2>1, <2>2, <2>4, StartStep
<1>4. CASE ForgotRead(k)
  <2> DEFINE S == {r \in Resets : link[r] \in {"open", "expired"}}
  <2>1. S \in SUBSET Links /\ \A l \in S : link[l] # "unissued"
    BY DEF Links
  <2>2. console' = [console EXCEPT ![k] = work("forgot", S)] /\ UNCHANGED <<account, link, session, over, abused>>
    BY <1>4 DEF ForgotRead, Start
  <2>3. work("forgot", S) \in ConsoleRow /\ work("forgot", S).op # "sign" /\ work("forgot", S).of = S /\ work("forgot", S).ended = FALSE
    BY <2>1, <1>1
  <2> DEFINE c == work("forgot", S)
  <2> HIDE DEF S, work, c
  <2>4. c \in ConsoleRow /\ c.op # "sign" /\ c.of = S /\ c.ended = FALSE /\ console' = [console EXCEPT ![k] = c]
    BY <2>2, <2>3 DEF c
  <2> QED
    BY <2>1, <2>2, <2>4, StartStep
<1>5. ASSUME NEW l \in Links, LinkRead(k, l) PROVE AccountsInv'
  <2> DEFINE S == {l}
  <2>1. S \in SUBSET Links /\ \A m \in S : link[m] # "unissued"
    BY <1>5 DEF LinkRead
  <2>2. console' = [console EXCEPT ![k] = work("link", S)] /\ UNCHANGED <<account, link, session, over, abused>>
    BY <1>5 DEF LinkRead, Start
  <2>3. work("link", S) \in ConsoleRow /\ work("link", S).op # "sign" /\ work("link", S).of = S /\ work("link", S).ended = FALSE
    BY <2>1, <1>1
  <2> DEFINE c == work("link", S)
  <2> HIDE DEF S, work, c
  <2>4. c \in ConsoleRow /\ c.op # "sign" /\ c.of = S /\ c.ended = FALSE /\ console' = [console EXCEPT ![k] = c]
    BY <2>2, <2>3 DEF c
  <2> QED
    BY <2>1, <2>2, <2>4, StartStep
<1>6. CASE LoginRead(k)
  <2>1. account.version \in Nat
    BY DEF AccountsInv, AccountsTypeOK, AccountRow
  <2>2. console' = [console EXCEPT ![k] = sign(account.version)] /\ UNCHANGED <<account, link, session, over, abused>>
    BY <1>6 DEF LoginRead, Start
  <2> HIDE DEF sign
  <2> QED
    BY <2>1, <2>2, <1>2, StartStep
<1> QED
  BY <1>3, <1>4, <1>5, <1>6

\* Links change state: none is unissued again, every link that is over is
\* spent, and the requests in flight hold no new ones.
LEMMA LinkStep ==
  ASSUME AccountsInv,
         link' \in [Links -> LinkStates],
         \A l \in Links : link'[l] = "unissued" => link[l] = "unissued",
         over' \subseteq Links,
         \A l \in over' : link'[l] \in {"used", "deleted"},
         abused' = {},
         \A k \in Consoles : console'[k].of \subseteq console[k].of
  PROVE  LinksInv'
<1>1. \A k \in Consoles : console[k].of \subseteq Links
  BY DEF AccountsInv, AccountsTypeOK, ConsoleRow
<1> QED
  BY <1>1 DEF AccountsInv, LinksInv

\* The slot's request ends and the account and its sessions are left alone.
LEMMA DoneStep ==
  ASSUME AccountsInv, NEW k \in Consoles,
         console' = [console EXCEPT ![k] = IdleConsole], UNCHANGED <<account, session>>
  PROVE  /\ console' \in [Consoles -> ConsoleRow]
         /\ \A j \in Consoles : console'[j].of \subseteq console[j].of
         /\ OwnerVersionsInv'
<1>1. /\ \A j \in Consoles \ {k} : console'[j] = console[j]
      /\ console'[k] = IdleConsole
      /\ console' \in [Consoles -> ConsoleRow]
  BY IdleConsoleType DEF AccountsInv, AccountsTypeOK
<1>2. \A j \in Consoles : console'[j].of \subseteq console[j].of
  BY <1>1, IdleConsoleType
<1>3. OwnerVersionsInv'
  BY <1>1, IdleConsoleType DEF AccountsInv, OwnerVersionsInv
<1> QED
  BY <1>1, <1>2, <1>3

\* A new link replaces those the request had found: those are spent, the new
\* one was in no request and was not over.
LEMMA ReplaceStep ==
  ASSUME AccountsInv, NEW k \in Consoles, NEW new \in Links,
         regenerateOwnerInvite(k, new) \/ forgotPassword(k, new)
  PROVE  AccountsInv'
<1> DEFINE old == console[k].of
<1>1. PICK spent \in {"used", "deleted"} :
        link' = [l \in Links |-> IF l = new THEN "open" ELSE IF l \in old THEN spent ELSE link[l]]
  BY DEF regenerateOwnerInvite, forgotPassword
<1>2. /\ link[new] = "unissued" /\ over' = over \cup old /\ abused' = abused
      /\ console' = [console EXCEPT ![k] = IdleConsole] /\ UNCHANGED <<account, session>>
  BY DEF regenerateOwnerInvite, forgotPassword
<1>3. /\ old \subseteq Links /\ new \notin old /\ new \notin over /\ over \subseteq Links
      /\ link \in [Links -> LinkStates]
  BY <1>2 DEF AccountsInv, AccountsTypeOK, ConsoleRow, LinksInv
<1> HIDE DEF old
<1>4. /\ link' \in [Links -> LinkStates]
      /\ \A l \in Links : link'[l] = "unissued" => link[l] = "unissued"
      /\ over' \subseteq Links
      /\ \A l \in over' : link'[l] \in {"used", "deleted"}
  BY <1>1, <1>2, <1>3 DEF LinkStates, AccountsInv, LinksInv
<1>5. abused' = {}
  BY <1>2 DEF AccountsInv, LinksInv
<1>6. /\ console' \in [Consoles -> ConsoleRow]
      /\ \A j \in Consoles : console'[j].of \subseteq console[j].of
      /\ OwnerVersionsInv'
  BY <1>2, DoneStep
<1>7. LinksInv'
  BY <1>4, <1>5, <1>6, LinkStep
<1>8. AccountsTypeOK'
  BY <1>2, <1>4, <1>6 DEF AccountsInv, AccountsTypeOK
<1> QED
  BY <1>6, <1>7, <1>8 DEF AccountsInv

\* An invite that is still unused is used, and its owner goes on to sign in.
LEMMA AcceptStep ==
  ASSUME AccountsInv, NEW k \in Consoles, acceptInvite(k)
  PROVE  AccountsInv'
<1> DEFINE c(n) == [IdleConsole EXCEPT !.op = "sign", !.version = n]
<1>1. PICK l \in console[k].of \cap Invites :
        /\ Unused(l)
        /\ link' = [link EXCEPT ![l] = "used"]
        /\ account' = [account EXCEPT !.exists = TRUE]
        /\ over' = over \cup {l}
        /\ abused' = abused \cup ({l} \cap over)
        /\ console' = [console EXCEPT ![k] = c(account.version)]
        /\ UNCHANGED session
  BY DEF acceptInvite
<1>2. l \in Links /\ link \in [Links -> LinkStates] /\ over \subseteq Links /\ account.version \in Nat
  BY <1>1 DEF Links, AccountsInv, AccountsTypeOK, AccountRow
<1>3. ASSUME NEW n \in Nat
      PROVE  c(n) \in ConsoleRow /\ c(n).of = {} /\ c(n).version = n /\ c(n).ended = FALSE
  BY DEF IdleConsole, ConsoleRow
<1> HIDE DEF c
<1>4. /\ \A j \in Consoles \ {k} : console'[j] = console[j]
      /\ console'[k] = c(account.version)
      /\ c(account.version).version = account.version /\ c(account.version).ended = FALSE
      /\ console' \in [Consoles -> ConsoleRow]
  BY <1>1, <1>2, <1>3 DEF AccountsInv, AccountsTypeOK
<1>5. account' \in AccountRow /\ account'.version = account.version
  BY <1>1 DEF AccountsInv, AccountsTypeOK, AccountRow
<1>6. l \notin over
  BY <1>1 DEF Unused, AccountsInv, LinksInv
<1>7. /\ link' \in [Links -> LinkStates]
      /\ \A m \in Links : link'[m] = "unissued" => link[m] = "unissued"
      /\ over' \subseteq Links
      /\ \A m \in over' : link'[m] \in {"used", "deleted"}
  BY <1>1, <1>2 DEF LinkStates, AccountsInv, LinksInv
<1>8. abused' = {}
  BY <1>1, <1>6 DEF AccountsInv, LinksInv
<1>9. \A j \in Consoles : console'[j].of \subseteq console[j].of
  BY <1>2, <1>3, <1>4
<1>10. LinksInv'
  BY <1>7, <1>8, <1>9, LinkStep
<1>11. OwnerVersionsInv'
  BY <1>1, <1>2, <1>3, <1>4, <1>5 DEF AccountsInv, OwnerVersionsInv
<1>12. AccountsTypeOK'
  BY <1>1, <1>4, <1>5, <1>7 DEF AccountsInv, AccountsTypeOK
<1> QED
  BY <1>10, <1>11, <1>12 DEF AccountsInv

\* Whatever ends every session moves the account ahead of all of them, and of
\* the sign-ins in flight.
LEMMA EndSessionsStep ==
  ASSUME AccountsInv, NEW c \in [Consoles -> ConsoleRow],
         \A k \in Consoles : c[k] \in {console[k], IdleConsole},
         EndSessions(c), account' = [account EXCEPT !.version = account.version + 1]
  PROVE  /\ account' \in AccountRow
         /\ session' \in [Browsers -> BrowserRow]
         /\ console' \in [Consoles -> ConsoleRow]
         /\ \A k \in Consoles : console'[k].of \subseteq console[k].of
         /\ OwnerVersionsInv'
<1>1. account.version \in Nat /\ account' \in AccountRow /\ account'.version = account.version + 1
  BY DEF AccountsInv, AccountsTypeOK, AccountRow
<1>2. \A s \in Browsers :
        /\ [session[s] EXCEPT !.ended = session[s].ended \/ session[s].st = "signed"] \in BrowserRow
        /\ session'[s] = [session[s] EXCEPT !.ended = session[s].ended \/ session[s].st = "signed"]
  BY DEF EndSessions, AccountsInv, AccountsTypeOK, BrowserRow
<1>3. session' \in [Browsers -> BrowserRow]
  BY <1>2 DEF EndSessions
<1>4. \A k \in Consoles :
        /\ [c[k] EXCEPT !.ended = c[k].ended \/ c[k].op = "sign"] \in ConsoleRow
        /\ console'[k] = [c[k] EXCEPT !.ended = c[k].ended \/ c[k].op = "sign"]
  BY DEF EndSessions, ConsoleRow
<1>5. console' \in [Consoles -> ConsoleRow]
  BY <1>4 DEF EndSessions
<1>6. \A k \in Consoles : /\ console'[k].of = c[k].of /\ console'[k].version = c[k].version
                          /\ console'[k].op = c[k].op
                          /\ console'[k].ended => c[k].ended \/ c[k].op = "sign"
  <2> TAKE k \in Consoles
  <2>1. PICK old \in ConsoleRow : old = c[k]
    OBVIOUS
  <2>2. PICK e \in BOOLEAN : e = (old.ended \/ old.op = "sign")
    OBVIOUS
  <2>3. console'[k] = [old EXCEPT !.ended = e]
    BY <1>4, <2>1, <2>2
  <2> QED
    BY <2>1, <2>2, <2>3 DEF ConsoleRow
<1>7. \A s \in Browsers : /\ session'[s].st = session[s].st /\ session'[s].version = session[s].version
                          /\ session'[s].ended => session[s].ended \/ session[s].st = "signed"
  <2> TAKE s \in Browsers
  <2>1. PICK old \in BrowserRow : old = session[s]
    BY DEF AccountsInv, AccountsTypeOK, BrowserRow
  <2>2. PICK e \in BOOLEAN : e = (old.ended \/ old.st = "signed")
    OBVIOUS
  <2>3. session'[s] = [old EXCEPT !.ended = e]
    BY <1>2, <2>1, <2>2
  <2> QED
    BY <2>1, <2>2, <2>3 DEF BrowserRow
<1>8. \A k \in Consoles : /\ console'[k].of \subseteq console[k].of
                          /\ console'[k].op = "sign" => console[k].op = "sign" /\ console'[k].version = console[k].version
                          /\ console'[k].ended => (console[k].ended \/ console[k].op = "sign") /\ console'[k].version = console[k].version
  BY <1>6, IdleConsoleType
<1>9. (\A k \in Consoles : console[k].version \in Nat) /\ \A s \in Browsers : session[s].version \in Nat
  BY DEF AccountsInv, AccountsTypeOK, ConsoleRow, BrowserRow
<1>10. /\ \A s \in Browsers : (session[s].ended \/ session[s].st = "signed") => session[s].version <= account.version
       /\ \A k \in Consoles : (console[k].ended \/ console[k].op = "sign") => console[k].version <= account.version
  <2>1. \A n \in Nat : n < account.version => n <= account.version
    BY <1>1
  <2>2. ASSUME NEW s \in Browsers, session[s].ended PROVE session[s].version <= account.version
    BY <1>9, <2>1, <2>2 DEF AccountsInv, OwnerVersionsInv
  <2>3. ASSUME NEW k \in Consoles, console[k].ended PROVE console[k].version <= account.version
    BY <1>9, <2>1, <2>3 DEF AccountsInv, OwnerVersionsInv
  <2> QED
    BY <2>2, <2>3 DEF AccountsInv, OwnerVersionsInv
<1>11. \A n \in Nat : n <= account.version => n < account'.version /\ n <= account'.version
  BY <1>1
<1>12. \A s \in Browsers : (session'[s].ended \/ session'[s].st = "signed") =>
         session'[s].version < account'.version /\ session'[s].version <= account'.version
  BY <1>7, <1>9, <1>10, <1>11
<1>13. \A k \in Consoles : (console'[k].ended \/ console'[k].op = "sign") =>
         console'[k].version < account'.version /\ console'[k].version <= account'.version
  BY <1>8, <1>9, <1>10, <1>11
<1>14. OwnerVersionsInv'
  BY <1>12, <1>13 DEF OwnerVersionsInv
<1> QED
  BY <1>1, <1>3, <1>5, <1>8, <1>14

\* A reset uses its link and every other open one, and ends every session.
LEMMA ResetStep ==
  ASSUME AccountsInv, NEW k \in Consoles, resetPassword(k)
  PROVE  AccountsInv'
<1> DEFINE open == {r \in Resets : link[r] \in {"open", "expired"}}
           c == [console EXCEPT ![k] = IdleConsole]
<1>1. PICK l \in console[k].of \cap Resets :
        /\ Unused(l)
        /\ link' = [r \in Links |-> IF r \in open \cup {l} THEN "used" ELSE link[r]]
        /\ account' = [account EXCEPT !.version = account.version + 1]
        /\ over' = over \cup open \cup {l}
        /\ abused' = abused \cup ({l} \cap over)
        /\ EndSessions(c)
  BY DEF resetPassword, Bumped
<1>2. l \in Links /\ open \subseteq Links /\ link \in [Links -> LinkStates] /\ over \subseteq Links
  BY <1>1 DEF Links, AccountsInv, AccountsTypeOK
<1>3. c \in [Consoles -> ConsoleRow] /\ \A j \in Consoles : c[j] \in {console[j], IdleConsole}
  BY IdleConsoleType DEF AccountsInv, AccountsTypeOK
<1> HIDE DEF open, c
<1>4. /\ account' \in AccountRow
      /\ session' \in [Browsers -> BrowserRow]
      /\ console' \in [Consoles -> ConsoleRow]
      /\ \A j \in Consoles : console'[j].of \subseteq console[j].of
      /\ OwnerVersionsInv'
  BY <1>1, <1>3, EndSessionsStep
<1>5. /\ link' \in [Links -> LinkStates]
      /\ \A m \in Links : link'[m] = "unissued" => link[m] = "unissued"
      /\ over' \subseteq Links
      /\ \A m \in over' : link'[m] \in {"used", "deleted"}
  BY <1>1, <1>2 DEF LinkStates, AccountsInv, LinksInv
<1>6. abused' = {}
  BY <1>1 DEF Unused, AccountsInv, LinksInv
<1>7. LinksInv'
  BY <1>4, <1>5, <1>6, LinkStep
<1>8. AccountsTypeOK'
  BY <1>4, <1>5 DEF AccountsTypeOK
<1> QED
  BY <1>4, <1>7, <1>8 DEF AccountsInv

\* A log-out ends every session and leaves the links alone.
LEMMA LogOutStep ==
  ASSUME AccountsInv, NEW s \in Browsers, LogOut(s)
  PROVE  AccountsInv'
<1>1. account' = [account EXCEPT !.version = account.version + 1] /\ EndSessions(console) /\ UNCHANGED <<link, over, abused>>
  BY DEF LogOut
<1>2. console \in [Consoles -> ConsoleRow] /\ \A j \in Consoles : console[j] \in {console[j], IdleConsole}
  BY DEF AccountsInv, AccountsTypeOK
<1>3. /\ account' \in AccountRow
      /\ session' \in [Browsers -> BrowserRow]
      /\ console' \in [Consoles -> ConsoleRow]
      /\ \A j \in Consoles : console'[j].of \subseteq console[j].of
      /\ OwnerVersionsInv'
  BY <1>1, <1>2, EndSessionsStep
<1>4. LinksInv'
  BY <1>1, <1>3, LinkStep DEF AccountsInv, AccountsTypeOK, LinksInv
<1> QED
  BY <1>1, <1>3, <1>4 DEF AccountsInv, AccountsTypeOK

\* A session is signed with what its sign-in had read, ended or not.
LEMMA SignStep ==
  ASSUME AccountsInv, NEW k \in Consoles, NEW s \in Browsers, Sign(k, s)
  PROVE  AccountsInv'
<1> DEFINE new == [st |-> "signed", version |-> console[k].version, ended |-> console[k].ended]
<1>1. /\ console[k].op = "sign" /\ session' = [session EXCEPT ![s] = new]
      /\ console' = [console EXCEPT ![k] = IdleConsole] /\ UNCHANGED <<account, link, over, abused>>
  BY DEF Sign
<1>2. new \in BrowserRow /\ new.version = console[k].version /\ new.ended = console[k].ended
  BY DEF AccountsInv, AccountsTypeOK, ConsoleRow, BrowserRow
<1> HIDE DEF new
<1>3. /\ session'[s] = new /\ \A t \in Browsers \ {s} : session'[t] = session[t]
      /\ session' \in [Browsers -> BrowserRow]
  BY <1>1, <1>2 DEF AccountsInv, AccountsTypeOK
<1>4. /\ \A j \in Consoles \ {k} : console'[j] = console[j]
      /\ console'[k] = IdleConsole
      /\ console' \in [Consoles -> ConsoleRow]
  BY <1>1, IdleConsoleType DEF AccountsInv, AccountsTypeOK
<1>5. OwnerVersionsInv'
  BY <1>1, <1>2, <1>3, <1>4, IdleConsoleType DEF AccountsInv, OwnerVersionsInv
<1>6. LinksInv'
  BY <1>1, <1>4, IdleConsoleType DEF AccountsInv, LinksInv
<1> QED
  BY <1>1, <1>3, <1>4, <1>5, <1>6 DEF AccountsInv, AccountsTypeOK

\* Every step of the console and of time keeps the invariant.
LEMMA AccountsInductive == AccountsInv /\ [AccountsNext]_accountVars => AccountsInv'
<1> SUFFICES ASSUME AccountsInv, [AccountsNext]_accountVars PROVE AccountsInv'
  OBVIOUS
<1>1. ASSUME NEW l \in Links, Expire(l) PROVE AccountsInv'
  <2>1. link[l] = "open" /\ link' = [link EXCEPT ![l] = "expired"] /\ UNCHANGED <<account, session, console, over, abused>>
    BY <1>1 DEF Expire
  <2>2. link \in [Links -> LinkStates] /\ link' \in [Links -> LinkStates]
    BY <2>1 DEF LinkStates, AccountsInv, AccountsTypeOK
  <2>3. LinksInv'
    BY <2>1, <2>2 DEF AccountsInv, AccountsTypeOK, LinksInv, ConsoleRow
  <2> QED
    BY <2>1, <2>2, <2>3 DEF AccountsInv, AccountsTypeOK, OwnerVersionsInv
<1>2. ASSUME NEW k \in Consoles, LinkRefused(k) PROVE AccountsInv'
  BY <1>2, StartStep, IdleConsoleType DEF LinkRefused
<1>3. CASE UNCHANGED accountVars
  BY <1>3 DEF accountVars, AccountsInv, AccountsTypeOK, LinksInv, OwnerVersionsInv
<1> QED
  BY <1>1, <1>2, <1>3, ReadSteps, ReplaceStep, AcceptStep, ResetStep, LogOutStep, SignStep DEF AccountsNext

\* No link sets a password once it was used, replaced or ended by a reset, and
\* the guards let in no session that a log-out or a reset ended, whatever
\* requests had read the link or the account before that.
THEOREM ConsoleAccountsSound == AccountsSpec => []AccountsSound
<1>1. AccountsInv => AccountsSound
  BY DEF AccountsInv, AccountsTypeOK, AccountRow, BrowserRow, LinksInv, OwnerVersionsInv, AccountsSound,
         LinksSpentOnce, OwnerSessionsEnd, SessionValid
<1> QED
  BY <1>1, AccountsInitial, AccountsInductive, PTL DEF AccountsSpec

-----------------------------------------------------------------------------
(* The throttle.  A request holds an attempt of a window from its count to  *)
(* its answer.  What binds the counter to the answers is a balance, key by  *)
(* key and window by window: wrong answers and attempts held are no more    *)
(* than the limit, and no more than the counter while the window is open.   *)

AttemptRow == [there : BOOLEAN, attempts : Nat, since : Moments]
RequestRow == [op : {"none", "consume", "check", "refund", "purge"}, rules : Seq(Keys), windows : Seq(Moments)]

\* A request has counted the first rules of its client, each in some window.
RequestOK(r) ==
  /\ r \in RequestRow
  /\ \A i, j \in DOMAIN r.rules : r.rules[i] = r.rules[j] => i = j
  /\ r.op = "consume" => Len(r.windows) < Len(r.rules)
  /\ r.op \in {"check", "refund"} => Len(r.windows) = Len(r.rules)

LimiterTypes ==
  /\ clock \in Moments
  /\ row \in [Keys -> AttemptRow] /\ \A key \in Keys : row[key].there => row[key].since <= clock
  /\ DOMAIN request = Requests /\ \A q \in Requests : RequestOK(request[q])
  /\ wrong \in [Keys -> [Moments -> Nat]] /\ carried \in [Keys -> [Moments -> Nat]]
  /\ kept \in [Keys -> [Moments -> Int]]

\* The requests that hold an attempt of a key in the window that began at t.
Holds(r, key, t) ==
  /\ r.op \in {"consume", "check", "refund"}
  /\ \E i \in DOMAIN r.windows : r.rules[i] = key /\ r.windows[i] = t
Holders(key, t) == {q \in Requests : Holds(request[q], key, t)}

\* A window that has not begun.
ToCome(key, t) == IF row[key].there THEN t > row[key].since ELSE t >= clock

\* The balance of a window.
Balanced(key, t) ==
  /\ wrong[key][t] + Cardinality(Holders(key, t)) <= MaxAttempts[key] + carried[key][t]
  /\ Cardinality(Holders(key, t)) <= kept[key][t]
  /\ row[key].there /\ row[key].since = t =>
       /\ wrong[key][t] + Cardinality(Holders(key, t)) <= row[key].attempts + carried[key][t]
       /\ row[key].attempts <= kept[key][t]
  /\ ToCome(key, t) => wrong[key][t] = 0 /\ Holders(key, t) = {} /\ kept[key][t] = 0

\* The inductive invariant of the throttle.
LimiterInv == LimiterTypes /\ \A key \in Keys, t \in Moments : Balanced(key, t)

\* The requests that hold an attempt are finitely many, and one more or less
\* of them counts for one.
LEMMA HoldersCount ==
  ASSUME NEW S \in SUBSET Requests, NEW q \in Requests
  PROVE  /\ Cardinality(S) \in Nat /\ (S = {} <=> Cardinality(S) = 0)
         /\ Cardinality(S \ {q}) = IF q \in S THEN Cardinality(S) - 1 ELSE Cardinality(S)
         /\ Cardinality(S \cup {q}) = IF q \in S THEN Cardinality(S) ELSE Cardinality(S) + 1
<1>1. IsFiniteSet(S)
  BY LimiterAssumption, FS_Subset
<1> QED
  BY <1>1, FS_EmptySet, FS_CardinalityType, FS_AddElement, FS_RemoveElement

\* Fewer hold one when q no longer does.
LEMMA FewerHold ==
  ASSUME NEW S \in SUBSET Requests, NEW q \in Requests, NEW T, T = S \/ T = S \ {q}
  PROVE  Cardinality(S) \in Nat /\ Cardinality(T) \in Nat /\ Cardinality(T) <= Cardinality(S) /\ (S = {} => T = {})
<1>1. /\ Cardinality(S) \in Nat
      /\ Cardinality(S \ {q}) = IF q \in S THEN Cardinality(S) - 1 ELSE Cardinality(S)
  BY HoldersCount
<1>2. S \ {q} \in SUBSET Requests
  OBVIOUS
<1>3. Cardinality(S \ {q}) \in Nat
  BY <1>2, HoldersCount
<1> QED
  BY <1>1, <1>3

\* Moments and limits are naturals.
LEMMA LimiterNaturals ==
  /\ \A t \in Moments : t \in Nat
  /\ \A key \in Keys : MaxAttempts[key] \in Nat
BY LimiterAssumption DEF Moments

\* A slot with no request holds nothing.
LEMMA NoRequestOK == RequestOK(NoRequest) /\ \A key, t : ~Holds(NoRequest, key, t)
BY DEF RequestOK, RequestRow, NoRequest, Holds

\* Nothing was counted yet.
LEMMA LimiterStart == ASSUME LimiterInit PROVE LimiterInv
<1>1. 0 \in Moments /\ clock = 0
  BY LimiterAssumption DEF Moments, LimiterInit
<1>2. NoAttempts \in AttemptRow /\ ~NoAttempts.there
  BY <1>1 DEF NoAttempts, AttemptRow
<1>3. row \in [Keys -> AttemptRow] /\ \A key \in Keys : ~row[key].there
  BY <1>2 DEF LimiterInit
<1>4. DOMAIN request = Requests /\ \A q \in Requests : request[q] = NoRequest
  BY DEF LimiterInit
<1>5. wrong = [key \in Keys |-> [t \in Moments |-> 0]] /\ kept = wrong /\ carried = wrong
  BY DEF LimiterInit
<1>6. LimiterTypes
  BY <1>1, <1>3, <1>4, <1>5, NoRequestOK DEF LimiterTypes
<1>7. ASSUME NEW key \in Keys, NEW t \in Moments PROVE Balanced(key, t)
  <2>1. Holders(key, t) = {} /\ Cardinality({}) = 0
    BY <1>4, NoRequestOK, FS_EmptySet DEF Holders
  <2>2. wrong[key][t] = 0 /\ kept[key][t] = 0 /\ carried[key][t] = 0
    BY <1>5
  <2> QED
    BY <1>3, <2>1, <2>2, LimiterNaturals DEF Balanced
<1> QED
  BY <1>6, <1>7 DEF LimiterInv

\* The slots after a step that gives slot q the request r.
LEMMA RequestStep ==
  ASSUME NEW q \in Requests, NEW r, NEW key, NEW t,
         LimiterTypes, RequestOK(r), request' = [request EXCEPT ![q] = r]
  PROVE  /\ DOMAIN request' = Requests /\ \A p \in Requests : RequestOK(request'[p])
         /\ Holds(r, key, t) => (Holders(key, t))' = Holders(key, t) \cup {q}
         /\ ~Holds(r, key, t) => (Holders(key, t))' = Holders(key, t) \ {q}
<1>1. DOMAIN request' = Requests /\ request'[q] = r /\ \A p \in Requests : p # q => request'[p] = request[p]
  BY DEF LimiterTypes
<1>2. (Holders(key, t))' = {p \in Requests : Holds(request'[p], key, t)}
  BY DEF Holders
<1>3. Holds(r, key, t) => (Holders(key, t))' = Holders(key, t) \cup {q}
  BY <1>1, <1>2 DEF Holders
<1>4. ~Holds(r, key, t) => (Holders(key, t))' = Holders(key, t) \ {q}
  BY <1>1, <1>2 DEF Holders
<1>5. \A p \in Requests : RequestOK(request'[p])
  BY <1>1 DEF LimiterTypes
<1> QED
  BY <1>1, <1>3, <1>4, <1>5

\* A request gives way to one that holds no more than it did, and no counter
\* changes: the balance can only get better.
LEMMA LetGo ==
  ASSUME LimiterInv, NEW q \in Requests, NEW r, RequestOK(r), request' = [request EXCEPT ![q] = r],
         UNCHANGED <<clock, row, wrong, kept, carried>>,
         \A key, t : Holds(r, key, t) => Holds(request[q], key, t)
  PROVE  LimiterInv'
<1>1. LimiterTypes'
  BY RequestStep DEF LimiterInv, LimiterTypes
<1>2. ASSUME NEW key \in Keys, NEW t \in Moments PROVE Balanced(key, t)'
  <2>1. (Holders(key, t))' = Holders(key, t) \/ (Holders(key, t))' = Holders(key, t) \ {q}
    BY RequestStep DEF LimiterInv, Holders
  <2>2. PICK S \in SUBSET Requests : S = Holders(key, t)
    BY DEF Holders
  <2>3. PICK T : T = (Holders(key, t))'
    OBVIOUS
  <2>4. Cardinality(T) \in Nat /\ Cardinality(T) <= Cardinality(S) /\ (S = {} => T = {}) /\ Cardinality(S) \in Nat
    BY <2>1, <2>2, <2>3, FewerHold
  <2>5. wrong[key][t] \in Nat /\ carried[key][t] \in Nat /\ kept[key][t] \in Int /\ row[key].attempts \in Nat
    BY DEF LimiterInv, LimiterTypes, AttemptRow
  <2>6. Balanced(key, t)
    BY DEF LimiterInv
  <2> QED
    BY <2>2, <2>3, <2>4, <2>5, <2>6, LimiterNaturals DEF Balanced, ToCome
<1> QED
  BY <1>1, <1>2 DEF LimiterInv

\* The steps that count nothing, and time.
LEMMA LimiterQuiet ==
  ASSUME LimiterInv,
         \/ TimePasses
         \/ \E q \in Requests, c \in Clients : SignIn(q, c)
         \/ \E q \in Requests : RightSecret(q) \/ Abandon(q)
  PROVE  LimiterInv'
<1>1. CASE TimePasses
  <2>1. clock \in Nat /\ clock' = clock + 1 /\ clock' \in Moments /\ UNCHANGED <<row, request, wrong, kept, carried>>
    BY <1>1, LimiterAssumption DEF TimePasses, LimiterInv, LimiterTypes, Moments
  <2>2. \A key \in Keys : row[key].since \in Nat
    BY LimiterNaturals DEF LimiterInv, LimiterTypes, AttemptRow
  <2>3. LimiterTypes'
    BY <2>1, <2>2 DEF LimiterInv, LimiterTypes
  <2>4. ASSUME NEW key \in Keys, NEW t \in Moments PROVE Balanced(key, t)'
    <3>1. (Holders(key, t))' = Holders(key, t)
      BY <2>1 DEF Holders
    <3>2. ToCome(key, t)' => ToCome(key, t)
      BY <2>1, LimiterNaturals DEF ToCome
    <3>3. Balanced(key, t)
      BY DEF LimiterInv
    <3> QED
      BY <2>1, <3>1, <3>2, <3>3 DEF Balanced
  <2> QED
    BY <2>3, <2>4 DEF LimiterInv
<1>2. ASSUME NEW q \in Requests, NEW c \in Clients, SignIn(q, c) PROVE LimiterInv'
  <2> DEFINE r == [op |-> "consume", rules |-> Rules[c], windows |-> << >>]
  <2>1. request' = [request EXCEPT ![q] = r] /\ UNCHANGED <<clock, row, wrong, kept, carried>>
    BY <1>2 DEF SignIn
  <2>2. Rules[c] \in Seq(Keys) /\ Len(Rules[c]) > 0 /\ \A i, j \in DOMAIN Rules[c] : Rules[c][i] = Rules[c][j] => i = j
    BY LimiterAssumption
  <2>3. RequestOK(r)
    BY <2>2 DEF RequestOK, RequestRow
  <2>4. \A key, t : ~Holds(r, key, t)
    BY DEF Holds
  <2> HIDE DEF r
  <2> QED
    BY <2>1, <2>3, <2>4, LetGo
<1>3. ASSUME NEW q \in Requests, RightSecret(q) PROVE LimiterInv'
  <2> DEFINE r == [request[q] EXCEPT !.op = "refund"]
  <2>1. request[q].op = "check" /\ request' = [request EXCEPT ![q] = r] /\ UNCHANGED <<clock, row, wrong, kept, carried>>
    BY <1>3 DEF RightSecret
  <2>2. RequestOK(request[q])
    BY DEF LimiterInv, LimiterTypes
  <2>3. r \in RequestRow /\ r.op = "refund" /\ r.rules = request[q].rules /\ r.windows = request[q].windows
    BY <2>2 DEF RequestOK, RequestRow
  <2>4. RequestOK(r)
    BY <2>1, <2>2, <2>3 DEF RequestOK
  <2>5. \A key, t : Holds(r, key, t) => Holds(request[q], key, t)
    BY <2>1, <2>3 DEF Holds
  <2> HIDE DEF r
  <2> QED
    BY <2>1, <2>4, <2>5, LetGo
<1>4. ASSUME NEW q \in Requests, Abandon(q) PROVE LimiterInv'
  BY <1>4, NoRequestOK, LetGo DEF Abandon
<1> QED
  BY <1>1, <1>2, <1>3, <1>4

\* A wrong secret: the attempt held becomes one used.
LEMMA WrongInv == ASSUME LimiterInv, NEW q \in Requests, WrongSecret(q) PROVE LimiterInv'
<1>1. PICK r : r = request[q]
  OBVIOUS
<1>2. r.op = "check" /\ RequestOK(r) /\ DOMAIN r.windows = DOMAIN r.rules
  BY <1>1 DEF WrongSecret, LimiterInv, LimiterTypes, RequestOK, RequestRow
<1>3. request' = [request EXCEPT ![q] = NoRequest] /\ UNCHANGED <<clock, row, kept, carried>>
  BY DEF WrongSecret
<1>4. wrong' = [key \in Keys |-> [t \in Moments |-> wrong[key][t] + IF Holds(r, key, t) THEN 1 ELSE 0]]
  BY <1>1, <1>2 DEF WrongSecret, Holds
<1>5. \A key \in Keys, t \in Moments : wrong[key][t] \in Nat /\ wrong[key][t] + (IF Holds(r, key, t) THEN 1 ELSE 0) \in Nat
  BY DEF LimiterInv, LimiterTypes
<1>6. wrong' \in [Keys -> [Moments -> Nat]]
  BY <1>4, <1>5
<1>7. LimiterTypes'
  <2>1. DOMAIN request' = Requests /\ \A p \in Requests : RequestOK(request'[p])
    BY <1>3, NoRequestOK, RequestStep DEF LimiterInv
  <2> QED
    BY <1>3, <1>6, <2>1 DEF LimiterInv, LimiterTypes
<1>8. ASSUME NEW key \in Keys, NEW t \in Moments PROVE Balanced(key, t)'
  <2>1. PICK S \in SUBSET Requests : S = Holders(key, t)
    BY DEF Holders
  <2>2. PICK T : T = (Holders(key, t))'
    OBVIOUS
  <2>3. T = S \ {q}
    BY <1>3, <2>1, <2>2, NoRequestOK, RequestStep DEF LimiterInv
  <2>4. q \in S <=> Holds(r, key, t)
    BY <1>1, <2>1 DEF Holders
  <2>5. /\ Cardinality(S) \in Nat /\ Cardinality(T) \in Nat /\ (S = {} => T = {})
        /\ Cardinality(T) = IF Holds(r, key, t) THEN Cardinality(S) - 1 ELSE Cardinality(S)
    BY <2>3, <2>4, HoldersCount, FewerHold
  <2>6. wrong'[key][t] = wrong[key][t] + IF Holds(r, key, t) THEN 1 ELSE 0
    BY <1>4
  <2>7. wrong[key][t] \in Nat /\ carried[key][t] \in Nat /\ kept[key][t] \in Int /\ row[key].attempts \in Nat
    BY DEF LimiterInv, LimiterTypes, AttemptRow
  <2>8. Balanced(key, t)
    BY DEF LimiterInv
  <2>9. ToCome(key, t)' <=> ToCome(key, t)
    BY <1>3 DEF ToCome
  <2>10. ToCome(key, t) => ~Holds(r, key, t)
    BY <2>1, <2>4, <2>8 DEF Balanced
  <2>11. wrong'[key][t] + Cardinality(T) = wrong[key][t] + Cardinality(S) /\ Cardinality(T) <= Cardinality(S)
    BY <2>5, <2>6, <2>7
  <2>12. ToCome(key, t) => wrong'[key][t] = wrong[key][t]
    BY <2>6, <2>7, <2>10
  <2> QED
    BY <1>3, <2>1, <2>2, <2>5, <2>7, <2>8, <2>9, <2>11, <2>12, LimiterNaturals DEF Balanced
<1> QED
  BY <1>7, <1>8 DEF LimiterInv

\* The purge takes rows whose window is over.
LEMMA PurgeInv == ASSUME LimiterInv, NEW q \in Requests, purge(q) PROVE LimiterInv'
<1>1. request[q].op = "purge" /\ request' = [request EXCEPT ![q] = NoRequest] /\ UNCHANGED <<clock, wrong, kept, carried>>
  BY DEF purge
<1>2. 0 \in Moments /\ NoAttempts \in AttemptRow /\ ~NoAttempts.there
  BY LimiterAssumption DEF Moments, AttemptRow, NoAttempts
<1>3. \A key \in Keys : /\ row[key] \in AttemptRow /\ row[key].since \in Nat
                        /\ \/ row'[key] = row[key]
                           \/ row'[key] = NoAttempts /\ row[key].there /\ row[key].since < clock
  <2> SUFFICES ASSUME NEW key \in Keys
               PROVE  /\ row[key] \in AttemptRow /\ row[key].since \in Nat
                      /\ \/ row'[key] = row[key]
                         \/ row'[key] = NoAttempts /\ row[key].there /\ row[key].since < clock
    OBVIOUS
  <2>1. row[key] \in AttemptRow /\ row[key].since \in Nat /\ clock \in Nat
    BY LimiterNaturals DEF LimiterInv, LimiterTypes, AttemptRow
  <2>2. row'[key] = IF row[key].there /\ row[key].since + PurgeTime < clock THEN NoAttempts ELSE row[key]
    BY DEF purge
  <2>3. row[key].since + PurgeTime < clock => row[key].since < clock
    BY <2>1, LimiterAssumption
  <2> QED
    BY <2>1, <2>2, <2>3
<1>4. row' \in [Keys -> AttemptRow]
  <2>1. \A key \in Keys : row'[key] \in AttemptRow
    BY <1>2, <1>3
  <2>2. row' = [key \in Keys |-> row'[key]]
    BY DEF purge
  <2> QED
    BY <2>1, <2>2
<1>5. \A key \in Keys : row'[key].there => row'[key] = row[key]
  BY <1>2, <1>3
<1>6. LimiterTypes'
  <2>1. DOMAIN request' = Requests /\ \A p \in Requests : RequestOK(request'[p])
    BY <1>1, NoRequestOK, RequestStep DEF LimiterInv
  <2> QED
    BY <1>1, <1>4, <1>5, <2>1 DEF LimiterInv, LimiterTypes
<1>7. ASSUME NEW key \in Keys, NEW t \in Moments PROVE Balanced(key, t)'
  <2>1. (Holders(key, t))' = Holders(key, t)
    <3>1. (Holders(key, t))' = Holders(key, t) \ {q}
      BY <1>1, NoRequestOK, RequestStep DEF LimiterInv
    <3>2. q \notin Holders(key, t)
      BY <1>1 DEF Holders, Holds
    <3> QED
      BY <3>1, <3>2
  <2>2. Balanced(key, t)
    BY DEF LimiterInv
  <2>3. ToCome(key, t)' => ToCome(key, t)
    <3>1. CASE row'[key] = row[key]
      BY <1>1, <3>1 DEF ToCome
    <3>2. CASE row'[key] = NoAttempts /\ row[key].there /\ row[key].since < clock
      <4>1. clock \in Nat /\ t \in Nat /\ row[key].since \in Nat
        BY <1>3, LimiterNaturals DEF LimiterInv, LimiterTypes
      <4>2. ToCome(key, t)' => t >= clock
        BY <1>1, <1>2, <3>2 DEF ToCome
      <4>3. t >= clock => t > row[key].since
        BY <3>2, <4>1
      <4> QED
        BY <3>2, <4>2, <4>3 DEF ToCome
    <3> QED
      BY <1>3, <3>1, <3>2
  <2> QED
    BY <1>1, <1>5, <2>1, <2>2, <2>3 DEF Balanced
<1> QED
  BY <1>6, <1>7 DEF LimiterInv

\* A right secret gives its attempts back, to whatever window is open by now.
LEMMA RefundInv == ASSUME LimiterInv, NEW q \in Requests, refund(q) PROVE LimiterInv'
<1>1. PICK r : r = request[q]
  OBVIOUS
<1>2. /\ r.op = "refund" /\ RequestOK(r) /\ DOMAIN r.windows = DOMAIN r.rules
      /\ \A i, j \in DOMAIN r.rules : r.rules[i] = r.rules[j] => i = j
  BY <1>1 DEF refund, LimiterInv, LimiterTypes, RequestOK, RequestRow
<1> DEFINE Window(key) == r.windows[CHOOSE i \in DOMAIN r.rules : r.rules[i] = key]
           Open(key) == key \in ToSet(r.rules) /\ row[key].there
<1>3. /\ request' = [request EXCEPT ![q] = [request[q] EXCEPT !.op = "purge"]] /\ UNCHANGED <<clock, wrong>>
      /\ row' = [key \in Keys |->
           IF Open(key) THEN [row[key] EXCEPT !.attempts = IF row[key].attempts = 0 THEN 0 ELSE row[key].attempts - 1] ELSE row[key]]
      /\ kept' = [key \in Keys |-> [t \in Moments |->
           kept[key][t] - IF key \in ToSet(r.rules) /\ Window(key) = t THEN 1 ELSE 0]]
      /\ carried' = [key \in Keys |-> [t \in Moments |->
           carried[key][t] + IF Open(key) /\ t = row[key].since /\ Window(key) # t THEN 1 ELSE 0]]
  BY <1>1 DEF refund, GivenBack
<1>4. PICK p : p = [request[q] EXCEPT !.op = "purge"]
  OBVIOUS
<1>5. RequestOK(p) /\ \A key, t : ~Holds(p, key, t)
  <2>1. p \in RequestRow /\ p.op = "purge" /\ p.rules = r.rules /\ p.windows = r.windows
    BY <1>1, <1>2, <1>4 DEF RequestOK, RequestRow
  <2> QED
    BY <1>2, <2>1 DEF RequestOK, Holds
<1>6. \A key, t : Holds(r, key, t) <=> key \in ToSet(r.rules) /\ Window(key) = t
  <2> SUFFICES ASSUME NEW key, NEW t PROVE Holds(r, key, t) <=> key \in ToSet(r.rules) /\ Window(key) = t
    OBVIOUS
  <2>1. key \in ToSet(r.rules) <=> \E i \in DOMAIN r.rules : r.rules[i] = key
    BY DEF ToSet
  <2>2. ASSUME NEW i \in DOMAIN r.rules, r.rules[i] = key PROVE (CHOOSE j \in DOMAIN r.rules : r.rules[j] = key) = i
    BY <1>2, <2>2
  <2>3. ASSUME NEW i \in DOMAIN r.rules, r.rules[i] = key PROVE Window(key) = r.windows[i]
    BY <2>2, <2>3
  <2>4. Holds(r, key, t) <=> \E i \in DOMAIN r.rules : r.rules[i] = key /\ r.windows[i] = t
    BY <1>2 DEF Holds
  <2> HIDE DEF Window
  <2> QED
    BY <2>1, <2>3, <2>4
<1>7. \A key \in Keys :
        /\ row[key] \in AttemptRow /\ row'[key] \in AttemptRow /\ row'[key].since = row[key].since
        /\ row'[key].there <=> row[key].there
        /\ row'[key].attempts = IF Open(key) /\ row[key].attempts # 0 THEN row[key].attempts - 1 ELSE row[key].attempts
  <2> SUFFICES ASSUME NEW key \in Keys
               PROVE  /\ row[key] \in AttemptRow /\ row'[key] \in AttemptRow /\ row'[key].since = row[key].since
                      /\ row'[key].there <=> row[key].there
                      /\ row'[key].attempts = IF Open(key) /\ row[key].attempts # 0 THEN row[key].attempts - 1 ELSE row[key].attempts
    OBVIOUS
  <2>1. row[key] \in AttemptRow /\ row[key].attempts \in Nat
    BY DEF LimiterInv, LimiterTypes, AttemptRow
  <2>2. PICK n \in Nat : n = IF row[key].attempts = 0 THEN 0 ELSE row[key].attempts - 1
    BY <2>1
  <2>3. row'[key] = IF Open(key) THEN [row[key] EXCEPT !.attempts = n] ELSE row[key]
    BY <1>3, <2>2
  <2>4. PICK x : x = [row[key] EXCEPT !.attempts = n]
    OBVIOUS
  <2>5. x \in AttemptRow /\ x.since = row[key].since /\ x.attempts = n
    BY <2>1, <2>4 DEF AttemptRow
  <2>6. x.there = row[key].there
    BY <2>1, <2>4 DEF AttemptRow
  <2>7. CASE Open(key)
    <3>1. row'[key] = x
      BY <2>3, <2>4, <2>7
    <3>2. row'[key].attempts = IF Open(key) /\ row[key].attempts # 0 THEN row[key].attempts - 1 ELSE row[key].attempts
      BY <2>2, <2>5, <2>7, <3>1
    <3> QED
      BY <2>1, <2>5, <2>6, <3>1, <3>2
  <2>8. CASE ~Open(key)
    BY <2>1, <2>3, <2>8
  <2> QED
    BY <2>7, <2>8
<1>8. \A key \in Keys, t \in Moments :
        /\ kept'[key][t] = kept[key][t] - IF Holds(r, key, t) THEN 1 ELSE 0
        /\ carried'[key][t] = carried[key][t] + IF Open(key) /\ t = row[key].since /\ ~Holds(r, key, t) THEN 1 ELSE 0
  BY <1>3, <1>6
<1>9. row' \in [Keys -> AttemptRow] /\ kept' \in [Keys -> [Moments -> Int]] /\ carried' \in [Keys -> [Moments -> Nat]]
  <2>1. row' \in [Keys -> AttemptRow]
    <3>1. row' = [key \in Keys |-> row'[key]]
      BY <1>3
    <3> QED
      BY <1>7, <3>1
  <2>2. \A key \in Keys, t \in Moments : kept[key][t] \in Int /\ carried[key][t] \in Nat
    BY DEF LimiterInv, LimiterTypes
  <2>3. \A key \in Keys, t \in Moments : kept'[key][t] \in Int /\ carried'[key][t] \in Nat
    BY <1>8, <2>2
  <2>4. kept' = [key \in Keys |-> [t \in Moments |-> kept'[key][t]]]
    BY <1>3
  <2>5. carried' = [key \in Keys |-> [t \in Moments |-> carried'[key][t]]]
    BY <1>3
  <2>6. kept' \in [Keys -> [Moments -> Int]]
    BY <2>3, <2>4
  <2>7. carried' \in [Keys -> [Moments -> Nat]]
    BY <2>3, <2>5
  <2> QED
    BY <2>1, <2>6, <2>7
<1>10. LimiterTypes'
  <2>1. DOMAIN request' = Requests /\ \A x \in Requests : RequestOK(request'[x])
    BY <1>3, <1>4, <1>5, RequestStep DEF LimiterInv
  <2> QED
    BY <1>3, <1>7, <1>9, <2>1 DEF LimiterInv, LimiterTypes
<1>11. ASSUME NEW key \in Keys, NEW t \in Moments PROVE Balanced(key, t)'
  <2>1. PICK S \in SUBSET Requests : S = Holders(key, t)
    BY DEF Holders
  <2>2. PICK T : T = (Holders(key, t))'
    OBVIOUS
  <2>3. T = S \ {q}
    <3>1. request' = [request EXCEPT ![q] = p]
      BY <1>3, <1>4
    <3>2. (Holders(key, t))' = Holders(key, t) \ {q}
      BY <1>5, <3>1, RequestStep DEF LimiterInv
    <3> QED
      BY <2>1, <2>2, <3>2
  <2>4. q \in S <=> Holds(r, key, t)
    BY <1>1, <2>1 DEF Holders
  <2>5. /\ Cardinality(S) \in Nat /\ Cardinality(T) \in Nat /\ (S = {} => T = {})
        /\ Cardinality(T) = IF Holds(r, key, t) THEN Cardinality(S) - 1 ELSE Cardinality(S)
    BY <2>3, <2>4, HoldersCount, FewerHold
  <2>6. wrong[key][t] \in Nat /\ carried[key][t] \in Nat /\ kept[key][t] \in Int /\ row[key].attempts \in Nat
    BY DEF LimiterInv, LimiterTypes, AttemptRow
  <2>7. Balanced(key, t)
    BY DEF LimiterInv
  <2>8. ToCome(key, t)' <=> ToCome(key, t)
    BY <1>3, <1>7 DEF ToCome
  <2>9. ToCome(key, t) => ~Holds(r, key, t)
    BY <2>1, <2>4, <2>7 DEF Balanced
  <2>10. wrong'[key][t] = wrong[key][t]
    BY <1>3
  <2>11. ToCome(key, t) => wrong'[key][t] = 0 /\ T = {} /\ kept'[key][t] = 0
    BY <1>8, <2>1, <2>5, <2>6, <2>7, <2>9, <2>10 DEF Balanced
  <2>12. Cardinality(T) <= kept'[key][t] /\ wrong'[key][t] + Cardinality(T) <= MaxAttempts[key] + carried'[key][t]
    <3>1. wrong[key][t] + Cardinality(S) <= MaxAttempts[key] + carried[key][t] /\ Cardinality(S) <= kept[key][t]
      BY <2>1, <2>7 DEF Balanced
    <3>2. carried'[key][t] \in Nat /\ carried'[key][t] >= carried[key][t] /\ kept'[key][t] = kept[key][t] - IF Holds(r, key, t) THEN 1 ELSE 0
      BY <1>8, <2>6
    <3> QED
      BY <2>5, <2>6, <2>10, <3>1, <3>2, LimiterNaturals
  <2>13. row[key].there /\ row[key].since = t =>
           /\ wrong'[key][t] + Cardinality(T) <= row'[key].attempts + carried'[key][t]
           /\ row'[key].attempts <= kept'[key][t]
    <3> SUFFICES ASSUME row[key].there, row[key].since = t
                 PROVE  /\ wrong'[key][t] + Cardinality(T) <= row'[key].attempts + carried'[key][t]
                        /\ row'[key].attempts <= kept'[key][t]
      OBVIOUS
    <3>1. /\ wrong[key][t] + Cardinality(S) <= row[key].attempts + carried[key][t]
          /\ row[key].attempts <= kept[key][t] /\ Cardinality(S) <= kept[key][t]
      BY <2>1, <2>7 DEF Balanced
    <3>2. CASE Holds(r, key, t)
      <4>1. Open(key)
        BY <1>6, <3>2
      <4>2. carried'[key][t] = carried[key][t] /\ kept'[key][t] = kept[key][t] - 1
        BY <1>8, <2>6, <3>2
      <4>3. row'[key].attempts = IF row[key].attempts # 0 THEN row[key].attempts - 1 ELSE row[key].attempts
        BY <1>7, <4>1
      <4>4. Cardinality(T) = Cardinality(S) - 1
        BY <2>5, <3>2
      <4> QED
        BY <2>5, <2>6, <2>10, <3>1, <4>2, <4>3, <4>4
    <3>3. CASE ~Holds(r, key, t) /\ Open(key)
      <4>1. carried'[key][t] = carried[key][t] + 1 /\ kept'[key][t] = kept[key][t]
        BY <1>8, <2>6, <3>3
      <4>2. row'[key].attempts = IF row[key].attempts # 0 THEN row[key].attempts - 1 ELSE row[key].attempts
        BY <1>7, <3>3
      <4>3. Cardinality(T) = Cardinality(S)
        BY <2>5, <3>3
      <4> QED
        BY <2>5, <2>6, <2>10, <3>1, <4>1, <4>2, <4>3
    <3>4. CASE ~Holds(r, key, t) /\ ~Open(key)
      <4>1. carried'[key][t] = carried[key][t] /\ kept'[key][t] = kept[key][t]
        BY <1>8, <2>6, <3>4
      <4>2. row'[key].attempts = row[key].attempts
        BY <1>7, <3>4
      <4>3. Cardinality(T) = Cardinality(S)
        BY <2>5, <3>4
      <4> QED
        BY <2>5, <2>6, <2>10, <3>1, <4>1, <4>2, <4>3
    <3> QED
      BY <3>2, <3>3, <3>4
  <2> QED
    BY <1>7, <2>2, <2>8, <2>11, <2>12, <2>13 DEF Balanced
<1> QED
  BY <1>10, <1>11 DEF LimiterInv

\* A count: a window that has ended gives way to a new one, and a request over
\* the limit is refused with what it counted.
LEMMA ConsumeInv == ASSUME LimiterInv, NEW q \in Requests, consume(q) PROVE LimiterInv'
<1>1. PICK r : r = request[q]
  OBVIOUS
<1>2. r.op = "consume" /\ RequestOK(r) /\ r \in RequestRow /\ Len(r.windows) < Len(r.rules)
  BY <1>1 DEF consume, LimiterInv, LimiterTypes, RequestOK
<1>3. PICK key0 : key0 = r.rules[Len(r.windows) + 1]
  OBVIOUS
<1>4. /\ key0 \in Keys /\ r.rules \in Seq(Keys) /\ r.windows \in Seq(Moments) /\ Len(r.windows) \in Nat
      /\ Len(r.windows) + 1 \in DOMAIN r.rules
  <2>1. r.rules \in Seq(Keys) /\ r.windows \in Seq(Moments)
    BY <1>2 DEF RequestRow
  <2>2. Len(r.windows) \in Nat /\ Len(r.rules) \in Nat /\ Len(r.windows) + 1 \in DOMAIN r.rules
    BY <1>2, <2>1
  <2> QED
    BY <1>3, <2>1, <2>2
<1>5. PICK c : c = Counted(key0)
  OBVIOUS
<1> DEFINE Ended == ~row[key0].there \/ row[key0].since + WindowTime <= clock
<1>6. row[key0] \in AttemptRow /\ row[key0].attempts \in Nat /\ row[key0].since \in Moments /\ clock \in Moments
  BY <1>4 DEF LimiterInv, LimiterTypes, AttemptRow
<1>7. /\ c \in AttemptRow /\ c.there /\ c.since \in Moments /\ c.attempts \in Nat
      /\ Ended => c.since = clock /\ c.attempts = 1
      /\ ~Ended => row[key0].there /\ c.since = row[key0].since /\ c.attempts = row[key0].attempts + 1
  <2>1. CASE Ended
    <3>1. c = [there |-> TRUE, attempts |-> 1, since |-> clock]
      BY <1>5, <2>1 DEF Counted
    <3> QED
      BY <1>6, <2>1, <3>1 DEF AttemptRow
  <2>2. CASE ~Ended
    <3>1. c = [row[key0] EXCEPT !.attempts = row[key0].attempts + 1]
      BY <1>5, <2>2 DEF Counted
    <3>2. c \in AttemptRow /\ c.since = row[key0].since /\ c.attempts = row[key0].attempts + 1
      BY <1>6, <3>1 DEF AttemptRow
    <3>3. c.there = row[key0].there
      BY <1>6, <3>1 DEF AttemptRow
    <3> QED
      BY <1>6, <2>2, <3>2, <3>3
  <2> QED
    BY <2>1, <2>2
<1>8. PICK t0 \in Moments : t0 = c.since
  BY <1>7
<1>9. PICK p : p = IF c.attempts > MaxAttempts[key0] THEN NoRequest
                   ELSE [op |-> IF Len(Append(r.windows, t0)) = Len(r.rules) THEN "check" ELSE "consume",
                         rules |-> r.rules, windows |-> Append(r.windows, t0)]
  OBVIOUS
<1>10. /\ row' = [row EXCEPT ![key0] = c] /\ kept' = [kept EXCEPT ![key0][t0] = kept[key0][t0] + 1]
       /\ UNCHANGED <<clock, wrong, carried>>
  BY ZenonT(60), <1>1, <1>3, <1>5, <1>8 DEF consume
<1>11. request' = [request EXCEPT ![q] = p]
  BY <1>1, <1>3, <1>5, <1>8, <1>9 DEF consume
<1>12. RequestOK(p) /\ \A key, t : Holds(p, key, t) =>
         Holds(r, key, t) \/ (key = key0 /\ t = t0 /\ c.attempts <= MaxAttempts[key0])
  <2>1. CASE c.attempts > MaxAttempts[key0]
    BY <1>9, <2>1, NoRequestOK
  <2>2. CASE ~(c.attempts > MaxAttempts[key0])
    <3>1. PICK w : w = Append(r.windows, t0)
      OBVIOUS
    <3>2. w \in Seq(Moments) /\ Len(w) = Len(r.windows) + 1 /\ DOMAIN w = 1..(Len(r.windows) + 1)
      BY <1>4, <3>1
    <3>3. (\A i \in 1..Len(r.windows) : w[i] = r.windows[i]) /\ w[Len(r.windows) + 1] = t0
      BY <1>4, <3>1
    <3>4. p = [op |-> IF Len(w) = Len(r.rules) THEN "check" ELSE "consume", rules |-> r.rules, windows |-> w]
      BY <1>9, <2>2, <3>1
    <3>5. /\ p.op = IF Len(w) = Len(r.rules) THEN "check" ELSE "consume"
          /\ p.rules = r.rules /\ p.windows = w
      BY <3>4
    <3>6. p \in RequestRow
      BY <1>4, <3>2, <3>4 DEF RequestRow
    <3>7. Len(r.rules) \in Nat /\ Len(w) <= Len(r.rules)
      BY <1>2, <1>4, <3>2
    <3>8. RequestOK(p)
      BY <1>2, <3>2, <3>5, <3>6, <3>7, <1>4 DEF RequestOK
    <3>9. ASSUME NEW key, NEW t, Holds(p, key, t) PROVE Holds(r, key, t) \/ (key = key0 /\ t = t0)
      <4>1. PICK i \in DOMAIN w : r.rules[i] = key /\ w[i] = t
        BY <3>5, <3>9 DEF Holds
      <4>2. CASE i = Len(r.windows) + 1
        BY <1>3, <3>3, <4>1, <4>2
      <4>3. CASE i # Len(r.windows) + 1
        <5>1. i \in 1..Len(r.windows) /\ i \in DOMAIN r.windows
          BY <1>4, <3>2, <4>1, <4>3
        <5> QED
          BY <1>2, <3>3, <4>1, <5>1 DEF Holds
      <4> QED
        BY <4>2, <4>3
    <3>10. c.attempts <= MaxAttempts[key0]
      BY <1>4, <1>7, <2>2, LimiterNaturals
    <3> QED
      BY <3>8, <3>9, <3>10
  <2> QED
    BY <2>1, <2>2
<1>13. \A key \in Keys, t \in Moments :
         kept[key][t] \in Int /\ kept'[key][t] = IF key = key0 /\ t = t0 THEN kept[key][t] + 1 ELSE kept[key][t]
  BY <1>4, <1>10 DEF LimiterInv, LimiterTypes
<1>14. kept' \in [Keys -> [Moments -> Int]]
  <2>1. kept \in [Keys -> [Moments -> Int]]
    BY DEF LimiterInv, LimiterTypes
  <2>2. PICK m : m = [kept[key0] EXCEPT ![t0] = kept[key0][t0] + 1]
    OBVIOUS
  <2>3. m \in [Moments -> Int]
    BY <1>4, <1>8, <2>1, <2>2
  <2>4. kept' = [kept EXCEPT ![key0] = m]
    BY <1>10, <2>2
  <2> QED
    BY <1>4, <2>1, <2>3, <2>4
<1>15. row' \in [Keys -> AttemptRow] /\ row'[key0] = c /\ \A key \in Keys : key # key0 => row'[key] = row[key]
  BY <1>4, <1>7, <1>10 DEF LimiterInv, LimiterTypes
<1>16. c.since <= clock
  BY SMTT(40), <1>4, <1>6, <1>7, LimiterNaturals DEF LimiterInv, LimiterTypes
<1>17. LimiterTypes'
  <2>1. DOMAIN request' = Requests /\ \A x \in Requests : RequestOK(request'[x])
    BY <1>11, <1>12, RequestStep DEF LimiterInv
  <2>2. \A key \in Keys : row'[key].there => row'[key].since <= clock
    BY <1>15, <1>16 DEF LimiterInv, LimiterTypes
  <2> QED
    BY <1>10, <1>14, <1>15, <2>1, <2>2 DEF LimiterInv, LimiterTypes
<1>18. ASSUME NEW key \in Keys, NEW t \in Moments PROVE Balanced(key, t)'
  <2>1. PICK S \in SUBSET Requests : S = Holders(key, t)
    BY DEF Holders
  <2>2. PICK T : T = (Holders(key, t))'
    OBVIOUS
  <2>3. \/ T = S \/ T = S \ {q}
        \/ T = S \cup {q} /\ key = key0 /\ t = t0 /\ c.attempts <= MaxAttempts[key0]
    <3>1. CASE Holds(p, key, t)
      <4>1. T = S \cup {q}
        <5>1. RequestOK(p) /\ LimiterTypes
          BY <1>12 DEF LimiterInv
        <5>2. /\ DOMAIN request' = Requests /\ \A x \in Requests : RequestOK(request'[x])
              /\ Holds(p, key, t) => (Holders(key, t))' = Holders(key, t) \cup {q}
              /\ ~Holds(p, key, t) => (Holders(key, t))' = Holders(key, t) \ {q}
          BY ZenonT(60), <1>11, <5>1, RequestStep
        <5> QED
          BY <2>1, <2>2, <3>1, <5>2
      <4>2. Holds(r, key, t) => T = S
        BY <1>1, <2>1, <4>1 DEF Holders
      <4> QED
        BY <1>12, <3>1, <4>1, <4>2
    <3>2. CASE ~Holds(p, key, t)
      <4>1. RequestOK(p) /\ LimiterTypes
        BY <1>12 DEF LimiterInv
      <4>2. (Holders(key, t))' = Holders(key, t) \ {q}
        BY ZenonT(60), <1>11, <3>2, <4>1, RequestStep
      <4> QED
        BY <2>1, <2>2, <4>2
    <3> QED
      BY <3>1, <3>2
  <2>4. /\ wrong[key][t] \in Nat /\ carried[key][t] \in Nat /\ kept[key][t] \in Int /\ row[key].attempts \in Nat
        /\ row[key].since \in Nat /\ clock \in Nat /\ t \in Nat /\ t0 \in Nat /\ MaxAttempts[key] \in Nat
    BY LimiterNaturals DEF LimiterInv, LimiterTypes, AttemptRow
  <2>5. Balanced(key, t)
    BY DEF LimiterInv
  <2>6. wrong'[key][t] = wrong[key][t] /\ carried'[key][t] = carried[key][t] /\ clock' = clock
    BY <1>10
  <2>7. CASE key = key0 /\ t = t0
    <3>1. Cardinality(S) \in Nat /\ Cardinality(T) \in Nat /\ Cardinality(T) <= Cardinality(S) + 1
      <4>1. /\ Cardinality(S) \in Nat
            /\ Cardinality(S \cup {q}) = IF q \in S THEN Cardinality(S) ELSE Cardinality(S) + 1
        BY HoldersCount
      <4>2. T = S \/ T = S \ {q} => Cardinality(T) \in Nat /\ Cardinality(T) <= Cardinality(S)
        BY FewerHold
      <4> QED
        BY <2>3, <4>1, <4>2
    <3>2. c.attempts > MaxAttempts[key0] => Cardinality(T) <= Cardinality(S)
      <4> SUFFICES ASSUME c.attempts > MaxAttempts[key0] PROVE Cardinality(T) <= Cardinality(S)
        OBVIOUS
      <4>1. T = S \/ T = S \ {q}
        BY <1>7, <2>3, <2>4
      <4> QED
        BY <4>1, FewerHold
    <3>3. kept'[key][t] = kept[key][t] + 1 /\ row'[key] = c /\ c.since = t /\ c.there
      BY <1>7, <1>8, <1>13, <1>15, <2>7
    <3>4. ~(ToCome(key, t)')
      BY <2>4, <3>3 DEF ToCome
    <3>5. CASE Ended
      <4>1. t = clock /\ c.attempts = 1
        BY <1>7, <1>8, <2>7, <3>5
      <4>2. ToCome(key, t)
        BY <2>4, <2>7, <3>5, <4>1, LimiterAssumption DEF ToCome
      <4>3. wrong[key][t] = 0 /\ Cardinality(S) = 0 /\ kept[key][t] = 0
        BY <2>1, <2>5, <4>2, HoldersCount DEF Balanced
      <4>4. /\ wrong'[key][t] + Cardinality(T) <= MaxAttempts[key] + carried'[key][t]
            /\ Cardinality(T) <= kept'[key][t]
            /\ wrong'[key][t] + Cardinality(T) <= c.attempts + carried'[key][t]
            /\ c.attempts <= kept'[key][t]
        BY <2>4, <2>6, <2>7, <3>1, <3>2, <3>3, <4>1, <4>3
      <4> QED
        BY <2>2, <3>3, <3>4, <4>4 DEF Balanced
    <3>6. CASE ~Ended
      <4>1. row[key].there /\ row[key].since = t /\ c.attempts = row[key].attempts + 1
        BY <1>7, <1>8, <2>7, <3>6
      <4>2. /\ wrong[key][t] + Cardinality(S) <= row[key].attempts + carried[key][t] /\ row[key].attempts <= kept[key][t]
            /\ wrong[key][t] + Cardinality(S) <= MaxAttempts[key] + carried[key][t] /\ Cardinality(S) <= kept[key][t]
        BY <2>1, <2>5, <4>1 DEF Balanced
      <4>3. /\ wrong'[key][t] + Cardinality(T) <= MaxAttempts[key] + carried'[key][t]
            /\ Cardinality(T) <= kept'[key][t]
            /\ wrong'[key][t] + Cardinality(T) <= c.attempts + carried'[key][t]
            /\ c.attempts <= kept'[key][t]
        BY <2>4, <2>6, <2>7, <3>1, <3>2, <3>3, <4>1, <4>2
      <4> QED
        BY <2>2, <3>3, <3>4, <4>3 DEF Balanced
    <3> QED
      BY <3>5, <3>6
  <2>8. CASE ~(key = key0 /\ t = t0)
    <3>1. Cardinality(S) \in Nat /\ Cardinality(T) \in Nat /\ Cardinality(T) <= Cardinality(S) /\ (S = {} => T = {})
      BY <2>3, <2>8, FewerHold
    <3>2. kept'[key][t] = kept[key][t]
      BY <1>13, <2>8
    <3>3. row'[key].there /\ row'[key].since = t => row'[key] = row[key]
      BY <1>8, <1>15, <2>8
    <3>4. ToCome(key, t)' => ToCome(key, t)
      <4>1. CASE key # key0
        BY <1>10, <1>15, <4>1 DEF ToCome
      <4>2. CASE key = key0
        <5>1. ToCome(key, t)' => t > c.since
          BY <1>7, <1>15, <4>2 DEF ToCome
        <5>2. CASE Ended
          <6>1. c.since = clock
            BY <1>7, <5>2
          <6>2. row[key].there => row[key].since <= clock
            BY DEF LimiterInv, LimiterTypes
          <6> QED
            BY <2>4, <5>1, <6>1, <6>2 DEF ToCome
        <5>3. CASE ~Ended
          BY <1>7, <4>2, <5>1, <5>3 DEF ToCome
        <5> QED
          BY <5>2, <5>3
      <4> QED
        BY <4>1, <4>2
    <3> QED
      BY <2>1, <2>2, <2>4, <2>5, <2>6, <3>1, <3>2, <3>3, <3>4 DEF Balanced
  <2> QED
    BY <2>7, <2>8
<1> QED
  BY SMTT(40), <1>17, <1>18 DEF LimiterInv

\* The invariant holds of every reachable state, for any rules and limits and
\* any number of sign-ins in flight.
THEOREM LimiterInvariance == LimiterSpec => []LimiterInv
<1>1. LimiterInit => LimiterInv
  BY LimiterStart
<1>2. LimiterInv /\ [LimiterNext]_limiterVars => LimiterInv'
  <2> SUFFICES ASSUME LimiterInv, [LimiterNext]_limiterVars PROVE LimiterInv'
    OBVIOUS
  <2>1. CASE \/ TimePasses
             \/ \E q \in Requests, c \in Clients : SignIn(q, c)
             \/ \E q \in Requests : RightSecret(q) \/ Abandon(q)
    BY <2>1, LimiterQuiet
  <2>2. ASSUME NEW q \in Requests, consume(q) PROVE LimiterInv'
    BY <2>2, ConsumeInv
  <2>3. ASSUME NEW q \in Requests, WrongSecret(q) PROVE LimiterInv'
    BY <2>3, WrongInv
  <2>4. ASSUME NEW q \in Requests, refund(q) PROVE LimiterInv'
    BY <2>4, RefundInv
  <2>5. ASSUME NEW q \in Requests, purge(q) PROVE LimiterInv'
    BY <2>5, PurgeInv
  <2>6. CASE UNCHANGED limiterVars
    <3>1. UNCHANGED <<clock, row, request, wrong, kept, carried>>
      BY <2>6 DEF limiterVars
    <3>2. LimiterTypes'
      BY <3>1 DEF LimiterInv, LimiterTypes
    <3>3. \A key \in Keys, t \in Moments : Balanced(key, t)'
      BY <3>1 DEF LimiterInv, Balanced, Holders, ToCome
    <3> QED
      BY <3>2, <3>3 DEF LimiterInv
  <2> QED
    BY <2>1, <2>2, <2>3, <2>4, <2>5, <2>6 DEF LimiterNext
<1> QED
  BY <1>1, <1>2, PTL DEF LimiterSpec

\* However many sign-ins run at once, whatever windows end between a count and
\* its answer, and wherever a request stops: wrong secrets stay within the limit
\* of their window and what right ones carried into it, and a counter never
\* holds more than the attempts that were not given back (consume, refund).
THEOREM ThrottleIsFair == LimiterSpec => []LimitIsFair
<1>1. ASSUME LimiterInv PROVE LimitIsFair
  <2>1. ASSUME NEW key \in Keys, NEW t \in Moments PROVE wrong[key][t] <= MaxAttempts[key] + carried[key][t]
    <3>1. Holders(key, t) \in SUBSET Requests
      BY DEF Holders
    <3>2. Cardinality(Holders(key, t)) \in Nat
      BY <3>1, LimiterAssumption, FS_Subset, FS_CardinalityType
    <3>3. wrong[key][t] \in Nat /\ carried[key][t] \in Nat
      BY <1>1 DEF LimiterInv, LimiterTypes
    <3>4. wrong[key][t] + Cardinality(Holders(key, t)) <= MaxAttempts[key] + carried[key][t]
      BY <1>1 DEF LimiterInv, Balanced
    <3> QED
      BY <3>2, <3>3, <3>4, LimiterNaturals
  <2>2. ASSUME NEW key \in Keys, row[key].there PROVE row[key].attempts <= kept[key][row[key].since]
    <3>1. row[key].since \in Moments
      BY <1>1 DEF LimiterInv, LimiterTypes, AttemptRow
    <3> QED
      BY <1>1, <2>2, <3>1 DEF LimiterInv, Balanced
  <2> QED
    BY <2>1, <2>2 DEF LimitIsFair, GuessesBounded, CountersHoldFailures
<1> QED
  BY <1>1, LimiterInvariance, PTL

=============================================================================
