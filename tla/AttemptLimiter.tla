--------------------------- MODULE AttemptLimiter ---------------------------
(***************************************************************************)
(* The one throttle in front of every secret: POS and manager PINs, owner  *)
(* and operator passwords, table PINs (platform/attempt-limiter).  A       *)
(* sign-in counts an attempt against each of its rules, one statement per  *)
(* rule, checks the secret, and gives the attempts back if it was right.   *)
(*                                                                         *)
(* auth_attempts rows are changed by atomic statements; between them other *)
(* requests run, the clock moves and windows end.  A request may stop at   *)
(* any point: the client is gone, the till is revoked, the server dies.    *)
(***************************************************************************)
EXTENDS Integers, Sequences, SequencesExt, FiniteSets, FiniteSetsExt

CONSTANTS
  Clients,
  Rules,         \* the keys of a client's rules, in the order they are counted
  MaxAttempts,   \* attempts a key allows per window
  WindowTime, PurgeTime,  \* length of a window, age at which rows are purged
  Requests,      \* slots for sign-ins in flight
  MaxClock,      \* bound: time
  MaxSignIns     \* bound: sign-ins

Keys == UNION {ToSet(Rules[c]) : c \in Clients}
Moments == 0..MaxClock

ASSUME LimiterAssumption ==
  /\ WindowTime \in Nat \ {0} /\ PurgeTime \in Nat /\ PurgeTime >= WindowTime
  /\ MaxAttempts \in [Keys -> Nat] /\ MaxClock \in Nat /\ MaxSignIns \in Nat
  /\ IsFiniteSet(Requests)
  /\ \A c \in Clients : /\ Rules[c] \in Seq(Keys) /\ Rules[c] # << >>
                        /\ \A i, j \in DOMAIN Rules[c] : Rules[c][i] = Rules[c][j] => i = j

VARIABLES
  clock,     \* now()
  row,       \* auth_attempts
  request,   \* the sign-in in each slot
  signIns,   \* counts towards MaxSignIns
  wrong,     \* history: wrong secrets checked, by key and start of the window
  kept,      \* history: attempts counted and not given back, likewise
  carried    \* history: attempts given back to a later window than they came from

limiterVars == <<clock, row, request, signIns, wrong, kept, carried>>

NoAttempts == [there |-> FALSE, attempts |-> 0, since |-> 0]
NoRequest == [op |-> "none", rules |-> << >>, windows |-> << >>]

LimiterInit ==
  /\ clock = 0
  /\ row = [key \in Keys |-> NoAttempts]
  /\ request = [q \in Requests |-> NoRequest]
  /\ signIns = 0
  /\ wrong = [key \in Keys |-> [t \in Moments |-> 0]]
  /\ kept = wrong
  /\ carried = wrong

TimePasses ==
  /\ clock < MaxClock
  /\ clock' = clock + 1
  /\ UNCHANGED <<row, request, signIns, wrong, kept, carried>>

SignIn(q, c) ==
  /\ request[q].op = "none"
  /\ signIns < MaxSignIns
  /\ signIns' = signIns + 1
  /\ request' = [request EXCEPT ![q] = [op |-> "consume", rules |-> Rules[c], windows |-> << >>]]
  /\ UNCHANGED <<clock, row, wrong, kept, carried>>

\* The upsert: a row whose window has ended starts a new one.
Mut_Counted(key) ==
  IF ~row[key].there \/ row[key].since + WindowTime <= clock
  THEN [there |-> TRUE, attempts |-> 0, since |-> clock]
  ELSE [row[key] EXCEPT !.attempts = @ + 1]

Counted(key) ==
  IF ~row[key].there \/ row[key].since + WindowTime <= clock
  THEN [there |-> TRUE, attempts |-> 1, since |-> clock]
  ELSE [row[key] EXCEPT !.attempts = @ + 1]

\* One turn of the loop in consume().  A refusal keeps what was counted.
consume(q) ==
  LET r == request[q]
      key == r.rules[Len(r.windows) + 1]
      counted == Counted(key)
      windows == Append(r.windows, counted.since)
  IN
  /\ r.op = "consume"
  /\ row' = [row EXCEPT ![key] = counted]
  /\ kept' = [kept EXCEPT ![key][counted.since] = @ + 1]
  /\ request' = [request EXCEPT ![q] =
       IF counted.attempts > MaxAttempts[key] THEN NoRequest
       ELSE [op |-> IF Len(windows) = Len(r.rules) THEN "check" ELSE "consume",
             rules |-> r.rules, windows |-> windows]]
  /\ UNCHANGED <<clock, signIns, wrong, carried>>

WrongSecret(q) ==
  LET r == request[q] IN
  /\ r.op = "check"
  /\ wrong' = [key \in Keys |-> [t \in Moments |->
       wrong[key][t] + IF \E i \in DOMAIN r.rules : r.rules[i] = key /\ r.windows[i] = t THEN 1 ELSE 0]]
  /\ request' = [request EXCEPT ![q] = NoRequest]
  /\ UNCHANGED <<clock, row, signIns, kept, carried>>

RightSecret(q) ==
  /\ request[q].op = "check"
  /\ request' = [request EXCEPT ![q].op = "refund"]
  /\ UNCHANGED <<clock, row, signIns, wrong, kept, carried>>

\* The rows a right secret gives its attempts back to.
GivenBack(r) == ToSet(r.rules)

\* UPDATE, on whatever window a row is in by now.
refund(q) ==
  LET r == request[q]
      window(key) == r.windows[CHOOSE i \in DOMAIN r.rules : r.rules[i] = key]
      open(key) == key \in GivenBack(r) /\ row[key].there
  IN
  /\ r.op = "refund"
  /\ row' = [key \in Keys |->
       IF open(key) THEN [row[key] EXCEPT !.attempts = IF @ = 0 THEN 0 ELSE @ - 1] ELSE row[key]]
  /\ kept' = [key \in Keys |-> [t \in Moments |->
       kept[key][t] - IF key \in ToSet(r.rules) /\ window(key) = t THEN 1 ELSE 0]]
  /\ carried' = [key \in Keys |-> [t \in Moments |->
       carried[key][t] + IF open(key) /\ t = row[key].since /\ window(key) # t THEN 1 ELSE 0]]
  /\ request' = [request EXCEPT ![q].op = "purge"]
  /\ UNCHANGED <<clock, signIns, wrong>>

\* DELETE, in the same call.
purge(q) ==
  /\ request[q].op = "purge"
  /\ row' = [key \in Keys |->
       IF row[key].there /\ row[key].since + PurgeTime < clock THEN NoAttempts ELSE row[key]]
  /\ request' = [request EXCEPT ![q] = NoRequest]
  /\ UNCHANGED <<clock, signIns, wrong, kept, carried>>

Abandon(q) ==
  /\ request[q].op # "none"
  /\ request' = [request EXCEPT ![q] = NoRequest]
  /\ UNCHANGED <<clock, row, signIns, wrong, kept, carried>>

LimiterNext ==
  \/ TimePasses
  \/ \E q \in Requests, c \in Clients : SignIn(q, c)
  \/ \E q \in Requests : \/ consume(q) \/ WrongSecret(q) \/ RightSecret(q)
                         \/ refund(q) \/ purge(q) \/ Abandon(q)

LimiterSpec == LimiterInit /\ [][LimiterNext]_limiterVars

-----------------------------------------------------------------------------
\* However many sign-ins run at once and whatever windows end meanwhile, the
\* wrong secrets that were checked on attempts of one window of a key are no
\* more than its limit, plus what later right answers of an earlier window
\* gave back to it (consume, refund).
GuessesBounded ==
  \A key \in Keys, t \in Moments : wrong[key][t] <= MaxAttempts[key] + carried[key][t]

\* A counter never holds more than the attempts of its window that were not
\* given back: with no sign-in in flight it holds failures only, and right
\* answers do not lock anybody out (refund).
CountersHoldFailures ==
  \A key \in Keys : row[key].there => row[key].attempts <= kept[key][row[key].since]

\* The limit bounds wrong answers, and only wrong answers use it up: both of
\* the above.
LimitIsFair == GuessesBounded /\ CountersHoldFailures
=============================================================================
