----------------------------- MODULE Credentials ----------------------------
(***************************************************************************)
(* StsCredentialsProviderImpl: temporary credentials of a RAM role,        *)
(* fetched when those at hand have expired.  Time is minutes of one day of *)
(* HoursPerDay * MinutesPerHour; the format of the expiration names the    *)
(* hour twice and the minute never.                                        *)
(***************************************************************************)
EXTENDS Naturals

CONSTANTS HoursPerDay, MinutesPerHour, Caller

ASSUME CredentialsConstants ==
  HoursPerDay \in Nat \ {0} /\ MinutesPerHour \in Nat /\ MinutesPerHour > HoursPerDay

DayEnd == HoursPerDay * MinutesPerHour

VARIABLES
  now,
  expiration,   \* expiration_ as stored, zero at first
  validUntil,   \* when the stored credentials really expire
  calling,      \* per caller of getCredentials: "none", "refresh" or "read"
  asked,        \* when the call began
  outcome,      \* how its refresh ended: "none", "stored" or "failed"
  served        \* the real expiration of what it returned

credentialsVars == <<now, expiration, validUntil, calling, asked, outcome, served>>

Time == 0 .. DayEnd

CredentialsTypeOK ==
  /\ now \in Time /\ expiration \in Time /\ validUntil \in Time
  /\ calling \in [Caller -> {"none", "refresh", "read"}]
  /\ outcome \in [Caller -> {"none", "stored", "failed"}]
  /\ asked \in [Caller -> Time] /\ served \in [Caller -> Time]

CredentialsInit ==
  /\ now = 1 /\ expiration = 0 /\ validUntil = 0
  /\ calling = [c \in Caller |-> "none"] /\ asked = [c \in Caller |-> 0]
  /\ outcome = [c \in Caller |-> "none"] /\ served = [c \in Caller |-> DayEnd]

clockTicks ==
  /\ now < DayEnd /\ now' = now + 1
  /\ UNCHANGED <<expiration, validUntil, calling, asked, outcome, served>>

(* absl::ParseTime with "%H:%H": the minutes are taken for the hour, which *)
(* fails when there are too many of them.                                  *)
Parses(instant) == instant % MinutesPerHour < HoursPerDay
ParseTime(instant) == (instant % MinutesPerHour) * MinutesPerHour

neverRefreshes(c) ==              \* mutant: what is at hand is returned though it has expired
  /\ calling[c] = "none"
  /\ calling' = [calling EXCEPT ![c] = "read"]
  /\ asked' = [asked EXCEPT ![c] = now] /\ outcome' = [outcome EXCEPT ![c] = "none"]
  /\ UNCHANGED <<now, expiration, validUntil, served>>

(* The expiration is read without the lock. *)
getCredentials(c) ==
  /\ calling[c] = "none"
  /\ calling' = [calling EXCEPT ![c] = IF now >= expiration THEN "refresh" ELSE "read"]
  /\ asked' = [asked EXCEPT ![c] = now] /\ outcome' = [outcome EXCEPT ![c] = "none"]
  /\ UNCHANGED <<now, expiration, validUntil, served>>

(* refresh(): the answer is a new set of credentials, or an error.  All    *)
(* fields are replaced together, or none if the expiration does not parse. *)
refreshAnswered(c, instant, ok) ==
  LET stored == ok /\ Parses(instant)
  IN  /\ calling[c] = "refresh" /\ instant > now
      /\ calling' = [calling EXCEPT ![c] = "read"]
      /\ outcome' = [outcome EXCEPT ![c] = IF stored THEN "stored" ELSE "failed"]
      /\ expiration' = IF stored THEN ParseTime(instant) ELSE expiration
      /\ validUntil' = IF stored THEN instant ELSE validUntil
      /\ UNCHANGED <<now, asked, served>>

getCredentialsReturns(c) ==
  /\ calling[c] = "read"
  /\ calling' = [calling EXCEPT ![c] = "none"]
  /\ served' = [served EXCEPT ![c] = validUntil]
  /\ UNCHANGED <<now, expiration, validUntil, asked, outcome>>

CredentialsNext ==
  \/ clockTicks
  \/ \E c \in Caller :
       \/ getCredentials(c) \/ getCredentialsReturns(c)
       \/ \E instant \in Time, ok \in BOOLEAN : refreshAnswered(c, instant, ok)

-----------------------------------------------------------------------------
(* Properties. *)

(* A call returns credentials that had expired when it began only if its   *)
(* own refresh failed, or if minutes above the hour made the credentials   *)
(* look valid longer than they are.                                        *)
CredentialsInv ==
  /\ CredentialsTypeOK
  /\ \A c \in Caller :
       calling[c] = "none" /\ served[c] <= asked[c]
         => outcome[c] = "failed" \/ ParseTime(served[c]) > served[c]
=============================================================================
