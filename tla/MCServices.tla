----------------------------- MODULE MCServices -----------------------------
(***************************************************************************)
(* The services a client stands on, for TLC: the timer, name server        *)
(* discovery, session credentials, the rate limiter, the admin server,     *)
(* message ids, the latency histogram and the logger.  They share no       *)
(* state; a behaviour is one of part's, the others stay in their initial   *)
(* states.                                                                 *)
(***************************************************************************)
EXTENDS Scheduler, NameServer, Credentials, RateLimiter, AdminServer, UniqueId, Histogram, Logging

CONSTANTS a, c, d, v1, v2, d1, junk

VARIABLE part

vars == <<part, schedulerVars, nameServerVars, credentialsVars, rateVars, adminVars, idVars,
          histogramVars, logVars>>

(* Two tasks on the scheduler of one client, one on another's. *)
SchedulerOfValue == [t \in {a, c, d} |-> IF t = d THEN 2 ELSE 1]

BodyValue == {<<v1, v2>>, <<v2, d1>>, <<junk>>}

Init ==
  /\ part \in {"scheduler", "nameServer", "credentials", "rateLimiter", "admin", "id", "histogram",
               "log"}
  /\ SchedulerInit /\ NameServerInit /\ CredentialsInit /\ RateInit /\ AdminInit /\ UniqueIdInit
  /\ HistogramInit /\ LogInit

(* The rest of the process while one part moves. *)
Only(name) ==
  /\ part = name /\ UNCHANGED part
  /\ name # "scheduler" => UNCHANGED schedulerVars
  /\ name # "nameServer" => UNCHANGED nameServerVars
  /\ name # "credentials" => UNCHANGED credentialsVars
  /\ name # "rateLimiter" => UNCHANGED rateVars
  /\ name # "admin" => UNCHANGED adminVars
  /\ name # "id" => UNCHANGED idVars
  /\ name # "histogram" => UNCHANGED histogramVars
  /\ name # "log" => UNCHANGED logVars

Next ==
  \/ Only("scheduler") /\ SchedulerNext
  \/ Only("nameServer") /\ NameServerNext
  \/ Only("credentials") /\ CredentialsNext
  \/ Only("rateLimiter") /\ RateSteps
  \/ Only("admin") /\ AdminNext
  \/ Only("id") /\ UniqueIdNext
  \/ Only("histogram") /\ HistogramNext
  \/ Only("log") /\ LogNext

Spec == Init /\ [][Next]_vars
=============================================================================
