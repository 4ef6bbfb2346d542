---------------------------- MODULE TagRegistry ----------------------------
(***************************************************************************)
(* What the tag store promises: a set of registered tags, changed by one   *)
(* job at a time.  Registering adds the tag that was presented, at the end *)
(* of the job, and is only begun for a tag that is not registered.         *)
(* Deleting removes the tag that was presented, at the beginning of the    *)
(* job, and is only begun for a tag that is registered.  No other tag ever *)
(* comes or goes.                                                          *)
(***************************************************************************)
CONSTANTS Cards, NoCard

VARIABLES
  registered,   \* the registered tags
  job,          \* "none", "register" or "delete"
  card          \* the tag the job is about

rvars == <<registered, job, card>>

Init == registered = {} /\ job = "none" /\ card = NoCard

BeginRegister(t) ==
  /\ job = "none" /\ t \notin registered
  /\ job' = "register" /\ card' = t
  /\ UNCHANGED registered

EndRegister ==
  /\ job = "register"
  /\ registered' = registered \cup {card}
  /\ job' = "none" /\ card' = NoCard

BeginDelete(t) ==
  /\ job = "none" /\ t \in registered
  /\ registered' = registered \ {t}
  /\ job' = "delete" /\ card' = t

EndDelete ==
  /\ job = "delete"
  /\ job' = "none" /\ card' = NoCard
  /\ UNCHANGED registered

Next ==
  \/ \E t \in Cards : BeginRegister(t) \/ BeginDelete(t)
  \/ EndRegister
  \/ EndDelete

Spec == Init /\ [][Next]_rvars
=============================================================================
