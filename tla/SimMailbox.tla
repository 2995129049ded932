----------------------------- MODULE SimMailbox -----------------------------
(***************************************************************************)
(* The mailbox between POST /api/sim (hal/web.cpp, on the one task         *)
(* async_tcp) and the engine simulator in the task of the sampler          *)
(* (hal/sampler.cpp): the handler takes a copy of the parameters, changes  *)
(* the keys it was given (core/sim_api.h) and leaves the result, in two    *)
(* holds of g_sim_mutex; the sampler takes it with a try-lock at the start *)
(* of a period and configures the simulator (core/engine_sim.h).           *)
(*                                                                         *)
(* Of the simulator only the speed counts here: where it was anchored and  *)
(* the samples since are represented by the speed it has reached.  The     *)
(* parameters are four: the speed asked for, the drift, the engine, and    *)
(* "depth" for all those that only shape the wave.                         *)
(***************************************************************************)
EXTENDS Integers, TLC

CONSTANTS
  RpmMin, RpmMax,  \* kRpmMin, kRpmMax
  Nominal,         \* the parameters the simulator is made with
  Forms,           \* the requests: from the names of some keys to values
  MaxPosts         \* a bound on the requests

VARIABLES
  params,    \* p_ of the simulator
  now,       \* the speed of its next sample
  fresh,     \* fresh_
  pending,   \* g_sim_pending
  next,      \* g_sim_next and g_sim_next_rpm_set
  current,   \* g_sim_current
  mutex,     \* does the handler hold g_sim_mutex?
  handler,   \* what POST /api/sim is at, its form and its copy
  posts,     \* how many requests have come
  asked,     \* for the properties: of every key the value last asked for
  alone      \* for the properties: did the last request find none waiting?

simvars == <<params, now, fresh>>
vars == <<params, now, fresh, pending, next, current, mutex, handler, posts, asked, alone>>

Keys == {"rpm", "drift", "on", "depth"}
Params == [Keys -> Int]

ASSUME MailboxAssumption ==
  /\ RpmMin \in Int /\ RpmMax \in Int /\ MaxPosts \in Nat
  /\ Nominal \in Params /\ Nominal.rpm \in RpmMin .. RpmMax
  /\ \A form \in Forms : \A key \in DOMAIN form : form[key] \in Int

-----------------------------------------------------------------------------
(* The simulator. *)

clampRpm(r) == IF r < RpmMin THEN RpmMin ELSE IF r > RpmMax THEN RpmMax ELSE r

(* The speed after a sample: switched off, the engine keeps its speed. *)
Advanced(p, speed) == IF p.on = 1 THEN clampRpm(speed + p.drift) ELSE speed

(* What configure makes of the parameters and of the speed.  A speed that  *)
(* is posted, or differs from the last one, is taken; a changed drift      *)
(* starts from the speed of the moment, which becomes the one asked for.   *)
(* Variants: the speed of the moment is not written down; a posted speed   *)
(* equal to the last one is overlooked.                                    *)
ConfiguredUnwritten(p, rpmSet) ==
  IF fresh \/ rpmSet \/ p.rpm # params.rpm THEN <<p, clampRpm(p.rpm)>> ELSE <<p, now>>
ConfiguredUnset(p, rpmSet) ==
  IF fresh \/ p.rpm # params.rpm THEN <<p, clampRpm(p.rpm)>>
  ELSE IF p.drift # params.drift THEN <<[p EXCEPT !.rpm = now], now>> ELSE <<p, now>>
Configured(p, rpmSet) ==
  IF fresh \/ rpmSet \/ p.rpm # params.rpm THEN <<p, clampRpm(p.rpm)>>
  ELSE IF p.drift # params.drift THEN <<[p EXCEPT !.rpm = now], now>> ELSE <<p, now>>

(* One period of the sampler: applyPendingSim, which gives way when the    *)
(* mutex is taken, and the next sample.                                    *)
Apply ==
  LET c == Configured(next.p, next.rpmSet)
  IN /\ pending /\ ~mutex
     /\ params' = c[1]
     /\ now' = Advanced(c[1], c[2])
     /\ fresh' = FALSE
     /\ current' = c[1]
     /\ pending' = FALSE
     /\ UNCHANGED <<next, mutex, handler, posts, asked, alone>>

Sample ==
  /\ ~pending \/ mutex
  /\ now' = Advanced(params, now)
  /\ fresh' = FALSE
  /\ UNCHANGED <<params, pending, next, current, mutex, handler, posts, asked, alone>>

Period == Apply \/ Sample

-----------------------------------------------------------------------------
(* POST /api/sim. *)

Idle == [at |-> "idle"]

(* The request has come; samplerGetSim waits for the mutex. *)
Post(form) ==
  /\ handler = Idle /\ posts < MaxPosts
  /\ handler' = [at |-> "get", form |-> form]
  /\ posts' = posts + 1
  /\ UNCHANGED <<params, now, fresh, pending, next, current, mutex, asked, alone>>

TakeForGet ==
  /\ handler.at = "get" /\ ~mutex
  /\ mutex' = TRUE
  /\ handler' = [handler EXCEPT !.at = "copy"]
  /\ UNCHANGED <<params, now, fresh, pending, next, current, posts, asked, alone>>

(* What samplerGetSim returns: the request not yet applied, if there is    *)
(* one.  Variant: what was applied last, in any case.                      *)
LatestApplied == current
Latest == IF pending THEN next.p ELSE current

Copy ==
  /\ handler.at = "copy"
  /\ mutex' = FALSE
  /\ handler' = [at |-> "form", form |-> handler.form, p |-> Latest]
  /\ alone' = ~pending
  /\ UNCHANGED <<params, now, fresh, pending, next, current, posts, asked>>

(* simSet: values are clamped to the range of their key. *)
Clamped(key, value) ==
  CASE key = "rpm" -> clampRpm(value)
    [] key = "on" -> IF value > 0 THEN 1 ELSE 0
    [] OTHER -> value

(* simApplyForm: all of the form or nothing of it. *)
Acceptable(form) == DOMAIN form \subseteq Keys
Merged(form, p) == [k \in Keys |-> IF k \in DOMAIN form THEN Clamped(k, form[k]) ELSE p[k]]

Refuse ==
  /\ handler.at = "form" /\ ~Acceptable(handler.form)
  /\ handler' = Idle
  /\ UNCHANGED <<params, now, fresh, pending, next, current, mutex, posts, asked, alone>>

(* The form is applied to the copy; samplerSetSim waits for the mutex. *)
Fill ==
  /\ handler.at = "form" /\ Acceptable(handler.form)
  /\ handler' = [handler EXCEPT !.at = "set", !.p = Merged(handler.form, handler.p)]
  /\ UNCHANGED <<params, now, fresh, pending, next, current, mutex, posts, asked, alone>>

TakeForSet ==
  /\ handler.at = "set" /\ ~mutex
  /\ mutex' = TRUE
  /\ handler' = [handler EXCEPT !.at = "leave"]
  /\ UNCHANGED <<params, now, fresh, pending, next, current, posts, asked, alone>>

(* The mutex after the request was left.  Variant: it is kept.             *)
KeptAfterSet == TRUE
GivenAfterSet == FALSE

Leave ==
  /\ handler.at = "leave"
  /\ next' = [p |-> handler.p, rpmSet |-> "rpm" \in DOMAIN handler.form]
  /\ pending' = TRUE
  /\ mutex' = GivenAfterSet
  /\ handler' = Idle
  /\ asked' = [k \in Keys |-> IF k \in DOMAIN handler.form THEN handler.p[k] ELSE asked[k]]
  /\ UNCHANGED <<params, now, fresh, current, posts, alone>>

HandlerStep == TakeForGet \/ Copy \/ Refuse \/ Fill \/ TakeForSet \/ Leave

-----------------------------------------------------------------------------
Init ==
  /\ params = Nominal /\ current = Nominal /\ asked = Nominal
  /\ now = clampRpm(Nominal.rpm)
  /\ fresh = TRUE
  /\ pending = FALSE
  /\ next = [p |-> Nominal, rpmSet |-> FALSE]
  /\ mutex = FALSE
  /\ handler = Idle
  /\ posts = 0
  /\ alone = TRUE

Next == Period \/ HandlerStep \/ \E form \in Forms : Post(form)

(* The sampler is woken every period, and async_tcp carries a handler it   *)
(* has started to its end.                                                 *)
Fairness == WF_vars(Period) /\ WF_vars(HandlerStep)
Spec == Init /\ [][Next]_vars /\ Fairness

-----------------------------------------------------------------------------
(* The speed stays in its range whatever is posted, and a handler that has *)
(* nothing to do does not hold the mutex.                                  *)
TypeOK ==
  /\ now \in RpmMin .. RpmMax /\ params.rpm \in RpmMin .. RpmMax
  /\ params \in Params /\ current \in Params /\ next.p \in Params
  /\ mutex <=> handler.at \in {"copy", "leave"}

(* Every key but the speed has the value last asked for as soon as all     *)
(* requests are applied, whichever of them were still waiting when others  *)
(* came (samplerGetSim, sampler.cpp: "viimeisin asetettu, myös vielä       *)
(* soveltamaton").                                                         *)
KeysKept == ~pending => \A k \in Keys \ {"rpm"} : params[k] = asked[k]

(* With the drift stopped, or before the first sample, GET /api/sim shows  *)
(* the speed the simulator really keeps (engine_sim.h, configure).         *)
ShownIsTrue == ~pending /\ (current.drift = 0 \/ fresh) => current.rpm = now

(* Unless it came while another was waiting, a request with a speed is     *)
(* where the engine goes on from, in the middle of a drift too, and one    *)
(* without leaves the speed the engine has reached: neither a drift that   *)
(* is stopped or started, nor any other key, makes it jump (sim_api.h).    *)
SpeedKept ==
  [][pending /\ ~pending' /\ alone =>
       now' = Advanced(params', IF next.rpmSet THEN next.p.rpm ELSE now)]_vars

(* Every request that was accepted reaches the simulator. *)
PostApplied == pending ~> ~pending
=============================================================================
