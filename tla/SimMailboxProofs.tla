-------------------------- MODULE SimMailboxProofs --------------------------
(***************************************************************************)
(* The mailbox of the simulator, proved for any number of requests with    *)
(* any keys and values, however the sampler falls between their two holds  *)
(* of the mutex.                                                           *)
(***************************************************************************)
EXTENDS SimMailbox, TLAPS

InRange(speed) == speed \in RpmMin .. RpmMax
Good(p) == p \in Params /\ InRange(p.rpm)

LEMMA Constants ==
  RpmMin \in Int /\ RpmMax \in Int /\ RpmMin <= RpmMax /\ Good(Nominal)
BY MailboxAssumption DEF MailboxAssumption, Good, InRange

LEMMA ClampInRange ==
  ASSUME NEW r \in Int
  PROVE  InRange(clampRpm(r)) /\ (InRange(r) => clampRpm(r) = r)
BY Constants DEF clampRpm, InRange

(* The samples keep the speed in its range, and without a drift where it is. *)
LEMMA AdvancedInRange ==
  ASSUME NEW p, Good(p), NEW speed, InRange(speed)
  PROVE  /\ InRange(Advanced(p, speed))
         /\ p.drift = 0 => Advanced(p, speed) = speed
<1>1. speed \in Int /\ p.drift \in Int
  BY Constants DEF Good, InRange, Params, Keys
<1>2. InRange(clampRpm(speed + p.drift))
  BY <1>1, ClampInRange
<1>3. p.drift = 0 => clampRpm(speed + p.drift) = speed
  BY <1>1, ClampInRange
<1> QED
  BY <1>2, <1>3 DEF Advanced

-----------------------------------------------------------------------------
(* Types: what the handler holds at each of its steps. *)
Late == {"form", "set", "leave"}
Held ==
  \/ handler = Idle
  \/ handler \in [at : {"get", "copy"}, form : Forms]
  \/ handler \in [at : Late, form : Forms, p : Params] /\ Good(handler.p)

Typed ==
  /\ Good(params) /\ Good(current) /\ asked \in Params
  /\ next \in [p : Params, rpmSet : BOOLEAN] /\ Good(next.p)
  /\ InRange(now)
  /\ fresh \in BOOLEAN /\ pending \in BOOLEAN /\ mutex \in BOOLEAN /\ alone \in BOOLEAN
  /\ Held
  /\ mutex <=> handler.at \in {"copy", "leave"}

(* The speed of the moment is the one that is shown, unless a drift is on; *)
(* whether a request waits or not.                                         *)
Shown == (params.drift = 0 \/ fresh) => params.rpm = now

(* The keys that are not speeds: the last request, whether it waits or has *)
(* been applied, holds what was asked last, and the handler starts from it. *)
Others == Keys \ {"rpm"}
Kept(p) == \A k \in Others : p[k] = asked[k]
Changed == IF handler.at = "form" THEN {} ELSE DOMAIN handler.form
KeptByAll ==
  /\ params = current
  /\ Kept(IF pending THEN next.p ELSE current)
  /\ handler.at \in Late => \A k \in Others \ Changed : handler.p[k] = asked[k]

(* A request alone starts from the speed the simulator was asked for.      *)
SpeedOfAlone ==
  alone =>
    /\ pending /\ ~next.rpmSet => next.p.rpm = params.rpm
    /\ handler.at \in Late =>
         ~pending /\ ("rpm" \notin Changed => handler.p.rpm = params.rpm)

IInv == Typed /\ Shown /\ KeptByAll /\ SpeedOfAlone

-----------------------------------------------------------------------------
(* What configure makes of a request. *)
LEMMA ConfiguredSound ==
  ASSUME IInv, NEW p, Good(p), NEW rpmSet \in BOOLEAN
  PROVE  LET c == Configured(p, rpmSet)
         IN /\ Good(c[1]) /\ InRange(c[2])
            /\ \A k \in Others : c[1][k] = p[k]
            /\ c[1].drift = 0 => c[1].rpm = c[2]
            /\ rpmSet => c[2] = p.rpm
            /\ ~rpmSet /\ p.rpm = params.rpm => c[2] = now
<1> DEFINE q == [p EXCEPT !.rpm = now]
<1>1. /\ Good(params) /\ InRange(now) /\ InRange(p.rpm) /\ p.rpm \in Int
      /\ clampRpm(p.rpm) = p.rpm
  BY ClampInRange, Constants DEF IInv, Typed, Good, InRange
<1>2. /\ Good(q) /\ q.rpm = now /\ \A k \in Others : q[k] = p[k]
  BY <1>1, Constants DEF Good, Params, Keys, InRange, Others
<1>3. fresh => params.rpm = now
  BY DEF IInv, Shown
<1>4. ~fresh /\ params.drift = 0 => params.rpm = now
  BY DEF IInv, Shown
<1>5. CASE fresh \/ rpmSet \/ p.rpm # params.rpm
  <2>1. Configured(p, rpmSet) = <<p, p.rpm>>
    BY <1>1, <1>5 DEF Configured
  <2> QED
    BY <1>1, <1>3, <1>5, <2>1
<1>6. CASE ~(fresh \/ rpmSet \/ p.rpm # params.rpm) /\ p.drift # params.drift
  <2>1. Configured(p, rpmSet) = <<q, now>>
    BY <1>6 DEF Configured
  <2> HIDE DEF q
  <2> QED
    BY <1>1, <1>2, <1>6, <2>1
<1>7. CASE ~(fresh \/ rpmSet \/ p.rpm # params.rpm) /\ p.drift = params.drift
  <2>1. Configured(p, rpmSet) = <<p, now>>
    BY <1>7 DEF Configured
  <2> QED
    BY <1>1, <1>4, <1>7, <2>1
<1> QED
  BY <1>5, <1>6, <1>7

LEMMA Established == Init => IInv
<1> SUFFICES ASSUME Init PROVE IInv
  OBVIOUS
<1>1. InRange(now) /\ now = params.rpm
  BY ClampInRange, Constants DEF Init, Good, InRange
<1>2. Typed
  BY <1>1, Constants DEF Init, Typed, Good, Held, Idle
<1>3. Shown /\ KeptByAll /\ SpeedOfAlone
  BY <1>1 DEF Init, Shown, KeptByAll, Kept, SpeedOfAlone, Idle, Late
<1> QED
  BY <1>2, <1>3 DEF IInv

LEMMA ApplyKeeps ==
  IInv /\ Apply =>
    /\ IInv'
    /\ alone => now' = Advanced(params', IF next.rpmSet THEN next.p.rpm ELSE now)
<1> SUFFICES ASSUME IInv, Apply
             PROVE  /\ IInv'
                    /\ alone =>
                         now' = Advanced(params', IF next.rpmSet THEN next.p.rpm ELSE now)
  OBVIOUS
<1> DEFINE c == Configured(next.p, next.rpmSet)
           p == c[1]
           s == c[2]
<1>1. /\ params' = p /\ current' = p /\ now' = Advanced(p, s) /\ fresh' = FALSE /\ ~pending'
      /\ pending /\ UNCHANGED <<next, mutex, handler, asked, alone>> /\ pending' = FALSE
  BY DEF Apply
<1>2. Good(next.p) /\ next.rpmSet \in BOOLEAN
  BY DEF IInv, Typed
<1>3. /\ Good(p) /\ InRange(s)
      /\ \A k \in Others : p[k] = next.p[k]
      /\ p.drift = 0 => p.rpm = s
      /\ next.rpmSet => s = next.p.rpm
      /\ ~next.rpmSet /\ next.p.rpm = params.rpm => s = now
  BY <1>2, ConfiguredSound
<1> HIDE DEF p, s, c
<1>4. InRange(now') /\ (p.drift = 0 => now' = s)
  BY <1>1, <1>3, AdvancedInRange
<1>5. Typed'
  BY <1>1, <1>3, <1>4 DEF IInv, Typed, Held, Good, InRange
<1>6. Shown'
  BY <1>1, <1>3, <1>4 DEF Shown
<1>7. KeptByAll'
  BY <1>1, <1>3 DEF IInv, KeptByAll, Kept, Changed
<1>8. SpeedOfAlone'
  BY <1>1 DEF IInv, SpeedOfAlone, Changed
<1>9. alone => s = (IF next.rpmSet THEN next.p.rpm ELSE now)
  BY <1>1, <1>3 DEF IInv, SpeedOfAlone
<1> QED
  BY <1>1, <1>5, <1>6, <1>7, <1>8, <1>9 DEF IInv

LEMMA SampleKeeps == IInv /\ Sample => IInv'
<1> SUFFICES ASSUME IInv, Sample PROVE IInv'
  OBVIOUS
<1>1. InRange(now') /\ (params.drift = 0 => now' = now)
  BY AdvancedInRange DEF IInv, Typed, Sample
<1>2. Typed'
  BY <1>1 DEF IInv, Typed, Sample, Held
<1>3. Shown'
  BY <1>1 DEF IInv, Shown, Sample
<1>4. KeptByAll' /\ SpeedOfAlone'
  BY DEF IInv, KeptByAll, Kept, SpeedOfAlone, Changed, Sample
<1> QED
  BY <1>2, <1>3, <1>4 DEF IInv

(* The form on top of the copy. *)
LEMMA MergedSound ==
  ASSUME NEW form \in Forms, Acceptable(form), NEW p, Good(p)
  PROVE  /\ Good(Merged(form, p))
         /\ \A k \in Keys \ DOMAIN form : Merged(form, p)[k] = p[k]
<1>1. ASSUME NEW k \in Keys, k \in DOMAIN form
      PROVE  Clamped(k, form[k]) \in Int /\ (k = "rpm" => InRange(Clamped(k, form[k])))
  <2>1. form[k] \in Int
    BY <1>1, MailboxAssumption DEF MailboxAssumption
  <2>2. InRange(clampRpm(form[k])) /\ clampRpm(form[k]) \in Int
    BY <2>1, ClampInRange, Constants DEF InRange
  <2> QED
    BY <2>1, <2>2 DEF Clamped
<1> DEFINE m == Merged(form, p)
<1>2. m = [k \in Keys |-> IF k \in DOMAIN form THEN Clamped(k, form[k]) ELSE p[k]]
  BY DEF Merged
<1> HIDE DEF m
<1>3. \A k \in Keys : m[k] = IF k \in DOMAIN form THEN Clamped(k, form[k]) ELSE p[k]
  BY <1>2
<1>4. \A k \in Keys : p[k] \in Int
  BY DEF Good, Params
<1>5. m \in Params
  BY <1>1, <1>2, <1>4 DEF Params
<1>6. InRange(m["rpm"])
  BY <1>1, <1>3 DEF Good, Keys
<1> QED
  BY <1>3, <1>5, <1>6 DEF Good, m

LEMMA HandlerKeeps == IInv /\ (HandlerStep \/ \E form \in Forms : Post(form)) => IInv'
<1> SUFFICES ASSUME IInv, HandlerStep \/ \E form \in Forms : Post(form) PROVE IInv'
  OBVIOUS
<1>1. Held /\ Typed /\ Shown /\ KeptByAll /\ SpeedOfAlone
  BY DEF IInv, Typed
<1>2. CASE \E form \in Forms : Post(form)
  <2>1. PICK form \in Forms : Post(form)
    BY <1>2
  <2>2. Held' /\ handler'.at = "get" /\ handler.at = "idle"
    BY <2>1 DEF Post, Held, Idle
  <2>3. Typed'
    BY <1>1, <2>1, <2>2 DEF Typed, Post, Late
  <2>4. Shown' /\ KeptByAll' /\ SpeedOfAlone'
    BY <1>1, <2>1, <2>2 DEF Post, Shown, KeptByAll, Kept, SpeedOfAlone, Late
  <2> QED
    BY <2>3, <2>4 DEF IInv
<1>3. CASE TakeForGet
  <2>1. Held' /\ handler'.at = "copy"
    BY <1>1, <1>3 DEF TakeForGet, Held, Idle, Late
  <2>2. Typed'
    BY <1>1, <1>3, <2>1 DEF Typed, TakeForGet, Late
  <2>3. Shown' /\ KeptByAll' /\ SpeedOfAlone'
    BY <1>1, <1>3, <2>1 DEF TakeForGet, Shown, KeptByAll, Kept, SpeedOfAlone, Late
  <2> QED
    BY <2>2, <2>3 DEF IInv
<1>4. CASE Copy
  <2>1. Good(Latest)
    BY <1>1 DEF Typed, Latest
  <2>2. handler.form \in Forms
    BY <1>1, <1>4 DEF Copy, Held, Idle, Late
  <2>3. /\ handler' = [at |-> "form", form |-> handler.form, p |-> Latest]
        /\ mutex' = FALSE /\ alone' = ~pending
        /\ UNCHANGED <<params, now, fresh, pending, next, current, asked>>
    BY <1>4 DEF Copy
  <2> HIDE DEF Latest
  <2>4. /\ handler'.at = "form" /\ handler'.p = Latest
        /\ Held' /\ handler' \in [at : Late, form : Forms, p : Params]
    BY <2>1, <2>2, <2>3 DEF Held, Late, Good, InRange
  <2>5. Typed'
    BY <1>1, <2>3, <2>4 DEF Typed, Good, InRange
  <2>6. Shown'
    BY <1>1, <2>3 DEF Shown
  <2>7. KeptByAll'
    BY <1>1, <2>3, <2>4 DEF KeptByAll, Kept, Latest, Changed
  <2>8. SpeedOfAlone'
    BY <1>1, <2>3, <2>4 DEF SpeedOfAlone, KeptByAll, Latest, Typed
  <2> QED
    BY <2>5, <2>6, <2>7, <2>8 DEF IInv
<1>5. CASE Refuse
  <2>1. Held' /\ handler'.at = "idle"
    BY <1>5 DEF Refuse, Held, Idle
  <2>2. Typed'
    BY <1>1, <1>5, <2>1 DEF Typed, Refuse, Late
  <2>3. Shown' /\ KeptByAll' /\ SpeedOfAlone'
    BY <1>1, <1>5, <2>1 DEF Refuse, Shown, KeptByAll, Kept, SpeedOfAlone, Late
  <2> QED
    BY <2>2, <2>3 DEF IInv
<1>6. CASE Fill
  <2>1. handler \in [at : Late, form : Forms, p : Params] /\ Good(handler.p)
    BY <1>1, <1>6 DEF Fill, Held, Idle, Late
  <2> DEFINE m == Merged(handler.form, handler.p)
  <2>2. Good(m) /\ (\A k \in Keys \ DOMAIN handler.form : m[k] = handler.p[k])
    BY <1>6, <2>1, MergedSound DEF Fill
  <2>3. /\ handler' = [handler EXCEPT !.at = "set", !.p = m]
        /\ UNCHANGED <<params, now, fresh, pending, next, current, mutex, asked, alone>>
    BY <1>6 DEF Fill
  <2> HIDE DEF m
  <2>4. /\ handler'.at = "set" /\ handler'.p = m /\ handler'.form = handler.form
        /\ handler' \in [at : Late, form : Forms, p : Params]
    BY <2>1, <2>2, <2>3 DEF Late, Good
  <2>5. Typed'
    BY <1>1, <1>6, <2>2, <2>3, <2>4 DEF Typed, Held, Good, InRange, Fill
  <2>6. handler.at = "form" /\ handler.at \in Late /\ Changed = {}
        /\ Changed' = DOMAIN handler.form
    BY <1>6, <2>4 DEF Fill, Late, Changed
  <2>7. Shown'
    BY <1>1, <2>3 DEF Shown
  <2>8. KeptByAll'
    BY <1>1, <2>2, <2>3, <2>4, <2>6 DEF KeptByAll, Kept, Others
  <2>9. SpeedOfAlone'
    BY <1>1, <2>2, <2>3, <2>4, <2>6 DEF SpeedOfAlone, Keys
  <2> QED
    BY <2>5, <2>7, <2>8, <2>9 DEF IInv
<1>7. CASE TakeForSet
  <2>1. handler \in [at : Late, form : Forms, p : Params] /\ Good(handler.p)
    BY <1>1, <1>7 DEF TakeForSet, Held, Idle, Late
  <2>2. /\ handler' = [handler EXCEPT !.at = "leave"] /\ handler.at = "set" /\ ~mutex
        /\ mutex' = TRUE
        /\ UNCHANGED <<params, now, fresh, pending, next, current, asked, alone>>
    BY <1>7 DEF TakeForSet
  <2>3. /\ handler'.at = "leave" /\ handler'.p = handler.p /\ handler'.form = handler.form
        /\ handler' \in [at : Late, form : Forms, p : Params]
    BY <2>1, <2>2 DEF Late
  <2>4. Typed'
    BY <1>1, <2>1, <2>2, <2>3 DEF Typed, Held, Good, InRange
  <2>5. Changed' = Changed /\ handler.at \in Late
    BY <2>2, <2>3 DEF Changed, Late
  <2>6. Shown' /\ KeptByAll' /\ SpeedOfAlone'
    BY <1>1, <2>2, <2>3, <2>5 DEF Shown, KeptByAll, Kept, SpeedOfAlone
  <2> QED
    BY <2>4, <2>6 DEF IInv
<1>8. CASE Leave
  <2>1. handler \in [at : Late, form : Forms, p : Params] /\ Good(handler.p)
        /\ handler.at = "leave" /\ handler.at \in Late /\ Changed = DOMAIN handler.form
    BY <1>1, <1>8 DEF Leave, Held, Idle, Late, Changed
  <2> DEFINE given == [k \in Keys |-> IF k \in DOMAIN handler.form THEN handler.p[k]
                                      ELSE asked[k]]
  <2>2. /\ next' = [p |-> handler.p, rpmSet |-> "rpm" \in DOMAIN handler.form]
        /\ pending' = TRUE /\ mutex' = FALSE /\ handler' = Idle /\ asked' = given
        /\ UNCHANGED <<params, now, fresh, current, alone>>
    BY <1>8 DEF Leave, GivenAfterSet
  <2>3. given \in Params /\ (\A k \in Others : given[k] = handler.p[k])
    BY <1>1, <2>1 DEF Typed, Good, Params, KeptByAll, Others
  <2> HIDE DEF given
  <2>4. handler'.at = "idle" /\ Held'
    BY <2>2 DEF Idle, Held
  <2>5. next' \in [p : Params, rpmSet : BOOLEAN] /\ next'.p = handler.p
        /\ (~next'.rpmSet => "rpm" \notin Changed)
    <3> DEFINE speed == "rpm" \in DOMAIN handler.form
    <3>1. speed \in BOOLEAN /\ (~speed => "rpm" \notin Changed)
      BY <2>1
    <3>2. next' = [p |-> handler.p, rpmSet |-> speed]
      BY <2>2
    <3> HIDE DEF speed
    <3> QED
      BY <2>1, <3>1, <3>2 DEF Good
  <2>6. Typed'
    BY <1>1, <2>1, <2>2, <2>3, <2>4, <2>5 DEF Typed, Good, InRange
  <2>7. Shown' /\ SpeedOfAlone'
    BY <1>1, <2>1, <2>2, <2>4, <2>5 DEF Shown, SpeedOfAlone, Late
  <2>8. KeptByAll'
    BY <1>1, <2>2, <2>3, <2>4, <2>5 DEF KeptByAll, Kept, Late
  <2> QED
    BY <2>6, <2>7, <2>8 DEF IInv
<1> QED
  BY <1>2, <1>3, <1>4, <1>5, <1>6, <1>7, <1>8 DEF HandlerStep

LEMMA StutterKeeps == IInv /\ UNCHANGED vars => IInv'
BY DEF IInv, Typed, Held, Shown, KeptByAll, Kept, Changed, SpeedOfAlone, vars

LEMMA Inductive == IInv /\ [Next]_vars => IInv'
BY ApplyKeeps, SampleKeeps, HandlerKeeps, StutterKeeps DEF Next, Period

LEMMA Invariant == Spec => []IInv
BY Established, Inductive, PTL DEF Spec

-----------------------------------------------------------------------------
(* Types: whatever is posted, the speed stays in its range, and the mutex  *)
(* is held only by a handler that is copying or leaving its request.       *)
THEOREM Types == Spec => []TypeOK
<1>1. IInv => TypeOK
  BY DEF IInv, Typed, TypeOK, Good, InRange
<1> QED
  BY <1>1, Invariant, PTL

(* No key of a request is lost to a later one that came before it was      *)
(* applied (samplerGetSim returns the request that waits).                 *)
THEOREM NoKeyLost == Spec => []KeysKept
<1>1. IInv => KeysKept
  BY DEF IInv, KeptByAll, Kept, Others, KeysKept
<1> QED
  BY <1>1, Invariant, PTL

(* What GET /api/sim shows of a speed without drift is the speed there is  *)
(* (configure writes the speed of the moment down when the drift changes). *)
THEOREM ShownAlwaysTrue == Spec => []ShownIsTrue
<1>1. IInv => ShownIsTrue
  BY DEF IInv, Shown, KeptByAll, ShownIsTrue
<1> QED
  BY <1>1, Invariant, PTL

(* A request that found none waiting never makes the speed jump: it goes   *)
(* on from the speed posted, or from the one reached.                      *)
THEOREM NoJump == Spec => SpeedKept
<1> DEFINE Smooth == pending /\ ~pending' /\ alone =>
                       now' = Advanced(params', IF next.rpmSet THEN next.p.rpm ELSE now)
<1>1. IInv /\ [Next]_vars => Smooth
  <2>1. IInv /\ Apply => Smooth
    BY ApplyKeeps
  <2>2. Sample \/ HandlerStep \/ UNCHANGED vars \/ (\E form \in Forms : Post(form)) =>
          pending' = pending \/ pending'
    BY DEF Sample, HandlerStep, TakeForGet, Copy, Refuse, Fill, TakeForSet, Leave, Post, vars
  <2> QED
    BY <2>1, <2>2 DEF Next, Period
<1>2. IInv /\ [Next]_vars => [Smooth]_vars
  BY <1>1
<1> QED
  BY <1>2, Invariant, PTL DEF Spec, SpeedKept
=============================================================================
