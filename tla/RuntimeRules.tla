----------------------------- MODULE RuntimeRules -----------------------------
(***************************************************************************)
(* Runtime variables, a derived window, an event rule and a polling source *)
(* that feeds them (runtime.py, PollingSource of sources/base.py).         *)
(*                                                                         *)
(* The configuration is one loop: a receiver reports a place (latitude,    *)
(* longitude, and the mode of its fix, which the binding requires); the    *)
(* polling source reads the forecast of that place and publishes the       *)
(* temperature of the air; a derived value is the maximum of the           *)
(* temperature over a window; an event is active when the temperature has  *)
(* been high for some time, and clears when the maximum is low.            *)
(*                                                                         *)
(* Time is discrete.  The model keeps ages instead of timestamps: an age   *)
(* stops where no comparison of the code tells it from a greater one.      *)
(***************************************************************************)
EXTENDS Integers, Sequences

CONSTANTS
  Spot,         (* values of a coordinate                                    *)
  Word,         (* a value that is a scalar and not a number                 *)
  None,         (* no value                                                  *)
  MaxAge,       (* max_age of each binding                                   *)
  Window,       (* seconds of the derived maximum                            *)
  MaxSamples,   (* MAX_WINDOW_SAMPLES                                        *)
  ForSeconds,   (* for_seconds of the event                                  *)
  PollInterval, (* poll_interval, retry_delay and max_retry_delay of the     *)
  RetryDelay,   (* polling source                                            *)
  MaxRetryDelay,
  DependencyWait (* the five seconds it waits for missing telemetry          *)

ASSUME RulesAssumption ==
  /\ MaxAge \in [{"place", "air"} -> Nat \ {0}]
  /\ {Window, MaxSamples, PollInterval, RetryDelay, DependencyWait} \subseteq Nat \ {0}
  /\ ForSeconds \in Nat
  /\ MaxRetryDelay \in Nat /\ MaxRetryDelay >= RetryDelay
  /\ Word \notin {0, 1, None}
  /\ None \notin Nat \cup Spot
  /\ None \notin [latitude : Spot, longitude : Spot] \cup [temperature : {0, 1, Word}]
  /\ None \notin [age : Nat, latitude : Spot, longitude : Spot]
  /\ None \notin [age : Nat, fields : [latitude : Spot, longitude : Spot]
                                    \cup [temperature : {0, 1, Word}]]

VARIABLES
  values,   (* _values: the age and the fields of each group's last report   *)
  history,  (* _history of the temperature: ages and samples                 *)
  pending,  (* pending_since of the event, as an age                         *)
  active,   (* whether the event is active                                   *)
  busy,     (* RuntimePublisher._lock is held between update and the events  *)
  poller,   (* PollingSource.run: what it does, its delay and its next retry *)
  asked,    (* the settings it reads the forecast for                        *)
  report,   (* history: the last place reported, and its age; None when it   *)
            (* was incomplete or rejected                                    *)
  run,      (* history: temperatures accepted since the last that was not    *)
  held,     (* history: age of the first of the high temperatures reported   *)
            (* without another report between them                           *)
  calm      (* history: age of the last high temperature of the run          *)

contextVars == <<values, history>>
eventVars   == <<pending, active>>
pollVars    == <<poller, asked>>
ghostVars   == <<report, run, held, calm>>
rulesVars == <<contextVars, eventVars, busy, pollVars, ghostVars>>

Fields == [place |-> {"latitude", "longitude"}, air |-> {"temperature"}]
Level == {0, 1}

Least(a, b) == IF a < b THEN a ELSE b

(* What the receiver may report; it may lack a field or a fix. *)
PlaceReport ==
  [latitude : Spot, longitude : Spot \cup {None}, mode : {"fix", "none"}]

(* What the forecast may hold. *)
AirReport == [temperature : Level \cup {Word, None}]

-----------------------------------------------------------------------------
(* Binding and RuntimeContext. *)

(* require: mode = fix, for the place. *)
Accepts(g, payload) == g = "place" => payload.mode = "fix"

(* Mutant of extract: the fields that are there are taken. *)
extractPartial(g, payload) ==
  IF Accepts(g, payload) THEN [f \in Fields[g] |-> payload[f]] ELSE None

(* Binding.extract: all the fields of an accepted report, or none. *)
extract(g, payload) ==
  IF Accepts(g, payload) /\ \A f \in Fields[g] : payload[f] # None
  THEN [f \in Fields[g] |-> payload[f]]
  ELSE None

(* Mutant of remember: a rejected report leaves the samples. *)
rememberRejected(g, fields) ==
  IF g = "air" /\ fields # None
  THEN history' = IF fields.temperature \in Level
                  THEN Append(history, [age |-> 0, sample |-> fields.temperature])
                  ELSE << >>
  ELSE UNCHANGED history

(* Mutant of remember: the oldest samples are not evicted, and those that   *)
(* are no number are kept with the others.                                  *)
rememberAll(g, fields) ==
  IF g # "air" THEN UNCHANGED history
  ELSE IF fields = None THEN history' = << >>
  ELSE history' = Append(history, [age |-> 0, sample |-> fields.temperature])

(* The samples of the derived maximum: those of numbers are appended, the   *)
(* oldest give way; a rejected report and a value that is no number end     *)
(* them.                                                                    *)
remember(g, fields) ==
  IF g # "air" THEN UNCHANGED history
  ELSE IF fields = None THEN history' = << >>
  ELSE IF fields.temperature \notin Level THEN history' = << >>
  ELSE LET longer == Append(history, [age |-> 0, sample |-> fields.temperature])
       IN  history' = IF Len(longer) > MaxSamples THEN Tail(longer) ELSE longer

(* What the properties need to know of the reports. *)
Witness(g, payload, fields) ==
  LET number == g = "air" /\ fields # None /\ payload.temperature \in Level
      high   == number /\ payload.temperature = 1
  IN  IF g = "place"
      THEN /\ report' = IF payload.mode = "fix" /\ payload.longitude # None
                        THEN [age |-> 0, latitude |-> payload.latitude,
                              longitude |-> payload.longitude]
                        ELSE None
           /\ UNCHANGED <<run, held, calm>>
      ELSE /\ run' = IF number THEN Least(run + 1, MaxSamples) ELSE 0
           /\ held' = IF ~high THEN None ELSE IF held = None THEN 0 ELSE held
           /\ calm' = IF high THEN 0 ELSE IF number THEN calm ELSE Window + 1
           /\ UNCHANGED report

(* RuntimeContext.update. *)
update(g, payload) ==
  LET fields == extract(g, payload)
  IN  /\ values' = [values EXCEPT ![g] = IF fields = None THEN None
                                         ELSE [age |-> 0, fields |-> fields]]
      /\ remember(g, fields)
      /\ Witness(g, payload, fields)

(* Mutant of Available: valid on the instant it expires. *)
AvailableAtExpiry(g) == values[g] # None /\ values[g].age <= MaxAge[g]

(* _snapshot: a bound variable has a reason unless its group is stored and *)
(* has not expired.                                                        *)
Available(g) == values[g] # None /\ values[g].age < MaxAge[g]

InWindow == {i \in DOMAIN history : history[i].age <= Window}

(* The derived maximum is unavailable with its input, and without a sample *)
(* in its window.                                                          *)
PeakAvailable == Available("air") /\ InWindow # {}

Peak == IF \E i \in InWindow : history[i].sample = 1 THEN 1 ELSE 0

-----------------------------------------------------------------------------
(* RuntimeEvent.evaluate. *)

(* EventPredicate.matches: a value of another type matches nothing. *)
High == values["air"].fields.temperature = 1

(* Mutant of evaluate: the debounce survives an unavailable variable. *)
evaluateThrough ==
  IF ~Available("air") \/ (active /\ ~PeakAvailable)
  THEN UNCHANGED eventVars
  ELSE IF active
  THEN /\ active' = (Peak = 1)
       /\ UNCHANGED pending
  ELSE LET since == IF pending = None THEN 0 ELSE pending
       IN  /\ active' = (High /\ since >= ForSeconds)
           /\ pending' = IF High /\ since < ForSeconds THEN since ELSE None

(* Mutant of evaluate: every evaluation starts the debounce again. *)
evaluateRestarting ==
  IF ~Available("air") \/ (active /\ ~PeakAvailable)
  THEN pending' = None /\ UNCHANGED active
  ELSE IF active
  THEN /\ active' = (Peak = 1)
       /\ UNCHANGED pending
  ELSE /\ active' = (High /\ ForSeconds = 0)
       /\ pending' = IF High /\ ForSeconds > 0 THEN 0 ELSE None

evaluate ==
  IF ~Available("air") \/ (active /\ ~PeakAvailable)
  THEN pending' = None /\ UNCHANGED active
  ELSE IF active
  THEN /\ active' = (Peak = 1)
       /\ UNCHANGED pending
  ELSE LET since == IF pending = None THEN 0 ELSE pending
       IN  /\ active' = (High /\ since >= ForSeconds)
           /\ pending' = IF High /\ since < ForSeconds THEN since ELSE None

(* RuntimePublisher.publish_source: the variables are updated, and the      *)
(* events evaluated when the publication has been queued, under one lock.   *)
Publish(g, payload) ==
  /\ ~busy
  /\ busy' = TRUE
  /\ update(g, payload)
  /\ UNCHANGED eventVars

Settle ==
  /\ busy
  /\ busy' = FALSE
  /\ evaluate
  /\ UNCHANGED <<contextVars, pollVars, ghostVars>>

(* _maintain evaluates the events without a reading. *)
Maintain ==
  /\ ~busy
  /\ evaluate
  /\ UNCHANGED <<contextVars, busy, pollVars, ghostVars>>

Receive ==
  /\ \E payload \in PlaceReport : Publish("place", payload)
  /\ UNCHANGED pollVars

-----------------------------------------------------------------------------
(* PollingSource.run. *)

Asleep(delay, retry) == [doing |-> "asleep", left |-> delay, retry |-> retry]

(* Mutant of Resolve: a missing dependency ends the source. *)
ResolveOnce ==
  /\ poller.doing = "asleep" /\ poller.left = 0
  /\ IF Available("place")
     THEN poller' = [poller EXCEPT !.doing = "reading"] /\ asked' = values["place"].fields
     ELSE poller' = [poller EXCEPT !.doing = "ended"] /\ UNCHANGED asked
  /\ UNCHANGED <<contextVars, eventVars, busy, ghostVars>>

(* resolve_settings: every setting from one snapshot, or a short wait that *)
(* leaves the retry delay as it was.                                       *)
Resolve ==
  /\ poller.doing = "asleep" /\ poller.left = 0
  /\ IF Available("place")
     THEN poller' = [poller EXCEPT !.doing = "reading"] /\ asked' = values["place"].fields
     ELSE /\ poller' = Asleep(Least(DependencyWait, PollInterval), poller.retry)
          /\ UNCHANGED asked
  /\ UNCHANGED <<contextVars, eventVars, busy, ghostVars>>

(* collect succeeds: the forecast is published and the retry delay reset. *)
Forecast ==
  /\ poller.doing = "reading"
  /\ poller' = Asleep(PollInterval, RetryDelay)
  /\ asked' = None
  /\ \E payload \in AirReport : Publish("air", payload)

(* collect fails: the request or a bad answer; the delay doubles to a cap. *)
Failed ==
  /\ poller.doing = "reading"
  /\ poller' = Asleep(poller.retry, Least(MaxRetryDelay, 2 * poller.retry))
  /\ asked' = None
  /\ UNCHANGED <<contextVars, eventVars, busy, ghostVars>>

-----------------------------------------------------------------------------
Older(age, last) == IF age = None THEN None ELSE Least(age + 1, last)

(* A second passes. *)
Elapse ==
  /\ values' = [g \in DOMAIN values |->
                  IF values[g] = None THEN None
                  ELSE [values[g] EXCEPT !.age = Least(@ + 1, MaxAge[g] + 1)]]
  /\ history' = [i \in DOMAIN history |->
                   [history[i] EXCEPT !.age = Least(@ + 1, Window + 1)]]
  /\ pending' = Older(pending, ForSeconds)
  /\ poller' = [poller EXCEPT !.left = IF @ > 0 THEN @ - 1 ELSE 0]
  /\ report' = IF report = None THEN None
               ELSE [report EXCEPT !.age = Least(@ + 1, MaxAge["place"] + 1)]
  /\ held' = Older(held, ForSeconds)
  /\ calm' = Least(calm + 1, Window + 1)
  /\ UNCHANGED <<active, busy, asked, run>>

RulesInit ==
  /\ values = [g \in {"place", "air"} |-> None]
  /\ history = << >>
  /\ pending = None /\ active = FALSE
  /\ busy = FALSE
  /\ poller = Asleep(0, RetryDelay) /\ asked = None
  /\ report = None /\ run = 0 /\ held = None /\ calm = Window + 1

RulesNext == Receive \/ Settle \/ Maintain \/ Resolve \/ Forecast \/ Failed \/ Elapse

RulesSpec == RulesInit /\ [][RulesNext]_rulesVars

(* Time passes, a publication is finished, the maintenance thread and the  *)
(* polling source run, and a request for a forecast ends.                  *)
FairRules ==
  /\ RulesSpec
  /\ WF_rulesVars(Elapse) /\ WF_rulesVars(Settle) /\ WF_rulesVars(Maintain)
  /\ WF_rulesVars(Resolve) /\ WF_rulesVars(Forecast \/ Failed)

-----------------------------------------------------------------------------
RulesTypeOK ==
  /\ active \in BOOLEAN /\ busy \in BOOLEAN
  /\ pending \in 0..ForSeconds \cup {None}
  /\ \A g \in DOMAIN values :
       values[g] # None => values[g].age \in 0..MaxAge[g] + 1
                           /\ DOMAIN values[g].fields = Fields[g]
  /\ Len(history) <= MaxSamples
  /\ \A i \in DOMAIN history : history[i].age \in 0..Window + 1 /\ history[i].sample \in Level
  /\ poller.doing \in {"asleep", "reading"}
  /\ poller.left \in 0..(PollInterval + MaxRetryDelay)
  /\ poller.retry \in RetryDelay..MaxRetryDelay

(* The event becomes active only when the temperature has been reported    *)
(* high, without a lower, an incomplete or a rejected report, for          *)
(* for_seconds; it clears only when no high temperature was reported in    *)
(* the window since the last report that was no number.                    *)
EventsAreEarned ==
  [][/\ ~active /\ active' => held # None /\ held >= ForSeconds
     /\ active /\ ~active' => calm > Window]_rulesVars

(* The forecast is read for the latitude and the longitude of one report:  *)
(* the last one, which was complete, accepted, and has not expired.        *)
OnePlace ==
  [][asked = None /\ asked' # None =>
       /\ report # None
       /\ report.age < MaxAge["place"]
       /\ asked' = [latitude |-> report.latitude, longitude |-> report.longitude]]_rulesVars

(* The window never reaches across a report that was no number: the        *)
(* samples of the maximum were all accepted after it.                      *)
WindowIsOneRun == Len(history) <= run

(* A temperature that stays high makes the event active for good, and a    *)
(* maximum that stays low clears it.                                       *)
EventSettles ==
  /\ (<>[](Available("air") /\ held # None)) => <>[]active
  /\ (<>[](PeakAvailable /\ Peak = 0)) => <>[]~active

(* The polling source asks again and again while the place is known,       *)
(* whatever failed or was missing before.                                  *)
KeepsPolling == (<>[]Available("place")) => []<>(poller.doing = "reading")
=============================================================================
