-------------------------- MODULE BleSourcesProofs --------------------------
(***************************************************************************)
(* Proofs about BleSources for every set of watchdogs, number of register  *)
(* sections, retry limit and set of manager names.  The argument: an       *)
(* attempt is under way exactly while `connecting`, and the retry worker   *)
(* begins one only from places where there is none; from its first await   *)
(* to its first request an attempt owns the manager and leaves nothing of  *)
(* an older generation that could read or poll; and whoever waits for an   *)
(* answer, a pause, a poll or a disconnection hands over to the next.      *)
(***************************************************************************)
EXTENDS BleSources, FiniteSetTheorems, TLAPS

AttemptPlace == {"scan", "scanning", "connect", "connecting", "setup", "failed", "write"}
RetryPlace == {"start", "release", "delay"}

(* An attempt that has not requested anything yet. *)
Early(t) == Attempting(t) /\ at[t] # "write"

-----------------------------------------------------------------------------
(* The inductive invariant. *)

PlacesOK ==
  /\ at \in [Task -> {"idle"} \cup AttemptPlace \cup RetryPlace]
  /\ at["main"] \notin RetryPlace /\ at["poll"] \notin RetryPlace
  /\ mine \in [Task -> Managers]
  /\ manager \in Managers \cup {NoManager} /\ link \in Managers \cup {NoManager}
  /\ dropping \in Managers \cup {NoManager}

FlagsOK ==
  /\ persistent \in BOOLEAN /\ stop \in BOOLEAN /\ resolved \in BOOLEAN /\ connecting \in BOOLEAN
  /\ reason \in BOOLEAN /\ timer \in BOOLEAN /\ stray \in BOOLEAN /\ asked \in BOOLEAN

ModesOK ==
  /\ life \in {"running", "closing", "joining", "ended"}
  /\ chain \in {"none", "fresh", "old"} /\ waiting \in {"none", "fresh", "old"}
  /\ retries \in 0 .. MaxRetry /\ section \in 1 .. Sections

(* A slot has one holder at most, and a task waits for the slot it is at. *)
SlotsOK ==
  /\ holder \in [Lock -> SUBSET (Task \cup Watchdogs)]
  /\ blocked \in [Lock -> SUBSET (Task \cup Watchdogs)]
  /\ orphans \in [Lock -> SUBSET Task]
  /\ \A l \in Lock : \A s, t \in holder[l] : s = t
  /\ \A t \in Task : t \in blocked["scan"] => at[t] = "scan"
  /\ \A t \in Task : t \in blocked["connect"] => at[t] = "connect"

(* One attempt, by `connecting` and by the place of the retry worker. *)
AttemptOK ==
  /\ \A s, t \in Task : Attempting(s) /\ Attempting(t) => s = t
  /\ Running => (connecting <=> \E t \in Task : Attempting(t))
  /\ at["retry"] \in RetryPlace => \A t \in Task : ~Attempting(t)
  /\ ~Running => \A t \in Task : at[t] = "idle"

(* What an attempt finds until its first request. *)
EarlyOK ==
  \A t \in Task : Early(t) =>
    /\ manager = mine[t] /\ ~asked /\ chain # "fresh"
    /\ t # "retry" \/ persistent => waiting # "fresh" /\ dropping = NoManager
    /\ at[t] \in {"scan", "scanning", "connect", "connecting"} => link = NoManager

(* Which of a reading, a pause, a poll and a disconnection can be under way together. *)
HandoverOK ==
  /\ asked => manager # NoManager /\ link = manager /\ chain # "fresh"
  /\ chain = "fresh" => ~asked /\ (manager # NoManager \/ at["retry"] = "delay")
  /\ waiting = "fresh" => dropping = NoManager
  /\ persistent => dropping = NoManager /\ (asked \/ chain = "fresh" => waiting # "fresh")
  /\ link \in {NoManager, manager, dropping}
  /\ ~Running => chain = "none" /\ waiting = "none" /\ dropping = NoManager /\ ~timer /\ ~asked
  /\ life = "joining" \/ life = "ended" => link = NoManager /\ manager = NoManager

(* A nonpersistent client that keeps its link is reading over it. *)
ReadingOK ==
  Running /\ ~persistent /\ ~resolved /\ link # NoManager /\ link = manager
    /\ (\A t \in Task : ~Early(t)) /\ at["retry"] \notin RetryPlace
  => timer \/ chain = "fresh" \/ stray \/ reason

(* A reason to reconnect is in somebody's hands, until the session is to end. *)
ReasonOK == Running /\ reason /\ ~resolved => \E t \in Task : at[t] # "idle"

(* AlwaysDriven, without counting on a write that only has to settle. *)
DrivenOK ==
  Running => \/ resolved \/ timer \/ chain = "fresh" \/ waiting = "fresh" \/ dropping # NoManager
             \/ stray \/ killed \/ reason \/ at["retry"] \in RetryPlace \/ \E t \in Task : Early(t)

BleInv ==
  /\ PlacesOK /\ FlagsOK /\ ModesOK /\ SlotsOK /\ AttemptOK
  /\ EarlyOK /\ HandoverOK /\ ReadingOK /\ ReasonOK /\ DrivenOK
-----------------------------------------------------------------------------
(* What the common steps of an attempt do. *)

LEMMA Constants ==
  /\ Sections \in Nat \ {0} /\ MaxRetry \in Nat /\ NoManager \notin Managers
  /\ \A w \in Watchdogs : w \notin Task
  /\ "main" \in Task /\ "retry" \in Task /\ "poll" \in Task
  /\ \A t \in Task : t = "main" \/ t = "retry" \/ t = "poll"
  /\ \A l \in Lock : l = "scan" \/ l = "connect"
BY BleAssumption DEF Task, Lock

(* The places of an attempt, and of a task beside an attempt. *)
LEMMA AttemptPlaces ==
  ASSUME PlacesOK, AttemptOK
  PROVE  /\ \A t \in Task : Attempting(t) <=> at[t] \in AttemptPlace
         /\ \A t \in Task : Attempting(t) => \A s \in Task : s = t \/ at[s] = "idle"
<1>1. \A t \in Task : Attempting(t) <=> at[t] \in AttemptPlace
  BY DEF Attempting, AttemptPlace
<1>2. ASSUME NEW t \in Task, Attempting(t), NEW s \in Task, s # t PROVE at[s] = "idle"
  <2>1. ~Attempting(s)
    BY <1>2 DEF AttemptOK
  <2>2. at[s] \notin RetryPlace
    BY <1>2, Constants DEF AttemptOK, PlacesOK
  <2> QED BY <1>1, <2>1, <2>2 DEF PlacesOK
<1> QED BY <1>1, <1>2

(* The end of an attempt: everybody is idle, or the retry worker starts. *)
LEMMA EndAttemptEffect ==
  ASSUME PlacesOK, AttemptOK, NEW t \in Task, Attempting(t), NEW failing \in BOOLEAN,
         EndAttempt(t, failing)
  PROVE  /\ connecting' = FALSE /\ reason' = failing
         /\ at' \in [Task -> {"idle"} \cup AttemptPlace \cup RetryPlace]
         /\ at'["main"] = "idle" /\ at'["poll"] = "idle"
         /\ failing => at'["retry"] = "start"
         /\ ~failing => at'["retry"] = "idle"
<1>1. \A s \in Task : s = t \/ at[s] = "idle"
  BY AttemptPlaces
<1> DEFINE places == [at EXCEPT ![t] = "idle"]
<1>2. at' = IF failing /\ (t = "retry" \/ ~Reconnecting) THEN [places EXCEPT !["retry"] = "start"] ELSE places
  BY DEF EndAttempt
<1>3. places \in [Task -> {"idle"}]
  BY <1>1 DEF PlacesOK
<1>4. t = "retry" \/ ~Reconnecting
  BY <1>1, Constants DEF Reconnecting
<1>5. connecting' = FALSE /\ reason' = failing
  BY DEF EndAttempt
<1> HIDE DEF places
<1> QED BY <1>2, <1>3, <1>4, <1>5, Constants DEF RetryPlace

(* A reason that comes up: the retry worker starts unless somebody is at work. *)
LEMMA TriggerEffect ==
  ASSUME PlacesOK, AttemptOK, Running, Trigger(at, connecting)
  PROVE  /\ reason' = TRUE
         /\ at' \in [Task -> {"idle"} \cup AttemptPlace \cup RetryPlace]
         /\ \A t \in Task : t # "retry" => at'[t] = at[t]
         /\ \/ at'["retry"] = at["retry"] /\ \E t \in Task : at[t] # "idle"
            \/ at["retry"] = "idle" /\ at'["retry"] = "start" /\ \A t \in Task : ~Attempting(t)
         /\ \E t \in Task : at'[t] # "idle"
<1>1. CASE ~connecting /\ ~Reconnecting
  <2>1. at' = [at EXCEPT !["retry"] = "start"] /\ reason' = TRUE
    BY <1>1 DEF Trigger
  <2>2. at["retry"] = "idle" /\ \A t \in Task : ~Attempting(t)
    BY <1>1 DEF Reconnecting, AttemptOK
  <2>3. at' \in [Task -> {"idle"} \cup AttemptPlace \cup RetryPlace] /\ at'["retry"] = "start"
        /\ \A t \in Task : t # "retry" => at'[t] = at[t]
    BY <2>1, Constants DEF PlacesOK, RetryPlace
  <2> QED BY <2>1, <2>2, <2>3, Constants
<1>2. CASE connecting \/ Reconnecting
  <2>1. at' = at /\ reason' = TRUE
    BY <1>2 DEF Trigger
  <2>2. \E t \in Task : at[t] # "idle"
    BY <1>2, Constants DEF Reconnecting, AttemptOK, Attempting
  <2> QED BY <2>1, <2>2 DEF PlacesOK
<1> QED BY <1>1, <1>2

(* A new attempt, when nobody else is at work: nothing fresh is left. *)
LEMMA AttemptEffect ==
  ASSUME PlacesOK, NEW t \in Task, NEW poll, Attempt(t, poll)
  PROVE  /\ connecting' = TRUE /\ section' = 1 /\ chain' = Old(chain) /\ waiting' = poll
         /\ manager' \in Managers /\ (manager # NoManager => manager' = manager)
         /\ mine' \in [Task -> Managers] /\ mine'[t] = manager'
         /\ link' = NoManager /\ asked' = FALSE
         /\ at' = [at EXCEPT ![t] = "scan"]
         /\ blocked' = [blocked EXCEPT !["scan"] = @ \cup {t}]
<1>1. PICK m \in Managers \ {manager, link, dropping} : manager' = IF manager = NoManager THEN m ELSE manager
  BY DEF Attempt
<1>2. manager' \in Managers
  BY <1>1 DEF PlacesOK
<1>3. mine' = [mine EXCEPT ![t] = manager']
  BY DEF Attempt
<1> QED BY <1>1, <1>2, <1>3 DEF Attempt, PlacesOK

(* A slot that is released has no other holder. *)
LEMMA ReleaseEffect ==
  ASSUME SlotsOK, NEW l \in Lock, NEW t, Release(l, t)
  PROVE  /\ holder' \in [Lock -> SUBSET (Task \cup Watchdogs)]
         /\ \A k \in Lock : \A x \in holder'[k] : x \in holder[k]
BY DEF SlotsOK, Release

LEMMA OldIsNotFresh == \A x : Old(x) # "fresh" /\ (x \in {"none", "fresh", "old"} => Old(x) \in {"none", "old"})
BY DEF Old

-----------------------------------------------------------------------------
(* The steps of an attempt. *)

LEMMA WrittenStep ==
  ASSUME BleInv, NEW t \in Task, Written(t)
  PROVE  BleInv'
<1> USE DEF BleInv
<1>a. Running /\ at[t] = "write" /\ Attempting(t)
  BY DEF Written, Attempting
<1>e. connecting' = FALSE /\ reason' = reason
      /\ at' \in [Task -> {"idle"} \cup AttemptPlace \cup RetryPlace]
      /\ at'["main"] = "idle" /\ at'["poll"] = "idle"
      /\ (reason => at'["retry"] = "start")
      /\ (~reason => at'["retry"] = "idle")
  BY <1>a, EndAttemptEffect DEF Written, FlagsOK
<1>u. UNCHANGED <<holder, blocked, orphans, persistent, stop, life, resolved, mine, manager,
                  link, retries, timer, section, stray, asked, chain, waiting, dropping, hughes, killed>>
  BY DEF Written, slotVars, readVars
<1>1. ModesOK'
  BY <1>u DEF ModesOK
<1>2. PlacesOK'
  BY Constants, <1>a, <1>e, <1>u DEF PlacesOK, RetryPlace
<1>3. FlagsOK'
  BY Constants, <1>a, <1>e, <1>u DEF FlagsOK
<1>4. SlotsOK'
  BY Constants, <1>a, <1>e, <1>u DEF SlotsOK, AttemptOK, Attempting
<1>5. AttemptOK'
  BY Constants, <1>a, <1>e, <1>u DEF AttemptOK, Attempting, Running
<1>6. EarlyOK'
  BY Constants, <1>a, <1>e, <1>u DEF EarlyOK, Early, Attempting
<1>7. HandoverOK'
  BY Constants, <1>a, <1>e, <1>u DEF HandoverOK, AttemptOK, RetryPlace, Running
<1>8. ReadingOK'
  BY Constants, <1>a, <1>e, <1>u DEF ReadingOK, Early, Attempting, AttemptOK, Running
<1>9. ReasonOK'
  BY Constants, <1>a, <1>e, <1>u DEF ReasonOK, Running
<1>10. DrivenOK'
  BY Constants, <1>a, <1>e, <1>u DEF DrivenOK, Running, Early, Attempting, AttemptOK
<1> QED BY <1>1, <1>2, <1>3, <1>4, <1>5, <1>6, <1>7, <1>8, <1>9, <1>10

LEMMA FailedStep ==
  ASSUME BleInv, NEW t \in Task, Failed(t)
  PROVE  BleInv'
<1> USE DEF BleInv
<1>a. Running /\ at[t] = "failed" /\ Attempting(t)
  BY DEF Failed, Attempting
<1>b. link' = NoManager /\ asked' = FALSE
  BY DEF Failed
<1>e. connecting' = FALSE /\ reason' = TRUE
      /\ at' \in [Task -> {"idle"} \cup AttemptPlace \cup RetryPlace]
      /\ at'["main"] = "idle" /\ at'["poll"] = "idle"
      /\ (TRUE => at'["retry"] = "start")
      /\ (~TRUE => at'["retry"] = "idle")
  BY <1>a, EndAttemptEffect DEF Failed
<1>u. UNCHANGED <<holder, blocked, orphans, persistent, stop, life, resolved, mine, manager,
                  retries, timer, section, stray, chain, waiting, dropping, hughes, killed>>
  BY DEF Failed, slotVars
<1>1. ModesOK'
  BY <1>u DEF ModesOK
<1>2. PlacesOK'
  BY Constants, <1>a, <1>b, <1>e, <1>u DEF PlacesOK, RetryPlace
<1>3. FlagsOK'
  BY Constants, <1>a, <1>b, <1>e, <1>u DEF FlagsOK
<1>4. SlotsOK'
  BY Constants, <1>a, <1>b, <1>e, <1>u DEF SlotsOK, AttemptOK, Attempting
<1>5. AttemptOK'
  BY Constants, <1>a, <1>b, <1>e, <1>u DEF AttemptOK, Attempting, Running
<1>6. EarlyOK'
  BY Constants, <1>a, <1>b, <1>e, <1>u DEF EarlyOK, Early, Attempting
<1>7. HandoverOK'
  BY Constants, <1>a, <1>b, <1>e, <1>u DEF HandoverOK, AttemptOK, RetryPlace, Running
<1>8. ReadingOK'
  BY Constants, <1>a, <1>b, <1>e, <1>u DEF ReadingOK, Early, Attempting, Running
<1>9. ReasonOK'
  BY Constants, <1>a, <1>b, <1>e, <1>u DEF ReasonOK, Running
<1>10. DrivenOK'
  BY Constants, <1>a, <1>b, <1>e, <1>u DEF DrivenOK, Running, Early, Attempting
<1> QED BY <1>1, <1>2, <1>3, <1>4, <1>5, <1>6, <1>7, <1>8, <1>9, <1>10

LEMMA ConnectedStep ==
  ASSUME BleInv, NEW t \in Task, Connected(t)
  PROVE  BleInv'
<1> USE DEF BleInv
<1>a. Running /\ at[t] = "connecting" /\ Attempting(t) /\ mine[t] \in Managers
  BY DEF Connected, Attempting, PlacesOK
<1>e. \/ link' = mine[t] /\ at' = [at EXCEPT ![t] = "setup"]
      \/ link' = NoManager /\ at' = [at EXCEPT ![t] = "failed"]
  BY DEF Connected
<1>b. holder' \in [Lock -> SUBSET (Task \cup Watchdogs)]
      /\ \A k \in Lock : \A x \in holder'[k] : x \in holder[k]
  BY ReleaseEffect DEF Connected, Lock
<1>u. UNCHANGED <<blocked, orphans, persistent, stop, life, resolved, mine, manager,
                  connecting, reason, retries, timer, section, stray, asked, chain, waiting,
                  dropping, hughes, killed>>
  BY DEF Connected, readVars
<1>1. FlagsOK' /\ ModesOK'
  BY <1>u DEF FlagsOK, ModesOK
<1>2. PlacesOK'
  BY Constants, <1>a, <1>b, <1>e, <1>u DEF PlacesOK, AttemptPlace, RetryPlace
<1>3. SlotsOK'
  BY Constants, <1>a, <1>b, <1>e, <1>u DEF SlotsOK, AttemptOK, Attempting
<1>4. AttemptOK'
  BY Constants, <1>a, <1>b, <1>e, <1>u DEF AttemptOK, Attempting, Running, PlacesOK, RetryPlace
<1>5. EarlyOK'
  <2>1. \A s \in Task : s = t \/ at[s] = "idle"
    BY <1>a, AttemptPlaces
  <2> QED BY Constants, <1>a, <1>b, <1>e, <1>u, <2>1 DEF EarlyOK, Early, Attempting, PlacesOK
<1>6. HandoverOK'
  BY Constants, <1>a, <1>b, <1>e, <1>u DEF HandoverOK, EarlyOK, Early, Running
<1>7. ReadingOK'
  BY Constants, <1>a, <1>b, <1>e, <1>u DEF ReadingOK, Early, Attempting, PlacesOK, Running
<1>8. ReasonOK'
  BY Constants, <1>a, <1>b, <1>e, <1>u DEF ReasonOK, Running, PlacesOK
<1>9. DrivenOK'
  BY Constants, <1>a, <1>b, <1>e, <1>u DEF DrivenOK, Running, Early, Attempting, PlacesOK
<1> QED BY <1>1, <1>2, <1>3, <1>4, <1>5, <1>6, <1>7, <1>8, <1>9

-----------------------------------------------------------------------------
(* The retry worker. *)

LEMMA RoundStep ==
  ASSUME BleInv, Round
  PROVE  BleInv'
<1> USE DEF BleInv
<1>a. Running /\ at["retry"] = "start" /\ reason' = FALSE /\ timer' = FALSE
  BY DEF Round
<1>e. \/ /\ resolved' = TRUE /\ at' = [at EXCEPT !["retry"] = "idle"]
         /\ UNCHANGED <<retries, chain, waiting>>
      \/ /\ ~Exhausted /\ retries' = retries + 1 /\ chain' = Old(chain) /\ waiting' = "none"
         /\ at' = [at EXCEPT !["retry"] = IF manager = NoManager THEN "delay" ELSE "release"]
         /\ UNCHANGED resolved
  BY DEF Round
<1>u. UNCHANGED <<holder, blocked, orphans, persistent, stop, life, mine, manager, link,
                  connecting, section, stray, asked, dropping, hughes, killed>>
  BY DEF Round, slotVars
<1>1. PlacesOK'
  BY Constants, OldIsNotFresh, <1>a, <1>e, <1>u DEF PlacesOK, RetryPlace
<1>2. FlagsOK'
  BY Constants, OldIsNotFresh, <1>a, <1>e, <1>u DEF FlagsOK
<1>3. ModesOK'
  BY Constants, OldIsNotFresh, <1>a, <1>e, <1>u DEF ModesOK, Exhausted
<1>4. SlotsOK'
  BY Constants, OldIsNotFresh, <1>a, <1>e, <1>u DEF SlotsOK, PlacesOK
<1>5. AttemptOK'
  BY Constants, OldIsNotFresh, <1>a, <1>e, <1>u DEF AttemptOK, Attempting, Running, PlacesOK,
         RetryPlace
<1>6. EarlyOK'
  BY Constants, OldIsNotFresh, <1>a, <1>e, <1>u DEF EarlyOK, Early, Attempting, PlacesOK
<1>7. HandoverOK'
  BY Constants, OldIsNotFresh, <1>a, <1>e, <1>u DEF HandoverOK, Running
<1>8. ReadingOK'
  BY Constants, OldIsNotFresh, <1>a, <1>e, <1>u DEF ReadingOK, Early, Attempting, PlacesOK,
         RetryPlace, Running
<1>9. ReasonOK'
  BY Constants, OldIsNotFresh, <1>a, <1>e, <1>u DEF ReasonOK, Running
<1>10. DrivenOK'
  BY Constants, OldIsNotFresh, <1>a, <1>e, <1>u DEF DrivenOK, RetryPlace, Running, Early,
         Attempting, PlacesOK
<1> QED BY <1>1, <1>2, <1>3, <1>4, <1>5, <1>6, <1>7, <1>8, <1>9, <1>10

LEMMA ReleasedStep ==
  ASSUME BleInv, Released
  PROVE  BleInv'
<1> USE DEF BleInv
<1>a. Running /\ at["retry"] = "release" /\ link' = NoManager /\ asked' = FALSE
  BY DEF Released
<1>e. at' = [at EXCEPT !["retry"] = "delay"] /\ manager' \in {manager, NoManager}
  BY DEF Released
<1>u. UNCHANGED <<holder, blocked, orphans, persistent, stop, life, resolved, mine, connecting,
                  reason, retries, timer, section, stray, chain, waiting, dropping, hughes, killed>>
  BY DEF Released, slotVars
<1>1. ModesOK'
  BY <1>u DEF ModesOK
<1>2. PlacesOK'
  BY Constants, <1>a, <1>e, <1>u DEF PlacesOK, RetryPlace
<1>3. FlagsOK'
  BY Constants, <1>a, <1>e, <1>u DEF FlagsOK
<1>4. SlotsOK'
  BY Constants, <1>a, <1>e, <1>u DEF SlotsOK
<1>5. AttemptOK'
  BY Constants, <1>a, <1>e, <1>u DEF AttemptOK, Attempting, Running, RetryPlace
<1>6. EarlyOK'
  BY Constants, <1>a, <1>e, <1>u DEF EarlyOK, Early, Attempting, AttemptOK, RetryPlace
<1>7. HandoverOK'
  BY Constants, <1>a, <1>e, <1>u DEF HandoverOK, PlacesOK, Running
<1>8. ReadingOK'
  BY Constants, <1>a, <1>e, <1>u DEF ReadingOK, Early, Attempting, Running
<1>9. ReasonOK'
  BY Constants, <1>a, <1>e, <1>u DEF ReasonOK, Running
<1>10. DrivenOK'
  BY Constants, <1>a, <1>e, <1>u DEF DrivenOK, RetryPlace, Running, Early, Attempting
<1> QED BY <1>1, <1>2, <1>3, <1>4, <1>5, <1>6, <1>7, <1>8, <1>9, <1>10

LEMMA ReconnectStep ==
  ASSUME BleInv, Reconnect
  PROVE  BleInv'
<1> USE DEF BleInv
<1>a. Running /\ at["retry"] = "delay" /\ reason' = FALSE
  BY DEF Reconnect
<1>e. /\ connecting' = TRUE /\ section' = 1 /\ chain' = Old(chain) /\ waiting' = Old(waiting)
      /\ manager' \in Managers /\ mine' \in [Task -> Managers] /\ mine'["retry"] = manager'
      /\ link' = NoManager /\ asked' = FALSE
      /\ at' = [at EXCEPT !["retry"] = "scan"]
  BY Constants, AttemptEffect DEF Reconnect
<1>b. /\ blocked' \in [Lock -> SUBSET (Task \cup Watchdogs)] /\ blocked'["connect"] = blocked["connect"]
      /\ \A x \in blocked'["scan"] : x = "retry" \/ x \in blocked["scan"]
  <2>1. blocked' = [blocked EXCEPT !["scan"] = @ \cup {"retry"}]
    BY Constants, AttemptEffect DEF Reconnect
  <2> QED BY <2>1, Constants DEF SlotsOK, Lock
<1>u. UNCHANGED <<holder, orphans, persistent, stop, life, resolved, retries, timer, stray,
                  dropping, hughes>>
  BY DEF Reconnect
<1>1. PlacesOK'
  BY Constants, OldIsNotFresh, <1>a, <1>b, <1>e, <1>u DEF PlacesOK, AttemptPlace
<1>2. FlagsOK'
  BY Constants, OldIsNotFresh, <1>a, <1>b, <1>e, <1>u DEF FlagsOK
<1>3. ModesOK'
  BY Constants, OldIsNotFresh, <1>a, <1>b, <1>e, <1>u DEF ModesOK
<1>4. SlotsOK'
  BY Constants, OldIsNotFresh, <1>a, <1>b, <1>e, <1>u DEF SlotsOK, PlacesOK
<1>5. AttemptOK'
  BY Constants, OldIsNotFresh, <1>a, <1>b, <1>e, <1>u DEF AttemptOK, Attempting, Running,
         PlacesOK, RetryPlace
<1>6. EarlyOK'
  BY Constants, OldIsNotFresh, <1>a, <1>b, <1>e, <1>u DEF EarlyOK, Early, Attempting,
         AttemptOK, HandoverOK, RetryPlace
<1>7. HandoverOK'
  BY Constants, OldIsNotFresh, <1>a, <1>b, <1>e, <1>u DEF HandoverOK, Running
<1>8. ReadingOK'
  BY Constants, OldIsNotFresh, <1>a, <1>b, <1>e, <1>u DEF ReadingOK, Early, Attempting, Running
<1>9. ReasonOK'
  BY Constants, OldIsNotFresh, <1>a, <1>b, <1>e, <1>u DEF ReasonOK, Running
<1>10. DrivenOK'
  BY Constants, OldIsNotFresh, <1>a, <1>b, <1>e, <1>u DEF DrivenOK, Running, Early, Attempting,
         PlacesOK
<1> QED BY <1>1, <1>2, <1>3, <1>4, <1>5, <1>6, <1>7, <1>8, <1>9, <1>10

-----------------------------------------------------------------------------
(* The callbacks of the event loop. *)

LEMMA ReadTimeoutStep ==
  ASSUME BleInv, ReadTimeout
  PROVE  BleInv'
<1> USE DEF BleInv
<1>a. Running /\ timer /\ timer' = FALSE
  BY DEF ReadTimeout
<1>e. /\ reason' = TRUE
      /\ at' \in [Task -> {"idle"} \cup AttemptPlace \cup RetryPlace]
      /\ \A t \in Task : t # "retry" => at'[t] = at[t]
      /\ \/ at'["retry"] = at["retry"] /\ \E t \in Task : at[t] # "idle"
         \/ at["retry"] = "idle" /\ at'["retry"] = "start" /\ \A t \in Task : ~Attempting(t)
      /\ \E t \in Task : at'[t] # "idle"
  BY <1>a, TriggerEffect DEF ReadTimeout
<1>u. UNCHANGED <<holder, blocked, orphans, persistent, stop, life, resolved, mine, manager,
                  link, connecting, retries, section, stray, asked, chain, waiting, dropping,
                  hughes, killed>>
  BY DEF ReadTimeout, slotVars
<1>1. ModesOK'
  BY <1>u DEF ModesOK
<1>2. PlacesOK'
  BY Constants, <1>a, <1>e, <1>u DEF PlacesOK
<1>3. FlagsOK'
  BY Constants, <1>a, <1>e, <1>u DEF FlagsOK
<1>4. SlotsOK'
  BY Constants, <1>a, <1>e, <1>u DEF SlotsOK
<1>5. AttemptOK'
  BY Constants, <1>a, <1>e, <1>u DEF AttemptOK, Attempting, Running
<1>6. EarlyOK'
  BY Constants, <1>a, <1>e, <1>u DEF EarlyOK, Early, Attempting
<1>7. HandoverOK'
  BY Constants, <1>a, <1>e, <1>u DEF HandoverOK, Running
<1>8. ReadingOK'
  BY Constants, <1>a, <1>e, <1>u DEF ReadingOK, Early, Attempting, Running
<1>9. ReasonOK'
  BY Constants, <1>a, <1>e, <1>u DEF ReasonOK, Running
<1>10. DrivenOK'
  BY Constants, <1>a, <1>e, <1>u DEF DrivenOK, Running, Early, Attempting
<1> QED BY <1>1, <1>2, <1>3, <1>4, <1>5, <1>6, <1>7, <1>8, <1>9, <1>10

LEMMA UnknownStep ==
  ASSUME BleInv, Unknown
  PROVE  BleInv'
<1> USE DEF BleInv
<1>e. Running /\ timer' = FALSE /\ stray' = (timer \/ stray)
  BY DEF Unknown
<1>u. UNCHANGED <<holder, blocked, orphans, persistent, stop, life, resolved, at, mine,
                  manager, link, connecting, reason, retries, section, asked, chain, waiting,
                  dropping, hughes, killed>>
  BY DEF Unknown, slotVars, attemptVars
<1>1. PlacesOK' /\ ModesOK' /\ SlotsOK' /\ AttemptOK' /\ EarlyOK' /\ ReasonOK'
  BY <1>u DEF PlacesOK, ModesOK, SlotsOK, AttemptOK, Attempting, Running, EarlyOK, Early,
         ReasonOK
<1>2. FlagsOK'
  BY <1>e, <1>u DEF FlagsOK
<1>3. HandoverOK'
  BY <1>e, <1>u DEF HandoverOK, Running
<1>4. ReadingOK'
  BY <1>e, <1>u DEF ReadingOK, Early, Attempting, Running
<1>5. DrivenOK'
  BY <1>e, <1>u DEF DrivenOK, Running, Early, Attempting
<1> QED BY <1>1, <1>2, <1>3, <1>4, <1>5

LEMMA AnswerStep ==
  ASSUME BleInv, Answer
  PROVE  BleInv'
<1> USE DEF BleInv
<1>a. Running /\ asked /\ timer' = FALSE /\ asked' = FALSE /\ manager # NoManager /\ link = manager
  BY DEF Answer, HandoverOK
<1>e. \/ /\ section < Sections /\ section' = section + 1 /\ chain' = "fresh"
         /\ UNCHANGED <<manager, waiting, dropping>>
      \/ /\ persistent /\ section' = 1 /\ waiting' = "fresh" /\ UNCHANGED <<manager, dropping, chain>>
      \/ /\ ~persistent /\ section' = 1 /\ waiting' = "none" /\ manager' = NoManager
         /\ dropping' = manager /\ UNCHANGED chain
  BY <1>a DEF Answer
<1>u. UNCHANGED <<holder, blocked, orphans, persistent, stop, life, resolved, at, mine, link,
                  connecting, reason, retries, stray, hughes, killed>>
  BY DEF Answer, slotVars
<1>1. SlotsOK' /\ AttemptOK' /\ ReasonOK'
  BY <1>u DEF SlotsOK, AttemptOK, Attempting, Running, ReasonOK
<1>2. PlacesOK'
  BY Constants, <1>a, <1>e, <1>u DEF PlacesOK
<1>3. FlagsOK'
  BY Constants, <1>a, <1>e, <1>u DEF FlagsOK
<1>4. ModesOK'
  BY Constants, <1>a, <1>e, <1>u DEF ModesOK
<1>5. EarlyOK'
  BY Constants, <1>a, <1>e, <1>u DEF EarlyOK, Early, Attempting
<1>6. HandoverOK'
  BY Constants, <1>a, <1>e, <1>u DEF HandoverOK, Running
<1>7. ReadingOK'
  BY Constants, <1>a, <1>e, <1>u DEF ReadingOK, Early, Attempting, Running
<1>8. DrivenOK'
  BY Constants, <1>a, <1>e, <1>u DEF DrivenOK, Running, Early, Attempting
<1> QED BY <1>1, <1>2, <1>3, <1>4, <1>5, <1>6, <1>7, <1>8

LEMMA NextSectionStep ==
  ASSUME BleInv, NextSection
  PROVE  BleInv'
<1> USE DEF BleInv
<1>a. Running /\ chain # "none" /\ chain' = "none"
  BY DEF NextSection
<1>e. \/ /\ chain = "fresh" /\ manager # NoManager
         /\ timer' = TRUE /\ stray' = FALSE /\ asked' \in BOOLEAN /\ (asked' => link = manager)
      \/ /\ chain # "fresh" \/ manager = NoManager
         /\ UNCHANGED <<timer, stray, asked>>
  BY DEF NextSection, ReadSection
<1>u. UNCHANGED <<holder, blocked, orphans, persistent, stop, life, resolved, at, mine,
                  manager, link, connecting, reason, retries, section, waiting, dropping,
                  hughes, killed>>
  BY DEF NextSection, slotVars, attemptVars
<1>1. PlacesOK' /\ SlotsOK' /\ AttemptOK' /\ ReasonOK'
  BY <1>u DEF PlacesOK, SlotsOK, AttemptOK, Attempting, Running, ReasonOK
<1>2. FlagsOK'
  BY Constants, <1>a, <1>e, <1>u DEF FlagsOK
<1>3. ModesOK'
  BY Constants, <1>a, <1>e, <1>u DEF ModesOK
<1>4. EarlyOK'
  BY Constants, <1>a, <1>e, <1>u DEF EarlyOK, Early, Attempting
<1>5. HandoverOK'
  BY Constants, <1>a, <1>e, <1>u DEF HandoverOK, Running
<1>6. ReadingOK'
  BY Constants, <1>a, <1>e, <1>u DEF ReadingOK, Early, Attempting, Running
<1>7. DrivenOK'
  BY Constants, <1>a, <1>e, <1>u DEF DrivenOK, RetryPlace, Running, HandoverOK, Early,
         Attempting
<1> QED BY <1>1, <1>2, <1>3, <1>4, <1>5, <1>6, <1>7

LEMMA DroppedStep ==
  ASSUME BleInv, Dropped
  PROVE  BleInv'
<1> USE DEF BleInv
<1>a. Running /\ dropping # NoManager /\ dropping' = NoManager /\ waiting' = "fresh"
  BY DEF Dropped
<1>e. \/ link = dropping /\ link' = NoManager /\ asked' = FALSE
      \/ link # dropping /\ link' = link /\ asked' = asked
  BY DEF Dropped, FlagsOK
<1>u. UNCHANGED <<holder, blocked, orphans, persistent, stop, life, resolved, at, mine,
                  manager, connecting, reason, retries, timer, section, stray, chain, hughes, killed>>
  BY DEF Dropped, slotVars, attemptVars
<1>1. SlotsOK' /\ AttemptOK' /\ ReasonOK'
  BY <1>u DEF SlotsOK, AttemptOK, Attempting, Running, ReasonOK
<1>2. PlacesOK'
  BY Constants, <1>a, <1>e, <1>u DEF PlacesOK
<1>3. FlagsOK'
  BY Constants, <1>a, <1>e, <1>u DEF FlagsOK
<1>4. ModesOK'
  BY Constants, <1>a, <1>e, <1>u DEF ModesOK
<1>5. EarlyOK'
  BY Constants, <1>a, <1>e, <1>u DEF EarlyOK, Early, Attempting
<1>6. HandoverOK'
  BY Constants, <1>a, <1>e, <1>u DEF HandoverOK, Running
<1>7. ReadingOK'
  BY Constants, <1>a, <1>e, <1>u DEF ReadingOK, Early, Attempting, Running
<1>8. DrivenOK'
  BY Constants, <1>a, <1>e, <1>u DEF DrivenOK, Running, Early, Attempting
<1> QED BY <1>1, <1>2, <1>3, <1>4, <1>5, <1>6, <1>7, <1>8

-----------------------------------------------------------------------------
(* The end of the session, and the outside. *)

LEMMA StopSeenStep ==
  ASSUME BleInv, StopSeen
  PROVE  BleInv'
<1> USE DEF BleInv
<1>e. Running /\ resolved' = TRUE /\ timer' = FALSE
  BY DEF StopSeen
<1>u. UNCHANGED <<holder, blocked, orphans, persistent, stop, life, at, mine, manager, link,
                  connecting, reason, retries, section, stray, asked, chain, waiting, dropping,
                  hughes, killed>>
  BY DEF StopSeen, slotVars, attemptVars
<1>1. PlacesOK' /\ ModesOK' /\ SlotsOK' /\ AttemptOK' /\ EarlyOK' /\ ReasonOK'
  <2>1. PlacesOK' /\ ModesOK' /\ SlotsOK'
    BY <1>u DEF PlacesOK, ModesOK, SlotsOK
  <2>2. AttemptOK'
    BY <1>u DEF AttemptOK, Attempting, Running
  <2>3. EarlyOK'
    BY <1>u DEF EarlyOK, Early, Attempting
  <2>4. ReasonOK'
    BY <1>e DEF ReasonOK
  <2> QED BY <2>1, <2>2, <2>3, <2>4
<1>2. FlagsOK'
  BY <1>e, <1>u DEF FlagsOK
<1>3. HandoverOK'
  BY <1>e, <1>u DEF HandoverOK, Running
<1>4. ReadingOK'
  BY <1>e, <1>u DEF ReadingOK, Early, Attempting, Running
<1>5. DrivenOK'
  BY <1>e, <1>u DEF DrivenOK, Running, Early, Attempting
<1> QED BY <1>1, <1>2, <1>3, <1>4, <1>5

LEMMA CloseStep ==
  ASSUME BleInv, Close
  PROVE  BleInv'
<1> USE DEF BleInv
<1>e. life = "closing" /\ life' = "joining" /\ manager' = NoManager
      /\ link' = IF manager = NoManager THEN link ELSE NoManager
  BY DEF Close
<1>u. UNCHANGED <<holder, blocked, orphans, persistent, stop, resolved, at, mine, connecting,
                  reason, retries, timer, section, stray, asked, chain, waiting, dropping,
                  hughes, killed>>
  BY DEF Close, slotVars, readVars
<1>1. FlagsOK' /\ SlotsOK'
  BY <1>u DEF FlagsOK, SlotsOK
<1>2. PlacesOK'
  BY <1>e, <1>u DEF PlacesOK
<1>3. ModesOK'
  BY <1>e, <1>u DEF ModesOK
<1>4. AttemptOK'
  BY <1>e, <1>u DEF AttemptOK, Attempting, Running
<1>5. EarlyOK'
  BY <1>e, <1>u DEF EarlyOK, Early, Attempting, AttemptOK, Running
<1>6. HandoverOK'
  BY <1>e, <1>u DEF HandoverOK, Running
<1>7. ReadingOK'
  BY <1>e, <1>u DEF ReadingOK, Early, Attempting, Running
<1>8. ReasonOK'
  BY <1>e, <1>u DEF ReasonOK, Running
<1>9. DrivenOK'
  BY <1>e, <1>u DEF DrivenOK, Running, Early, Attempting
<1> QED BY <1>1, <1>2, <1>3, <1>4, <1>5, <1>6, <1>7, <1>8, <1>9

LEMMA ExitStep ==
  ASSUME BleInv, Exit
  PROVE  BleInv'
<1> USE DEF BleInv
<1>e. life = "joining" /\ life' = "ended"
  BY DEF Exit
<1>u. UNCHANGED <<holder, blocked, orphans, persistent, stop, resolved, at, mine, manager,
                  link, connecting, reason, retries, timer, section, stray, asked, chain,
                  waiting, dropping, hughes, killed>>
  BY DEF Exit, slotVars, attemptVars, readVars
<1>1. PlacesOK' /\ FlagsOK' /\ SlotsOK' /\ EarlyOK'
  BY <1>u DEF PlacesOK, FlagsOK, SlotsOK, EarlyOK, Early, Attempting
<1>2. ModesOK'
  BY <1>e, <1>u DEF ModesOK
<1>3. AttemptOK'
  BY <1>e, <1>u DEF AttemptOK, Attempting, Running
<1>4. HandoverOK'
  BY <1>e, <1>u DEF HandoverOK, Running
<1>5. ReadingOK'
  BY <1>e, <1>u DEF ReadingOK, Early, Attempting, Running
<1>6. ReasonOK'
  BY <1>e, <1>u DEF ReasonOK, Running
<1>7. DrivenOK'
  BY <1>e, <1>u DEF DrivenOK, Running, Early, Attempting
<1> QED BY <1>1, <1>2, <1>3, <1>4, <1>5, <1>6, <1>7

LEMMA TeardownStep ==
  ASSUME BleInv, Teardown
  PROVE  BleInv'
<1> USE DEF BleInv
<1>a. Running /\ life' = "closing" /\ connecting' = FALSE
      /\ timer' = FALSE /\ chain' = "none" /\ waiting' = "none" /\ asked' = FALSE /\ dropping' = NoManager
      /\ link' = IF link = dropping THEN NoManager ELSE link
  BY DEF Teardown
<1>b. at' = [t \in Task |-> "idle"]
  BY DEF Teardown
<1>e. /\ holder' = [l \in Lock |-> holder[l] \ Task]
      /\ blocked' = [l \in Lock |-> blocked[l] \ Task]
      /\ orphans' = [l \in Lock |-> blocked[l] \cap Task]
  BY DEF Teardown
<1>c. /\ holder' \in [Lock -> SUBSET (Task \cup Watchdogs)]
      /\ blocked' \in [Lock -> SUBSET (Task \cup Watchdogs)]
      /\ orphans' \in [Lock -> SUBSET Task]
      /\ \A l \in Lock : \A x \in holder'[l] : x \in holder[l]
      /\ \A l \in Lock : \A x \in blocked'[l] : x \notin Task
  BY <1>e DEF SlotsOK
<1>u. UNCHANGED <<persistent, stop, resolved, mine, manager, reason, retries, section, stray,
                  hughes, killed>>
  BY DEF Teardown
<1>1. PlacesOK'
  BY Constants, <1>a, <1>b, <1>c, <1>u DEF PlacesOK, RetryPlace
<1>2. FlagsOK'
  BY Constants, <1>a, <1>b, <1>c, <1>u DEF FlagsOK
<1>3. ModesOK'
  BY Constants, <1>a, <1>b, <1>c, <1>u DEF ModesOK
<1>4. SlotsOK'
  BY Constants, <1>a, <1>b, <1>c, <1>u DEF SlotsOK, Lock
<1>5. AttemptOK'
  BY Constants, <1>a, <1>b, <1>c, <1>u DEF AttemptOK, Attempting, Running
<1>6. EarlyOK'
  BY Constants, <1>a, <1>b, <1>c, <1>u DEF EarlyOK, Early, Attempting
<1>7. HandoverOK'
  BY Constants, <1>a, <1>b, <1>c, <1>u DEF HandoverOK, Running
<1>8. ReadingOK'
  BY Constants, <1>a, <1>b, <1>c, <1>u DEF ReadingOK, Early, Attempting, Running
<1>9. ReasonOK'
  BY Constants, <1>a, <1>b, <1>c, <1>u DEF ReasonOK, Running
<1>10. DrivenOK'
  BY Constants, <1>a, <1>b, <1>c, <1>u DEF DrivenOK, Running, Early, Attempting
<1> QED BY <1>1, <1>2, <1>3, <1>4, <1>5, <1>6, <1>7, <1>8, <1>9, <1>10

LEMMA StopStep ==
  ASSUME BleInv, Stop
  PROVE  BleInv'
<1> USE DEF BleInv
<1>e. stop' = TRUE
  BY DEF Stop
<1>u. UNCHANGED <<holder, blocked, orphans, persistent, life, resolved, at, mine, manager,
                  link, connecting, reason, retries, timer, section, stray, asked, chain,
                  waiting, dropping, hughes, killed>>
  BY DEF Stop, slotVars, attemptVars, readVars, clientVars
<1>1. PlacesOK' /\ ModesOK' /\ SlotsOK' /\ AttemptOK' /\ EarlyOK' /\ HandoverOK' /\ ReadingOK'
      /\ ReasonOK' /\ DrivenOK'
  BY <1>u DEF PlacesOK, ModesOK, SlotsOK, AttemptOK, Attempting, Running, EarlyOK, Early,
         HandoverOK, ReadingOK, ReasonOK, DrivenOK
<1>2. FlagsOK'
  BY <1>e, <1>u DEF FlagsOK
<1> QED BY <1>1, <1>2

LEMMA WatchdogStep ==
  ASSUME BleInv, NEW w \in Watchdogs, HughesStep(w)
  PROVE  BleInv'
<1> USE DEF BleInv
<1>a. holder' \in [Lock -> SUBSET (Task \cup Watchdogs)]
      /\ \A k \in Lock : \A x \in holder'[k] : x \in holder[k]
  BY ReleaseEffect DEF HughesStep, Lock, SlotsOK
<1>e. /\ blocked' \in [Lock -> SUBSET (Task \cup Watchdogs)]
      /\ \A l \in Lock, x \in Task : x \in blocked'[l] => x \in blocked[l]
  <2>1. blocked' = blocked \/ blocked' = [blocked EXCEPT !["connect"] = @ \cup {w}]
    BY DEF HughesStep
  <2> QED BY <2>1, Constants DEF SlotsOK, Lock
<1>u. UNCHANGED <<orphans, persistent, stop, life, resolved, at, mine, manager, link,
                  connecting, reason, retries, timer, section, stray, asked, chain, waiting,
                  dropping, killed>>
  BY DEF HughesStep, attemptVars, readVars, clientVars
<1>1. PlacesOK' /\ FlagsOK' /\ ModesOK' /\ AttemptOK' /\ EarlyOK' /\ HandoverOK' /\ ReadingOK'
      /\ ReasonOK' /\ DrivenOK'
  BY <1>u DEF PlacesOK, FlagsOK, ModesOK, AttemptOK, Attempting, Running, EarlyOK, Early,
         HandoverOK, ReadingOK, ReasonOK, DrivenOK
<1>2. SlotsOK'
  BY Constants, <1>a, <1>e, <1>u DEF SlotsOK, Lock
<1> QED BY <1>1, <1>2

LEMMA ScannedStep ==
  ASSUME BleInv, NEW t \in Task, Scanned(t)
  PROVE  BleInv'
<1> USE DEF BleInv
<1>a. Running /\ at[t] = "scanning" /\ Attempting(t) /\ manager = mine[t]
  BY DEF Scanned, Attempting, EarlyOK, Early
<1>b. /\ holder' \in [Lock -> SUBSET (Task \cup Watchdogs)]
      /\ \A k \in Lock : \A x \in holder'[k] : x \in holder[k]
  BY ReleaseEffect DEF Scanned, Lock
<1>e. \/ /\ at' = [at EXCEPT ![t] = "connect"] /\ blocked' = [blocked EXCEPT !["connect"] = @ \cup {t}]
         /\ UNCHANGED <<connecting, reason>>
      \/ /\ connecting' = FALSE /\ reason' = TRUE /\ blocked' = blocked
         /\ at' \in [Task -> {"idle"} \cup AttemptPlace \cup RetryPlace]
         /\ at'["main"] = "idle" /\ at'["poll"] = "idle" /\ at'["retry"] = "start"
  <2>1. CASE EndAttempt(t, reason \/ manager = mine[t]) /\ UNCHANGED blocked
    <3>1. EndAttempt(t, TRUE)
      BY <1>a, <2>1
    <3> QED BY <1>a, <2>1, <3>1, EndAttemptEffect
  <2>2. CASE ~(EndAttempt(t, reason \/ manager = mine[t]) /\ UNCHANGED blocked)
    BY <2>2 DEF Scanned
  <2> QED BY <2>1, <2>2
<1>c. /\ blocked' \in [Lock -> SUBSET (Task \cup Watchdogs)] /\ blocked'["scan"] = blocked["scan"]
      /\ \A x \in blocked'["connect"] :
           x \in blocked["connect"] \/ (x = t /\ at' = [at EXCEPT ![t] = "connect"])
  BY <1>e, Constants DEF SlotsOK, Lock
<1>u. UNCHANGED <<orphans, persistent, stop, life, resolved, mine, manager, link, retries,
                  timer, section, stray, asked, chain, waiting, dropping, hughes, killed>>
  BY DEF Scanned, readVars
<1>1. ModesOK'
  BY <1>u DEF ModesOK
<1>2. PlacesOK'
  BY Constants, <1>a, <1>b, <1>c, <1>e, <1>u DEF PlacesOK, AttemptPlace, RetryPlace
<1>3. FlagsOK'
  BY Constants, <1>a, <1>b, <1>c, <1>e, <1>u DEF FlagsOK
<1>4. SlotsOK'
  BY Constants, <1>a, <1>b, <1>c, <1>e, <1>u DEF SlotsOK, PlacesOK, AttemptOK, Attempting
<1>5. AttemptOK'
  BY Constants, <1>a, <1>b, <1>c, <1>e, <1>u DEF AttemptOK, Attempting, Running, PlacesOK,
         RetryPlace
<1>6. EarlyOK'
  BY Constants, <1>a, <1>b, <1>c, <1>e, <1>u DEF EarlyOK, Early, Attempting, PlacesOK
<1>7. HandoverOK'
  BY Constants, <1>a, <1>b, <1>c, <1>e, <1>u DEF HandoverOK, AttemptOK, RetryPlace, Running
<1>8. ReadingOK'
  BY Constants, <1>a, <1>b, <1>c, <1>e, <1>u DEF ReadingOK, Early, Attempting, PlacesOK,
         Running
<1>9. ReasonOK'
  <2>1. at'[t] # "idle" \/ at'["retry"] = "start" \/ ~reason'
    BY <1>a, <1>e DEF PlacesOK
  <2> QED BY <2>1, Constants DEF ReasonOK
<1>10. DrivenOK'
  BY Constants, <1>a, <1>b, <1>c, <1>e, <1>u DEF DrivenOK, Running, Early, Attempting, PlacesOK
<1> QED BY <1>1, <1>2, <1>3, <1>4, <1>5, <1>6, <1>7, <1>8, <1>9, <1>10

LEMMA ScanRaisesStep ==
  ASSUME BleInv, NEW t \in Task, ScanRaises(t)
  PROVE  BleInv'
<1> USE DEF BleInv
<1>a. Running /\ at[t] = "scanning" /\ Attempting(t) /\ Early(t)
  BY DEF ScanRaises, Attempting, Early
<1>b. /\ holder' \in [Lock -> SUBSET (Task \cup Watchdogs)]
      /\ \A k \in Lock : \A x \in holder'[k] : x \in holder[k]
  BY ReleaseEffect DEF ScanRaises, Lock
<1>c. link = NoManager /\ ~asked /\ chain # "fresh"
  BY <1>a DEF EarlyOK
<1>d. \A s \in Task : s = t \/ at[s] = "idle"
  BY <1>a, AttemptPlaces
<1>e. /\ connecting' = FALSE /\ reason' = reason
      /\ at' \in [Task -> {"idle"} \cup AttemptPlace \cup RetryPlace]
      /\ at'["main"] = "idle" /\ at'["poll"] = "idle"
      /\ at'["retry"] \in {"idle", "start"}
      /\ (reason /\ t # "retry" => at'["retry"] = "start")
      /\ (~reason => at'["retry"] = "idle")
  <2>1. CASE t = "retry"
    <3>1. connecting' = FALSE /\ reason' = reason /\ at' = [at EXCEPT !["retry"] = "idle"]
      BY <2>1 DEF ScanRaises
    <3> QED BY <2>1, <3>1, <1>d, Constants DEF PlacesOK
  <2>2. CASE t # "retry"
    <3>1. EndAttempt(t, reason) /\ reason \in BOOLEAN
      BY <2>2 DEF ScanRaises, FlagsOK
    <3> QED BY <2>2, <3>1, <1>a, EndAttemptEffect
  <2> QED BY <2>1, <2>2
<1>f. /\ t = "poll" => UNCHANGED <<resolved, timer>> /\ killed' = TRUE
      /\ t # "poll" => resolved' = TRUE /\ timer' = FALSE
      /\ resolved' \in BOOLEAN /\ timer' \in BOOLEAN
  BY DEF ScanRaises, EndsSession, FlagsOK
<1>u. UNCHANGED <<blocked, orphans, persistent, stop, life, mine, manager, link, retries, section,
                  stray, asked, chain, waiting, dropping>>
  BY DEF ScanRaises
<1>1. ModesOK'
  BY <1>u DEF ModesOK
<1>2. PlacesOK'
  BY Constants, <1>e, <1>u DEF PlacesOK, RetryPlace
<1>3. FlagsOK'
  BY <1>e, <1>f, <1>u DEF FlagsOK
<1>4. SlotsOK'
  BY Constants, <1>a, <1>b, <1>d, <1>e, <1>u DEF SlotsOK
<1>5. AttemptOK'
  BY Constants, <1>a, <1>e, <1>u DEF AttemptOK, Attempting, Running
<1>6. EarlyOK'
  BY Constants, <1>e DEF EarlyOK, Early, Attempting
<1>7. HandoverOK'
  BY Constants, <1>a, <1>c, <1>e, <1>f, <1>u DEF HandoverOK, Running
<1>8. ReadingOK'
  BY <1>c, <1>u DEF ReadingOK
<1>9. ReasonOK'
  BY Constants, <1>e, <1>f, <1>u DEF ReasonOK
<1>10. DrivenOK'
  BY <1>f DEF DrivenOK
<1> QED BY <1>1, <1>2, <1>3, <1>4, <1>5, <1>6, <1>7, <1>8, <1>9, <1>10

LEMMA SetUpStep ==
  ASSUME BleInv, NEW t \in Task, SetUp(t)
  PROVE  BleInv'
<1> USE DEF BleInv
<1>a. Running /\ at[t] = "setup" /\ Attempting(t) /\ manager = mine[t] /\ mine[t] \in Managers
  BY DEF SetUp, Attempting, EarlyOK, Early, PlacesOK
<1>e. \/ /\ at' = [at EXCEPT ![t] = "failed"]
         /\ UNCHANGED <<connecting, reason, retries, timer, stray, asked>>
      \/ /\ connecting' = FALSE /\ reason' = TRUE
         /\ at' \in [Task -> {"idle"} \cup AttemptPlace \cup RetryPlace]
         /\ at'["main"] = "idle" /\ at'["poll"] = "idle" /\ at'["retry"] = "start"
         /\ UNCHANGED <<retries, timer, stray, asked>>
      \/ /\ link = manager /\ retries' = 0 /\ timer' = TRUE /\ stray' = FALSE /\ asked' = TRUE
         /\ at' = [at EXCEPT ![t] = "write"]
         /\ UNCHANGED <<connecting, reason>>
  <2>1. CASE link # mine[t]
    BY <2>1 DEF SetUp
  <2>2. CASE link = mine[t] /\ reason
    <3>1. EndAttempt(t, TRUE) /\ UNCHANGED <<retries, timer, stray, asked>>
      BY <2>2 DEF SetUp, FlagsOK
    <3> QED BY <1>a, <3>1, EndAttemptEffect
  <2>3. CASE link = mine[t] /\ ~reason
    BY <1>a, <2>3, Constants DEF SetUp, ReadSection
  <2> QED BY <2>1, <2>2, <2>3
<1>u. UNCHANGED <<holder, blocked, orphans, persistent, stop, life, resolved, mine, manager,
                  link, section, chain, waiting, dropping, hughes, killed>>
  BY DEF SetUp, slotVars
<1>1. PlacesOK'
  BY Constants, <1>a, <1>e, <1>u DEF PlacesOK, AttemptPlace, RetryPlace
<1>2. FlagsOK'
  BY Constants, <1>a, <1>e, <1>u DEF FlagsOK
<1>3. ModesOK'
  BY Constants, <1>a, <1>e, <1>u DEF ModesOK
<1>4. SlotsOK'
  BY Constants, <1>a, <1>e, <1>u DEF SlotsOK, AttemptOK, Attempting
<1>5. AttemptOK'
  BY Constants, <1>a, <1>e, <1>u DEF AttemptOK, Attempting, Running, PlacesOK, RetryPlace
<1>6. EarlyOK'
  BY Constants, <1>a, <1>e, <1>u DEF EarlyOK, Early, Attempting, AttemptOK, PlacesOK
<1>7. HandoverOK'
  BY Constants, <1>a, <1>e, <1>u DEF HandoverOK, EarlyOK, Early, Running
<1>8. ReadingOK'
  BY Constants, <1>a, <1>e, <1>u DEF ReadingOK, Early, Attempting, PlacesOK, Running
<1>9. ReasonOK'
  BY Constants, <1>a, <1>e, <1>u DEF ReasonOK, Running, PlacesOK
<1>10. DrivenOK'
  BY Constants, <1>a, <1>e, <1>u DEF DrivenOK, Running, Early, Attempting, PlacesOK
<1> QED BY <1>1, <1>2, <1>3, <1>4, <1>5, <1>6, <1>7, <1>8, <1>9, <1>10

LEMMA DropStep ==
  ASSUME BleInv, Drop
  PROVE  BleInv'
<1> USE DEF BleInv
<1>a. link' = NoManager /\ asked' = FALSE
  BY DEF Drop
<1>e. \/ UNCHANGED <<at, reason>>
      \/ /\ Running /\ reason' = TRUE
         /\ at' \in [Task -> {"idle"} \cup AttemptPlace \cup RetryPlace]
         /\ \A t \in Task : t # "retry" => at'[t] = at[t]
         /\ \/ at'["retry"] = at["retry"] /\ \E t \in Task : at[t] # "idle"
            \/ at["retry"] = "idle" /\ at'["retry"] = "start" /\ \A t \in Task : ~Attempting(t)
         /\ \E t \in Task : at'[t] # "idle"
  <2>1. CASE Silent
    BY <2>1 DEF Drop
  <2>2. CASE ~Silent
    <3>1. Running /\ Trigger(at, connecting)
      BY <2>2 DEF Drop, Silent
    <3> QED BY <3>1, TriggerEffect
  <2> QED BY <2>1, <2>2
<1>u. UNCHANGED <<holder, blocked, orphans, persistent, stop, life, resolved, mine, manager,
                  connecting, retries, timer, section, stray, chain, waiting, dropping, hughes, killed>>
  BY DEF Drop, slotVars
<1>1. ModesOK'
  BY <1>u DEF ModesOK
<1>2. PlacesOK'
  BY Constants, <1>a, <1>e, <1>u DEF PlacesOK
<1>3. FlagsOK'
  BY Constants, <1>a, <1>e, <1>u DEF FlagsOK
<1>4. SlotsOK'
  BY Constants, <1>a, <1>e, <1>u DEF SlotsOK
<1>5. AttemptOK'
  BY Constants, <1>a, <1>e, <1>u DEF AttemptOK, Attempting, Running
<1>6. EarlyOK'
  BY Constants, <1>a, <1>e, <1>u DEF EarlyOK, Early, Attempting
<1>7. HandoverOK'
  BY Constants, <1>a, <1>e, <1>u DEF HandoverOK, Running
<1>8. ReadingOK'
  BY Constants, <1>a, <1>e, <1>u DEF ReadingOK, Early, Attempting, Running
<1>9. ReasonOK'
  BY Constants, <1>a, <1>e, <1>u DEF ReasonOK, Running
<1>10. DrivenOK'
  BY Constants, <1>a, <1>e, <1>u DEF DrivenOK, Running, Early, Attempting
<1> QED BY <1>1, <1>2, <1>3, <1>4, <1>5, <1>6, <1>7, <1>8, <1>9, <1>10

LEMMA PollDueStep ==
  ASSUME BleInv, PollDue
  PROVE  BleInv'
<1> USE DEF BleInv
<1>a. Running /\ \A t \in Task : at[t] # "write"
  BY DEF PollDue
<1>b. waiting = "fresh" /\ at["retry"] = "idle" => \A t \in Task : at[t] = "idle"
  BY <1>a, AttemptPlaces, Constants DEF EarlyOK, Early, Attempting, PlacesOK, AttemptPlace, RetryPlace
<1>e. \/ /\ waiting = "old" \/ at["retry"] # "idle"
         /\ waiting' = "none"
         /\ UNCHANGED <<blocked, at, mine, manager, connecting, link, section, asked, chain, timer, stray, killed>>
      \/ /\ waiting = "fresh" /\ at["retry"] = "idle" /\ persistent /\ manager # NoManager
         /\ waiting' = "none" /\ timer' = TRUE /\ stray' = FALSE
         /\ asked' \in BOOLEAN /\ (asked' => link = manager)
         /\ UNCHANGED <<blocked, at, mine, manager, connecting, link, section, chain>>
      \/ /\ waiting = "fresh" /\ at["retry"] = "idle"
         /\ connecting' = TRUE /\ section' = 1 /\ chain' = Old(chain) /\ waiting' = "none"
         /\ manager' \in Managers /\ mine' \in [Task -> Managers] /\ mine'["poll"] = manager'
         /\ link' = NoManager /\ asked' = FALSE
         /\ at' = [at EXCEPT !["poll"] = "scan"]
         /\ blocked' = [blocked EXCEPT !["scan"] = @ \cup {"poll"}]
         /\ UNCHANGED <<timer, stray>>
  <2>1. waiting \in {"fresh", "old"}
    BY DEF PollDue, ModesOK
  <2>2. CASE waiting = "old" \/ Reconnecting
    BY <2>2 DEF PollDue, Reconnecting, attemptVars
  <2>3. CASE waiting = "fresh" /\ ~Reconnecting /\ persistent /\ manager # NoManager
    BY <2>3 DEF PollDue, Reconnecting, ReadSection, attemptVars
  <2>4. CASE waiting = "fresh" /\ ~Reconnecting /\ ~(persistent /\ manager # NoManager)
    <3>1. Attempt("poll", "none") /\ UNCHANGED <<timer, stray>> /\ at["retry"] = "idle"
      BY <2>4 DEF PollDue, Reconnecting
    <3> QED BY <2>4, <3>1, Constants, AttemptEffect
  <2> QED BY <2>1, <2>2, <2>3, <2>4
<1>c. /\ blocked' \in [Lock -> SUBSET (Task \cup Watchdogs)] /\ blocked'["connect"] = blocked["connect"]
      /\ \A x \in blocked'["scan"] :
           x \in blocked["scan"] \/ (x = "poll" /\ at' = [at EXCEPT !["poll"] = "scan"])
  BY <1>e, Constants DEF SlotsOK, Lock
<1>u. UNCHANGED <<holder, orphans, persistent, stop, life, resolved, reason, retries, dropping,
                  hughes>>
  BY DEF PollDue
<1>1. PlacesOK'
  BY Constants, OldIsNotFresh, <1>a, <1>b, <1>c, <1>e, <1>u DEF PlacesOK, AttemptPlace,
         RetryPlace
<1>2. FlagsOK'
  BY Constants, OldIsNotFresh, <1>a, <1>b, <1>c, <1>e, <1>u DEF FlagsOK
<1>3. ModesOK'
  BY Constants, OldIsNotFresh, <1>a, <1>b, <1>c, <1>e, <1>u DEF ModesOK
<1>4. SlotsOK'
  BY Constants, OldIsNotFresh, <1>a, <1>b, <1>c, <1>e, <1>u DEF SlotsOK, PlacesOK
<1>5. AttemptOK'
  BY Constants, OldIsNotFresh, <1>a, <1>b, <1>c, <1>e, <1>u DEF AttemptOK, Attempting, Running,
         PlacesOK
<1>6. EarlyOK'
  BY Constants, OldIsNotFresh, <1>a, <1>b, <1>c, <1>e, <1>u DEF EarlyOK, Early, Attempting,
         HandoverOK, PlacesOK
<1>7. HandoverOK'
  BY Constants, OldIsNotFresh, <1>a, <1>b, <1>c, <1>e, <1>u DEF HandoverOK, Running
<1>8. ReadingOK'
  BY Constants, OldIsNotFresh, <1>a, <1>b, <1>c, <1>e, <1>u DEF ReadingOK, Early, Attempting,
         Running
<1>9. ReasonOK'
  BY Constants, OldIsNotFresh, <1>a, <1>b, <1>c, <1>e, <1>u DEF ReasonOK, Running
<1>10. DrivenOK'
  <2>1. CASE at["retry"] # "idle" /\ UNCHANGED at
    <3>1. at["retry"] \in RetryPlace \/ Early("retry")
      BY <1>a, <2>1, Constants DEF PlacesOK, AttemptPlace, Early, Attempting
    <3> QED BY <2>1, <3>1, Constants DEF DrivenOK, Early, Attempting
  <2>2. CASE timer'
    BY <2>2 DEF DrivenOK
  <2>3. CASE at' = [at EXCEPT !["poll"] = "scan"]
    BY <2>3, Constants DEF DrivenOK, PlacesOK, Early, Attempting
  <2>4. CASE waiting = "old" /\ UNCHANGED <<at, dropping, timer, chain, stray, killed, reason, resolved, life>>
    BY <2>4 DEF DrivenOK, Early, Attempting, Running
  <2> QED BY <1>e, <1>u, <2>1, <2>2, <2>3, <2>4
<1> QED BY <1>1, <1>2, <1>3, <1>4, <1>5, <1>6, <1>7, <1>8, <1>9, <1>10

-----------------------------------------------------------------------------
(* The slots. *)

LEMMA GrantStep ==
  ASSUME BleInv, NEW l \in Lock, Grant(l)
  PROVE  BleInv'
<1> USE DEF BleInv
<1>e. \/ \E t \in Task :
           /\ t \in blocked[l] /\ holder' = [holder EXCEPT ![l] = {t}]
           /\ blocked' = [blocked EXCEPT ![l] = @ \ {t}]
           /\ at' = [at EXCEPT ![t] = IF l = "scan" THEN "scanning" ELSE "connecting"]
           /\ UNCHANGED orphans
      \/ /\ \E t \in Task \cup Watchdogs : holder' = [holder EXCEPT ![l] = {t}]
         /\ blocked' \in [Lock -> SUBSET (Task \cup Watchdogs)]
         /\ orphans' \in [Lock -> SUBSET Task]
         /\ \A k \in Lock : blocked'[k] \subseteq blocked[k]
         /\ UNCHANGED at
  <2>1. CASE \E t \in blocked[l] : t \notin Task /\ holder' = [holder EXCEPT ![l] = {t}]
                                    /\ blocked' = [blocked EXCEPT ![l] = @ \ {t}] /\ UNCHANGED <<at, orphans>>
    <3>1. PICK t \in blocked[l] : /\ t \notin Task /\ holder' = [holder EXCEPT ![l] = {t}]
                                  /\ blocked' = [blocked EXCEPT ![l] = @ \ {t}]
      BY <2>1
    <3>2. t \in Task \cup Watchdogs
      BY DEF SlotsOK
    <3>3. /\ blocked' \in [Lock -> SUBSET (Task \cup Watchdogs)]
          /\ \A k \in Lock : blocked'[k] \subseteq blocked[k]
      BY <3>1 DEF SlotsOK
    <3>4. orphans' \in [Lock -> SUBSET Task] /\ UNCHANGED at
      BY <2>1 DEF SlotsOK
    <3> QED BY <3>1, <3>2, <3>3, <3>4
  <2>2. CASE \E t \in orphans[l] : holder' = [holder EXCEPT ![l] = {t}]
                                    /\ orphans' = [orphans EXCEPT ![l] = @ \ {t}] /\ UNCHANGED <<at, blocked>>
    <3>1. PICK t \in orphans[l] : /\ holder' = [holder EXCEPT ![l] = {t}]
                                  /\ orphans' = [orphans EXCEPT ![l] = @ \ {t}]
      BY <2>2
    <3>2. t \in Task \cup Watchdogs
      BY DEF SlotsOK
    <3>3. orphans' \in [Lock -> SUBSET Task]
      BY <3>1 DEF SlotsOK
    <3>4. /\ blocked' \in [Lock -> SUBSET (Task \cup Watchdogs)]
          /\ \A k \in Lock : blocked'[k] \subseteq blocked[k]
          /\ UNCHANGED at
      BY <2>2 DEF SlotsOK
    <3> QED BY <3>1, <3>2, <3>3, <3>4
  <2>3. CASE \E t \in blocked[l] :
               t \in Task /\ holder' = [holder EXCEPT ![l] = {t}] /\ blocked' = [blocked EXCEPT ![l] = @ \ {t}]
               /\ at' = [at EXCEPT ![t] = IF l = "scan" THEN "scanning" ELSE "connecting"] /\ UNCHANGED orphans
    BY <2>3 DEF SlotsOK
  <2> QED BY <2>1, <2>2, <2>3 DEF Grant
<1>b. \/ UNCHANGED at
      \/ \E t \in Task :
           \/ at[t] = "scan" /\ at' = [at EXCEPT ![t] = "scanning"]
           \/ at[t] = "connect" /\ at' = [at EXCEPT ![t] = "connecting"]
  BY <1>e, Constants DEF SlotsOK
<1>u. UNCHANGED <<persistent, stop, life, resolved, mine, manager, link, connecting, reason,
                  retries, timer, section, stray, asked, chain, waiting, dropping, killed>>
  BY DEF Grant, readVars
<1>1. FlagsOK' /\ ModesOK'
  BY <1>u DEF FlagsOK, ModesOK
<1>2. PlacesOK'
  BY Constants, <1>b, <1>u DEF PlacesOK, AttemptPlace, RetryPlace
<1>3. SlotsOK'
  <2>1. CASE \E t \in Task :
               /\ t \in blocked[l] /\ holder' = [holder EXCEPT ![l] = {t}]
               /\ blocked' = [blocked EXCEPT ![l] = @ \ {t}]
               /\ at' = [at EXCEPT ![t] = IF l = "scan" THEN "scanning" ELSE "connecting"]
               /\ UNCHANGED orphans
    BY <2>1, Constants DEF SlotsOK, PlacesOK, Lock
  <2>2. CASE /\ \E t \in Task \cup Watchdogs : holder' = [holder EXCEPT ![l] = {t}]
             /\ blocked' \in [Lock -> SUBSET (Task \cup Watchdogs)]
             /\ orphans' \in [Lock -> SUBSET Task]
             /\ \A k \in Lock : blocked'[k] \subseteq blocked[k]
             /\ UNCHANGED at
    BY <2>2 DEF SlotsOK, Lock
  <2> QED BY <1>e, <2>1, <2>2
<1>4. AttemptOK'
  BY Constants, <1>b, <1>u DEF AttemptOK, Attempting, Running, PlacesOK, RetryPlace
<1>5. EarlyOK'
  BY Constants, <1>b, <1>u DEF EarlyOK, Early, Attempting, PlacesOK
<1>6. HandoverOK'
  BY Constants, <1>b, <1>u DEF HandoverOK, PlacesOK, Running
<1>7. ReadingOK'
  BY Constants, <1>b, <1>u DEF ReadingOK, Early, Attempting, PlacesOK, Running
<1>8. ReasonOK'
  BY Constants, <1>b, <1>u DEF ReasonOK, Running, PlacesOK
<1>9. DrivenOK'
  BY Constants, <1>b, <1>u DEF DrivenOK, Running, Early, Attempting, PlacesOK
<1> QED BY <1>1, <1>2, <1>3, <1>4, <1>5, <1>6, <1>7, <1>8, <1>9

-----------------------------------------------------------------------------
(* The invariant, and what follows from it. *)

LEMMA InitInv == Init => BleInv
<1> SUFFICES ASSUME Init PROVE BleInv
  OBVIOUS
<1>1. at = [t \in Task |-> IF t = "main" THEN "scan" ELSE "idle"]
  BY DEF Init
<1>2. PICK m \in Managers : mine = [t \in Task |-> m] /\ manager = m
  BY DEF Init
<1>3. /\ life = "running" /\ resolved = FALSE /\ connecting = TRUE /\ link = NoManager /\ reason = FALSE
      /\ asked = FALSE /\ chain = "none" /\ waiting = "none" /\ dropping = NoManager /\ retries = 0 /\ section = 1
  BY DEF Init
<1>4. PlacesOK
  BY <1>1, <1>2, <1>3, Constants DEF PlacesOK, AttemptPlace, RetryPlace
<1>5. FlagsOK
  BY DEF Init, FlagsOK
<1>6. ModesOK
  BY <1>3, Constants DEF ModesOK
<1>7. SlotsOK
  BY <1>1, Constants DEF Init, SlotsOK, Lock
<1>8. \A t \in Task : Attempting(t) <=> t = "main"
  BY <1>1 DEF Attempting
<1>9. AttemptOK
  BY <1>1, <1>3, <1>8, Constants DEF AttemptOK, Running, RetryPlace
<1>10. EarlyOK /\ HandoverOK
  BY <1>2, <1>3, Constants DEF EarlyOK, HandoverOK, Running
<1>11. ReadingOK /\ ReasonOK /\ DrivenOK
  BY <1>1, <1>3, <1>8, Constants DEF ReadingOK, ReasonOK, DrivenOK, Early, Running
<1> QED BY <1>4, <1>5, <1>6, <1>7, <1>9, <1>10, <1>11 DEF BleInv

LEMMA NextInv == BleInv /\ [Next]_vars => BleInv'
<1> SUFFICES ASSUME BleInv, [Next]_vars PROVE BleInv'
  OBVIOUS
<1>1. CASE ClientStep
  BY <1>1, ScannedStep, ScanRaisesStep, ConnectedStep, SetUpStep, FailedStep, WrittenStep, RoundStep, ReleasedStep,
     ReconnectStep, ReadTimeoutStep, NextSectionStep, DroppedStep, PollDueStep, StopSeenStep,
     TeardownStep, CloseStep, ExitStep DEF ClientStep
<1>2. CASE SlotStep
  BY <1>2, GrantStep DEF SlotStep
<1>3. CASE Stop
  BY <1>3, StopStep
<1>4. CASE Drop \/ Answer \/ Unknown
  BY <1>4, DropStep, AnswerStep, UnknownStep
<1>5. CASE \E w \in Watchdogs : HughesStep(w)
  BY <1>5, WatchdogStep
<1>6. CASE UNCHANGED vars
  <2>1. UNCHANGED slotVars /\ UNCHANGED clientVars /\ UNCHANGED <<persistent, stop>>
    BY <1>6 DEF vars
  <2>2. /\ UNCHANGED <<holder, blocked, orphans, persistent, stop, life, resolved, at, mine, manager, link>>
        /\ UNCHANGED <<connecting, reason, retries, timer, section, stray, killed, asked, chain, waiting, dropping>>
    BY <2>1 DEF slotVars, clientVars, attemptVars, readVars
  <2>3. (PlacesOK /\ FlagsOK /\ ModesOK /\ SlotsOK /\ AttemptOK)'
    BY <2>2 DEF BleInv, PlacesOK, FlagsOK, ModesOK, SlotsOK, AttemptOK, Attempting, Running
  <2>4. (EarlyOK /\ HandoverOK /\ ReadingOK /\ ReasonOK /\ DrivenOK)'
    BY <2>2 DEF BleInv, EarlyOK, HandoverOK, ReadingOK, ReasonOK, DrivenOK, Early, Attempting, Running
  <2> QED BY <2>3, <2>4 DEF BleInv
<1> QED BY <1>1, <1>2, <1>3, <1>4, <1>5, <1>6 DEF Next

(* The invariant holds throughout. *)
LEMMA Invariance == Spec => []BleInv
BY InitInv, NextInv, PTL DEF Spec

(* A set of which all members are equal has one member at most. *)
LEMMA AtMostOne ==
  ASSUME NEW S, \A s, t \in S : s = t
  PROVE  Cardinality(S) <= 1
<1>1. CASE S = {}
  BY <1>1, FS_EmptySet
<1>2. CASE S # {}
  <2>1. PICK s \in S : TRUE
    BY <1>2
  <2>2. S = {s}
    OBVIOUS
  <2>3. Cardinality({s}) = 1
    BY FS_Singleton
  <2> QED BY <2>2, <2>3
<1> QED BY <1>1, <1>2

(* Every variable keeps its type, and a slot has one holder at most.        *)
THEOREM BluetoothTypeCorrect == Spec => []TypeOK
<1>1. BleInv => TypeOK
  <2> SUFFICES ASSUME BleInv PROVE TypeOK
    OBVIOUS
  <2>1. \A l \in Lock : Cardinality(holder[l]) <= 1
    BY AtMostOne DEF BleInv, SlotsOK
  <2>2. \A l \in Lock : holder[l] \cup blocked[l] \subseteq Task \cup Watchdogs
    BY DEF BleInv, SlotsOK
  <2>3. at \in [Task -> {"idle", "start", "release", "delay", "scan", "scanning", "connect", "connecting",
                         "setup", "failed", "write"}]
    BY DEF BleInv, PlacesOK, AttemptPlace, RetryPlace
  <2> QED BY <2>1, <2>2, <2>3 DEF BleInv, PlacesOK, ModesOK, TypeOK
<1> QED BY <1>1, Invariance, PTL

(* However failures during a setup, read timeouts, dropped links, polls and *)
(* retries interleave, the client never makes two connection attempts at    *)
(* once, never ends with a link, and a nonpersistent client holds none      *)
(* while it only waits for its next poll.                                   *)
THEOREM OneLinkAtATime == Spec => []OneLink
<1>1. BleInv => OneLink
  <2> SUFFICES ASSUME BleInv PROVE OneLink
    OBVIOUS
  <2>1. OneAttempt
    BY AtMostOne DEF BleInv, AttemptOK, OneAttempt
  <2>2. CASE life \in {"joining", "ended"}
    BY <2>1, <2>2 DEF BleInv, HandoverOK, OneLink, LinkReleased
  <2>3. ASSUME ~persistent, ~resolved, waiting = "fresh", ~timer, ~stray, chain = "none",
               \A t \in Task : at[t] = "idle"
        PROVE  link = NoManager
    <3>1. Running /\ dropping = NoManager /\ link \in {NoManager, manager}
      BY <2>3 DEF BleInv, HandoverOK
    <3>2. ~reason
      BY <2>3, <3>1 DEF BleInv, ReasonOK
    <3>3. (\A t \in Task : ~Early(t)) /\ at["retry"] \notin RetryPlace
      BY <2>3, Constants DEF Early, Attempting, RetryPlace
    <3> QED BY <2>3, <3>1, <3>2, <3>3 DEF BleInv, ReadingOK
  <2> QED BY <2>1, <2>2, <2>3 DEF OneLink, LinkReleased
<1> QED BY <1>1, Invariance, PTL

(* A running client is never left with nothing that will move it on: a      *)
(* read timeout, a pause, a poll, a disconnection, or a task at work, the   *)
(* retry worker included.  Two cases are excepted, each marked where it     *)
(* begins: a read timeout that an unknown notification cancelled, and a     *)
(* scan that raised in the poll task.  A scan that raises in the main task  *)
(* or in the retry worker ends the session instead.                         *)
THEOREM ClientIsAlwaysDriven == Spec => []AlwaysDriven
<1>1. BleInv => AlwaysDriven
  <2> SUFFICES ASSUME BleInv, Running PROVE AlwaysDriven
    BY DEF AlwaysDriven
  <2>1. at["retry"] \in RetryPlace => at["retry"] # "idle"
    BY DEF RetryPlace
  <2>2. \A t \in Task : Early(t) => at[t] # "idle"
    BY DEF Early, Attempting
  <2> QED BY <2>1, <2>2, Constants DEF BleInv, DrivenOK, ReasonOK, AlwaysDriven, Driven
<1> QED BY <1>1, Invariance, PTL
=============================================================================
