--------------------------- MODULE SessionProofs ---------------------------
(***************************************************************************)
(* Proofs about SourceSession for any number of sections, reloads, failed  *)
(* sources and interrupts, and with any set of sources that hang.  The     *)
(* argument: at each place the main thread knows every source that lives,  *)
(* by the order of starting, by source_map or by the set it joins.         *)
(*                                                                         *)
(* At four places an interrupt makes it forget a source.  Then there is no *)
(* candidate and the program ends, so what a reload promises needs no      *)
(* assumption about them; what the end of the program promises does.  An   *)
(* interrupt that an accepted candidate survives makes it forget nothing.  *)
(*                                                                         *)
(* The second part is about RuntimeRules, which runs in such a session, for *)
(* any ages, windows, delays and retries.                                  *)
(***************************************************************************)
EXTENDS SourceSession, RuntimeRules, TLAPS

Lives == {"built", "launched", "alive", "dead"}
Source == [section : Section, generation : Nat, life : Lives]

(* Thread.start, before the source is recorded, and the stop_and_join of a *)
(* failed start_enabled.                                                   *)
Forgetting == {"starting", "restarting", "rollback", "rollback_join"}

(* No interrupt can have made this session forget a source. *)
Careful == candidate \/ interrupts = 0 \/ InterruptAt \cap Forgetting = {}

NobodyLives == \A i \in Thread : ~ Living(i)

(* What the main thread knows of the sources, place by place. *)

(* The last n threads are the sources of the sections 1 to n. *)
Row(n) ==
  /\ n <= Latest
  /\ \A s \in 1 .. n : threads[Latest - n + s].section = s
  /\ \A i \in Thread : Living(i) => i > Latest - n

StartInv ==
  /\ pc = "start" =>
       /\ Row(at - 1)
       /\ \A i \in Thread : i > Latest - (at - 1) => HasIdent(i)
  /\ pc \in {"launch", "starting"} =>
       /\ Row(at)
       /\ \A i \in Thread : i > Latest - at /\ i < Latest => HasIdent(i)
  /\ pc = "launch" => threads[Latest].life = "built"
  /\ pc = "starting" => threads[Latest].life # "built"
  /\ pc \in {"launch", "starting"} => threads[Latest].generation = generation

(* source_map leads to the living source of every section. *)
Mapped ==
  \A s \in Section :
    sources[s] \in Thread /\ threads[sources[s]].section = s /\ HasIdent(sources[s])

SuperviseInv ==
  /\ pc \in Supervising => Mapped
  /\ pc \in Supervising \ {"restarting"} =>
       \A i \in Thread : Living(i) => sources[threads[i].section] = i
  /\ pc \in {"relaunch", "restarting"} =>
       /\ threads[sources[at]].life = "dead"
       /\ threads[Latest].section = at
       /\ threads[Latest].generation = generation
  /\ pc = "relaunch" => threads[Latest].life = "built"
  /\ pc = "restarting" =>
       /\ threads[Latest].life # "built"
       /\ \A i \in Thread : Living(i) => i = Latest \/ sources[threads[i].section] = i

TeardownInv ==
  /\ pc = "rollback" => \A i \in Thread : Living(i) => HasIdent(i)
  /\ pc \in {"close_service", "stop"} =>
       \A i \in Thread : Living(i) => HasIdent(i) /\ sources[threads[i].section] = i
  /\ pc \in {"rollback_join", "join", "join_late"} => \A i \in Thread : Living(i) => i \in joining
  /\ pc = "close_publisher" => NobodyLives
  /\ pc = "ended" /\ error # "raised" => NobodyLives
  /\ publisher = "closed" => NobodyLives

IdleInv == pc \in {"begin", "connect"} => NobodyLives

KnownInv ==
  /\ IdleInv
  /\ StartInv
  /\ SuperviseInv
  /\ Careful => TeardownInv

(* A living source belongs to the latest session. *)
CurrentInv == \A i \in Thread : Living(i) => threads[i].generation = generation

(* What the main thread knows of the session itself. *)
PlaceInv ==
  /\ candidate => generation < MaxGenerations
  /\ pc = "begin" => generation < MaxGenerations
  /\ pc = "connect" => at = 1
  /\ pc \in {"relaunch", "restarting"} \cup Starting => at \in Section
  /\ pc \in {"connect"} \cup Starting \cup Supervising => error = "none"
  /\ pc \in {"connect", "rollback", "rollback_join"} \cup Starting => ~ candidate
  /\ pc \in Supervising \ Accepting => ~ candidate

OpenInv ==
  /\ pc \notin {"begin", "ended"} => publisher = "open"
  /\ pc \in {"begin", "stop", "join", "join_late", "close_publisher"} => ~ service
  /\ pc = "begin" => publisher # "open"
  /\ pc = "ended" /\ error # "raised" => ~ service /\ publisher # "open"

IInv ==
  /\ TypeOK
  /\ PlaceInv
  /\ OpenInv
  /\ CurrentInv
  /\ OneUserPerSection
  /\ KnownInv
-----------------------------------------------------------------------------
(* What the two helpers do to the list of threads. *)

LEMMA LiveEffect ==
  ASSUME threads \in Seq(Source), NEW i \in Thread, NEW life \in Lives, Live(i, life)
  PROVE  /\ threads' \in Seq(Source)
         /\ Len(threads') = Len(threads)
         /\ threads'[i] = [section |-> threads[i].section, generation |-> threads[i].generation,
                           life |-> life]
         /\ \A j \in Thread : j # i => threads'[j] = threads[j]
<1>1. threads[i] \in Source
  BY DEF Thread
<1>2. [threads[i] EXCEPT !.life = life] = [section |-> threads[i].section,
                                           generation |-> threads[i].generation, life |-> life]
  BY <1>1 DEF Source
<1>3. threads' = [threads EXCEPT ![i] = [section |-> threads[i].section,
                                         generation |-> threads[i].generation, life |-> life]]
  BY <1>2 DEF Live
<1>4. [section |-> threads[i].section, generation |-> threads[i].generation,
       life |-> life] \in Source
  BY <1>1 DEF Source
<1> QED BY <1>3, <1>4 DEF Thread

LEMMA BuildEffect ==
  ASSUME threads \in Seq(Source), generation \in Nat, NEW s \in Section, BuildSource(s)
  PROVE  /\ threads' \in Seq(Source)
         /\ Len(threads') = Len(threads) + 1
         /\ threads'[Len(threads) + 1] = [section |-> s, generation |-> generation,
                                          life |-> "built"]
         /\ \A j \in Thread : threads'[j] = threads[j]
<1>1. [section |-> s, generation |-> generation, life |-> "built"] \in Source
  BY DEF Source, Lives
<1> QED BY <1>1 DEF BuildSource, Thread
-----------------------------------------------------------------------------
(* Types, and where the main thread is. *)

PlacesOK ==
  /\ pc \in Place
  /\ candidate \in BOOLEAN
  /\ error \in {"none", "interrupt", "raised"}
  /\ stop \in BOOLEAN
  /\ service \in BOOLEAN
  /\ publisher \in {"none", "open", "closed"}

CountsOK ==
  /\ generation \in 0 .. MaxGenerations
  /\ at \in 1 .. Sections + 1
  /\ failures \in 0 .. MaxFailures
  /\ interrupts \in 0 .. MaxInterrupts

ThreadsOK ==
  /\ threads \in Seq(Source)
  /\ sources \in [Section -> {0} \cup Thread]
  /\ joining \subseteq Thread

LEMMA TypeParts ==
  /\ TypeOK <=> PlacesOK /\ CountsOK /\ ThreadsOK
  /\ TypeOK' <=> PlacesOK' /\ CountsOK' /\ ThreadsOK'
<1>1. TypeOK <=> PlacesOK /\ CountsOK /\ ThreadsOK
  BY Zenon DEF TypeOK, PlacesOK, CountsOK, ThreadsOK, Source, Lives
<1>2. TypeOK' <=> PlacesOK' /\ CountsOK' /\ ThreadsOK'
  BY Zenon DEF TypeOK, PlacesOK, CountsOK, ThreadsOK, Source, Lives
<1> QED BY <1>1, <1>2

LEMMA Bounds ==
  /\ Sections \in Nat /\ Sections > 0
  /\ MaxGenerations \in Nat /\ MaxGenerations > 0
  /\ MaxFailures \in Nat
  /\ MaxInterrupts \in Nat
BY SessionAssumption

LEMMA ScalarsInit == Init => PlacesOK /\ CountsOK /\ PlaceInv
<1> SUFFICES ASSUME Init PROVE PlacesOK /\ CountsOK /\ PlaceInv
  OBVIOUS
<1>1. PlacesOK
  BY DEF Init, PlacesOK, Place, Starting, Accepting, Supervising
<1>2. CountsOK
  BY Bounds DEF Init, CountsOK
<1>3. PlaceInv
  BY Bounds DEF Init, PlaceInv, Starting, Accepting, Supervising, Section
<1> QED BY <1>1, <1>2, <1>3

LEMMA ScalarsStep ==
  PlacesOK /\ CountsOK /\ PlaceInv /\ [Next]_vars => PlacesOK' /\ CountsOK' /\ PlaceInv'
<1> SUFFICES ASSUME PlacesOK, CountsOK, PlaceInv, [Next]_vars
             PROVE  PlacesOK' /\ CountsOK' /\ PlaceInv'
  OBVIOUS
<1>1. CASE Build
  <2>1. PlacesOK'
    BY <1>1 DEF Build, sessionVars,
       PlacesOK, Place, Starting, Accepting, Supervising
  <2>2. CountsOK'
    BY <1>1, Bounds DEF Build, sessionVars,
       CountsOK, PlaceInv, Starting, Accepting, Supervising, Section
  <2>3. PlaceInv'
    BY <1>1, Bounds DEF Build, sessionVars,
       PlacesOK, CountsOK, PlaceInv, Starting, Accepting, Supervising, Section
  <2> QED BY <2>1, <2>2, <2>3
<1>2. CASE Connect
  <2>1. PlacesOK'
    BY <1>2 DEF Connect, sessionVars,
       PlacesOK, Place, Starting, Accepting, Supervising
  <2>2. CountsOK'
    BY <1>2, Bounds DEF Connect, sessionVars,
       CountsOK, PlaceInv, Starting, Accepting, Supervising, Section
  <2>3. PlaceInv'
    BY <1>2, Bounds DEF Connect, sessionVars,
       PlacesOK, CountsOK, PlaceInv, Starting, Accepting, Supervising, Section
  <2> QED BY <2>1, <2>2, <2>3
<1>3. CASE Start
  <2>1. PlacesOK'
    BY <1>3 DEF Start, Construct, Launch, Started, Rollback, RollbackJoined, sessionVars,
       PlacesOK, Place, Starting, Accepting, Supervising
  <2>2. CountsOK'
    BY <1>3, Bounds DEF Start, Construct, Launch, Started, Rollback, RollbackJoined, sessionVars,
       CountsOK, PlaceInv, Starting, Accepting, Supervising, Section
  <2>3. PlaceInv'
    BY <1>3, Bounds DEF Start, Construct, Launch, Started, Rollback, RollbackJoined, sessionVars,
       PlacesOK, CountsOK, PlaceInv, Starting, Accepting, Supervising, Section
  <2> QED BY <2>1, <2>2, <2>3
<1>4. CASE Supervise
  <2>1. PlacesOK'
    BY <1>4 DEF Supervise, Tick, Accept, Break, Pass, Rebuild, Relaunch, Restarted, Wait, sessionVars,
       PlacesOK, Place, Starting, Accepting, Supervising
  <2>2. CountsOK'
    BY <1>4, Bounds DEF Supervise, Tick, Accept, Break, Pass, Rebuild, Relaunch, Restarted, Wait, sessionVars,
       CountsOK, PlaceInv, Starting, Accepting, Supervising, Section
  <2>3. PlaceInv'
    BY <1>4, Bounds DEF Supervise, Tick, Accept, Break, Pass, Rebuild, Relaunch, Restarted, Wait, sessionVars,
       PlacesOK, CountsOK, PlaceInv, Starting, Accepting, Supervising, Section
  <2> QED BY <2>1, <2>2, <2>3
<1>5. CASE Teardown
  <2>1. PlacesOK'
    BY <1>5 DEF Teardown, CloseService, StopSources, Grace, Joined, ClosePublisher, sessionVars,
       PlacesOK, Place, Starting, Accepting, Supervising
  <2>2. CountsOK'
    BY <1>5, Bounds DEF Teardown, CloseService, StopSources, Grace, Joined, ClosePublisher, sessionVars,
       CountsOK, PlaceInv, Starting, Accepting, Supervising, Section
  <2>3. PlaceInv'
    BY <1>5, Bounds DEF Teardown, CloseService, StopSources, Grace, Joined, ClosePublisher, sessionVars,
       PlacesOK, CountsOK, PlaceInv, Starting, Accepting, Supervising, Section
  <2> QED BY <2>1, <2>2, <2>3
<1>6. CASE Interrupt
  <2>1. PlacesOK'
    BY <1>6 DEF Interrupt, InterruptBody, InterruptTeardown, sessionVars,
       PlacesOK, Place, Starting, Accepting, Supervising
  <2>2. CountsOK'
    BY <1>6, Bounds DEF Interrupt, InterruptBody, InterruptTeardown, sessionVars,
       CountsOK, PlaceInv, Starting, Accepting, Supervising, Section
  <2>3. PlaceInv'
    BY <1>6, Bounds DEF Interrupt, InterruptBody, InterruptTeardown, sessionVars,
       PlacesOK, CountsOK, PlaceInv, Starting, Accepting, Supervising, Section
  <2> QED BY <2>1, <2>2, <2>3
<1>7. ASSUME NEW i \in Thread, Bootstrap(i) \/ Obey(i) \/ Fail(i)
      PROVE  PlacesOK' /\ CountsOK' /\ PlaceInv'
  <2>1. PlacesOK'
    BY <1>7 DEF Bootstrap, Obey, Fail, sessionVars,
       PlacesOK, Place, Starting, Accepting, Supervising
  <2>2. CountsOK'
    BY <1>7, Bounds DEF Bootstrap, Obey, Fail, sessionVars,
       CountsOK, PlaceInv, Starting, Accepting, Supervising, Section
  <2>3. PlaceInv'
    BY <1>7, Bounds DEF Bootstrap, Obey, Fail, sessionVars,
       PlacesOK, CountsOK, PlaceInv, Starting, Accepting, Supervising, Section
  <2> QED BY <2>1, <2>2, <2>3
<1>8. CASE UNCHANGED vars
  <2>1. PlacesOK'
    BY <1>8 DEF vars, sessionVars,
       PlacesOK, Place, Starting, Accepting, Supervising
  <2>2. CountsOK'
    BY <1>8, Bounds DEF vars, sessionVars,
       CountsOK, PlaceInv, Starting, Accepting, Supervising, Section
  <2>3. PlaceInv'
    BY <1>8, Bounds DEF vars, sessionVars,
       PlacesOK, CountsOK, PlaceInv, Starting, Accepting, Supervising, Section
  <2> QED BY <2>1, <2>2, <2>3
<1> QED
  BY <1>1, <1>2, <1>3, <1>4, <1>5, <1>6, <1>7, <1>8 DEF Next, Main

LEMMA OpenStep ==
  PlacesOK /\ PlaceInv /\ OpenInv /\ [Next]_vars => OpenInv'
<1> SUFFICES ASSUME PlacesOK, PlaceInv, OpenInv, [Next]_vars
             PROVE  OpenInv'
  OBVIOUS
<1> USE DEF PlacesOK, PlaceInv, OpenInv, Place, Starting, Accepting, Supervising, sessionVars
<1>1. CASE Build \/ Connect
  BY <1>1 DEF Build, Connect
<1>2. CASE Start
  BY <1>2 DEF Start, Construct, Launch, Started, Rollback, RollbackJoined
<1>3. CASE Supervise
  BY <1>3 DEF Supervise, Tick, Accept, Break, Pass, Rebuild, Relaunch, Restarted, Wait
<1>4. CASE Teardown
  BY <1>4 DEF Teardown, CloseService, StopSources, Grace, Joined, ClosePublisher
<1>5. CASE Interrupt
  BY <1>5 DEF Interrupt, InterruptBody, InterruptTeardown
<1>6. ASSUME NEW i \in Thread, Bootstrap(i) \/ Obey(i) \/ Fail(i)
      PROVE  OpenInv'
  BY <1>6 DEF Bootstrap, Obey, Fail
<1>7. CASE UNCHANGED vars
  BY <1>7 DEF vars
<1> QED
  BY <1>1, <1>2, <1>3, <1>4, <1>5, <1>6, <1>7 DEF Next, Main
-----------------------------------------------------------------------------
(* The threads: what each step does to what the main thread knows. *)

LEMMA ThreadTyped ==
  ASSUME ThreadsOK, NEW i \in Thread
  PROVE  threads[i].section \in Section /\ threads[i].generation \in Nat /\ threads[i].life \in Lives
<1>1. threads[i] \in Source
  BY DEF ThreadsOK, Thread
<1> QED BY <1>1 DEF Source

(* A step that builds no source and changes no life. *)
LEMMA QuietStep ==
  ASSUME IInv, PlacesOK, CountsOK, ThreadsOK,
         \/ Build \/ Connect \/ Started \/ Rollback \/ RollbackJoined
         \/ Tick \/ Accept \/ Break \/ Pass \/ Wait \/ Restarted \/ Teardown \/ Interrupt
         \/ (Construct \/ Launch) /\ pc' = "rollback"
         \/ (Rebuild \/ Relaunch) /\ pc' = "close_service"
  PROVE  ThreadsOK' /\ CurrentInv' /\ OneUserPerSection' /\ KnownInv'
<1> USE DEF IInv, PlaceInv, Thread, Living, sessionVars, Starting, Accepting, Supervising
<1>1. CASE Build
  <2>1. ThreadsOK'
    BY <1>1
       DEF Build, ThreadsOK
  <2>2. CurrentInv' /\ OneUserPerSection'
    BY <1>1
       DEF Build, CurrentInv, OneUserPerSection, KnownInv, IdleInv, NobodyLives
  <2>3. IdleInv'
    BY <1>1
       DEF Build, KnownInv, IdleInv, NobodyLives
  <2>4. StartInv'
    BY <1>1
       DEF Build, KnownInv, StartInv
  <2>5. SuperviseInv'
    BY <1>1
       DEF Build, KnownInv, SuperviseInv
  <2>6. (Careful => TeardownInv)'
    BY <1>1
       DEF Build, KnownInv, Careful, TeardownInv, NobodyLives, IdleInv
  <2> QED BY <2>1, <2>2, <2>3, <2>4, <2>5, <2>6 DEF KnownInv
<1>2. CASE Connect
  <2>1. ThreadsOK'
    BY <1>2
       DEF Connect, ThreadsOK
  <2>2. CurrentInv' /\ OneUserPerSection'
    BY <1>2
       DEF Connect, CurrentInv, OneUserPerSection
  <2>3. IdleInv'
    BY <1>2
       DEF Connect, KnownInv, IdleInv, NobodyLives
  <2>4. StartInv'
    BY <1>2
       DEF Connect, KnownInv, StartInv, IdleInv, NobodyLives, Row, Latest, ThreadsOK
  <2>5. SuperviseInv'
    BY <1>2
       DEF Connect, KnownInv, SuperviseInv
  <2>6. (Careful => TeardownInv)'
    BY <1>2
       DEF Connect, KnownInv, Careful, TeardownInv, NobodyLives, IdleInv
  <2> QED BY <2>1, <2>2, <2>3, <2>4, <2>5, <2>6 DEF KnownInv
<1>3. CASE Started
  <2>1. ThreadsOK'
    BY <1>3, Bounds
       DEF Started, ThreadsOK, KnownInv, StartInv, Row, Latest, Section, CountsOK
  <2>2. CurrentInv' /\ OneUserPerSection'
    BY <1>3
       DEF Started, CurrentInv, OneUserPerSection
  <2>3. IdleInv'
    BY <1>3
       DEF Started, KnownInv, IdleInv, NobodyLives
  <2>4. StartInv'
    BY <1>3
       DEF Started, KnownInv, StartInv, HasIdent, Latest, Row, Section, CountsOK, ThreadsOK, CurrentInv
  <2>5. SuperviseInv'
    <3>1. pc' = "start" => SuperviseInv'
      BY DEF SuperviseInv
    <3> SUFFICES ASSUME pc' = "tick" PROVE SuperviseInv'
      BY <1>3, <3>1 DEF Started
    <3>2. at = Sections /\ UNCHANGED threads /\ HasIdent(Latest)
          /\ sources' = [s \in Section |-> Latest - Sections + s]
      BY <1>3, Bounds DEF Started, Section
    <3>3. /\ Latest \in Nat /\ Sections <= Latest
          /\ \A s \in Section : threads[Latest - Sections + s].section = s
          /\ \A i \in Thread : Living(i) => i > Latest - Sections
          /\ \A i \in Thread : i > Latest - Sections => HasIdent(i)
      BY <1>3, <3>2 DEF Started, KnownInv, StartInv, Row, Section, ThreadsOK, Latest
    <3>4. \A s \in Section : /\ Latest - Sections + s \in Thread
                            /\ Latest - Sections + s > Latest - Sections
      BY <3>3, Bounds DEF Section, Latest
    <3>5. Mapped'
      BY <3>2, <3>3, <3>4 DEF Mapped, HasIdent
    <3>6. ASSUME NEW i \in Thread, Living(i)
          PROVE  sources'[threads[i].section] = i
      <4> DEFINE s == i - (Latest - Sections)
      <4>1. s \in Section /\ i = Latest - Sections + s
        BY <3>3, <3>6, Bounds DEF Section, Latest
      <4>2. threads[i].section = s
        BY <4>1, <3>3
      <4> HIDE DEF s
      <4> QED BY <4>1, <4>2, <3>2
    <3> QED BY <3>2, <3>5, <3>6 DEF SuperviseInv
  <2>6. (Careful => TeardownInv)'
    BY <1>3
       DEF Started, KnownInv, Careful, TeardownInv, NobodyLives
  <2> QED BY <2>1, <2>2, <2>3, <2>4, <2>5, <2>6 DEF KnownInv
<1>4. CASE Rollback
  <2>1. ThreadsOK'
    BY <1>4
       DEF Rollback, ThreadsOK, Built
  <2>2. CurrentInv' /\ OneUserPerSection'
    BY <1>4
       DEF Rollback, CurrentInv, OneUserPerSection
  <2>3. IdleInv'
    BY <1>4
       DEF Rollback, KnownInv, IdleInv, NobodyLives
  <2>4. StartInv'
    BY <1>4
       DEF Rollback, KnownInv, StartInv
  <2>5. SuperviseInv'
    BY <1>4
       DEF Rollback, KnownInv, SuperviseInv
  <2>6. (Careful => TeardownInv)'
    BY <1>4
       DEF Rollback, KnownInv, Careful, TeardownInv, NobodyLives, Built, CurrentInv, HasIdent
  <2> QED BY <2>1, <2>2, <2>3, <2>4, <2>5, <2>6 DEF KnownInv
<1>5. CASE RollbackJoined
  <2>1. ThreadsOK'
    BY <1>5
       DEF RollbackJoined, ThreadsOK
  <2>2. CurrentInv' /\ OneUserPerSection'
    BY <1>5
       DEF RollbackJoined, CurrentInv, OneUserPerSection
  <2>3. IdleInv'
    BY <1>5
       DEF RollbackJoined, KnownInv, IdleInv, NobodyLives
  <2>4. StartInv'
    BY <1>5
       DEF RollbackJoined, KnownInv, StartInv
  <2>5. SuperviseInv'
    BY <1>5
       DEF RollbackJoined, KnownInv, SuperviseInv
  <2>6. (Careful => TeardownInv)'
    BY <1>5
       DEF RollbackJoined, KnownInv, Careful, TeardownInv, NobodyLives, ThreadsOK
  <2> QED BY <2>1, <2>2, <2>3, <2>4, <2>5, <2>6 DEF KnownInv
<1>6. CASE Tick \/ Accept \/ Break \/ Pass \/ Wait
  <2>1. ThreadsOK'
    BY <1>6
       DEF Tick, Accept, Break, Pass, Wait, ThreadsOK
  <2>2. CurrentInv' /\ OneUserPerSection'
    BY <1>6
       DEF Tick, Accept, Break, Pass, Wait, CurrentInv, OneUserPerSection
  <2>3. IdleInv'
    BY <1>6
       DEF Tick, Accept, Break, Pass, Wait, KnownInv, IdleInv, NobodyLives
  <2>4. StartInv'
    BY <1>6
       DEF Tick, Accept, Break, Pass, Wait, KnownInv, StartInv
  <2>5. SuperviseInv'
    BY <1>6
       DEF Tick, Accept, Break, Pass, Wait, KnownInv, SuperviseInv, Mapped, HasIdent
  <2>6. (Careful => TeardownInv)'
    BY <1>6, ThreadTyped
       DEF Tick, Accept, Break, Pass, Wait, KnownInv, Careful, TeardownInv, NobodyLives, SuperviseInv, Mapped, HasIdent, OpenInv
  <2> QED BY <2>1, <2>2, <2>3, <2>4, <2>5, <2>6 DEF KnownInv
<1>7. CASE Restarted
  <2>1. ThreadsOK'
    BY <1>7
       DEF Restarted, ThreadsOK, KnownInv, SuperviseInv, Mapped, Latest
  <2>2. CurrentInv' /\ OneUserPerSection'
    BY <1>7
       DEF Restarted, CurrentInv, OneUserPerSection
  <2>3. IdleInv'
    BY <1>7
       DEF Restarted, KnownInv, IdleInv, NobodyLives
  <2>4. StartInv'
    BY <1>7
       DEF Restarted, KnownInv, StartInv
  <2>5. SuperviseInv'
    BY <1>7
       DEF Restarted, KnownInv, SuperviseInv, Mapped, HasIdent, Latest, ThreadsOK, Section, CountsOK
  <2>6. (Careful => TeardownInv)'
    BY <1>7
       DEF Restarted, KnownInv, Careful, TeardownInv, NobodyLives
  <2> QED BY <2>1, <2>2, <2>3, <2>4, <2>5, <2>6 DEF KnownInv
<1>8. CASE CloseService
  <2>1. ThreadsOK'
    BY <1>8
       DEF CloseService, ThreadsOK
  <2>2. CurrentInv' /\ OneUserPerSection'
    BY <1>8
       DEF CloseService, CurrentInv, OneUserPerSection
  <2>3. IdleInv'
    BY <1>8
       DEF CloseService, KnownInv, IdleInv, NobodyLives
  <2>4. StartInv'
    BY <1>8
       DEF CloseService, KnownInv, StartInv
  <2>5. SuperviseInv'
    BY <1>8
       DEF CloseService, KnownInv, SuperviseInv
  <2>6. (Careful => TeardownInv)'
    BY <1>8
       DEF CloseService, KnownInv, Careful, TeardownInv, NobodyLives, HasIdent
  <2> QED BY <2>1, <2>2, <2>3, <2>4, <2>5, <2>6 DEF KnownInv
<1>9. CASE StopSources
  <2>1. ThreadsOK'
    BY <1>9
       DEF StopSources, ThreadsOK, Listed
  <2>2. CurrentInv' /\ OneUserPerSection'
    BY <1>9
       DEF StopSources, CurrentInv, OneUserPerSection
  <2>3. IdleInv'
    BY <1>9
       DEF StopSources, KnownInv, IdleInv, NobodyLives
  <2>4. StartInv'
    BY <1>9
       DEF StopSources, KnownInv, StartInv
  <2>5. SuperviseInv'
    BY <1>9
       DEF StopSources, KnownInv, SuperviseInv
  <2>6. (Careful => TeardownInv)'
    BY <1>9, ThreadTyped
       DEF StopSources, KnownInv, Careful, TeardownInv, NobodyLives, Listed, HasIdent
  <2> QED BY <2>1, <2>2, <2>3, <2>4, <2>5, <2>6 DEF KnownInv
<1>10. CASE Grace \/ Joined
  <2>1. ThreadsOK'
    BY <1>10
       DEF Grace, Joined, ThreadsOK
  <2>2. CurrentInv' /\ OneUserPerSection'
    BY <1>10
       DEF Grace, Joined, CurrentInv, OneUserPerSection
  <2>3. IdleInv'
    BY <1>10
       DEF Grace, Joined, KnownInv, IdleInv, NobodyLives
  <2>4. StartInv'
    BY <1>10
       DEF Grace, Joined, KnownInv, StartInv
  <2>5. SuperviseInv'
    BY <1>10
       DEF Grace, Joined, KnownInv, SuperviseInv
  <2>6. (Careful => TeardownInv)'
    BY <1>10
       DEF Grace, Joined, KnownInv, Careful, TeardownInv, NobodyLives, ThreadsOK
  <2> QED BY <2>1, <2>2, <2>3, <2>4, <2>5, <2>6 DEF KnownInv
<1>11. CASE ClosePublisher
  <2>1. ThreadsOK'
    BY <1>11
       DEF ClosePublisher, ThreadsOK
  <2>2. CurrentInv' /\ OneUserPerSection'
    BY <1>11
       DEF ClosePublisher, CurrentInv, OneUserPerSection
  <2>3. IdleInv'
    BY <1>11
       DEF ClosePublisher, KnownInv, IdleInv, NobodyLives, Careful, TeardownInv
  <2>4. StartInv'
    BY <1>11
       DEF ClosePublisher, KnownInv, StartInv
  <2>5. SuperviseInv'
    BY <1>11
       DEF ClosePublisher, KnownInv, SuperviseInv
  <2>6. (Careful => TeardownInv)'
    BY <1>11
       DEF ClosePublisher, KnownInv, Careful, TeardownInv, NobodyLives
  <2> QED BY <2>1, <2>2, <2>3, <2>4, <2>5, <2>6 DEF KnownInv
<1>12. CASE Interrupt
  <2>1. ThreadsOK'
    BY <1>12
       DEF Interrupt, InterruptBody, InterruptTeardown, ThreadsOK
  <2>2. CurrentInv' /\ OneUserPerSection'
    BY <1>12
       DEF Interrupt, InterruptBody, InterruptTeardown, CurrentInv, OneUserPerSection
  <2>3. IdleInv'
    BY <1>12
       DEF Interrupt, InterruptBody, InterruptTeardown, KnownInv, IdleInv, NobodyLives
  <2>4. StartInv'
    BY <1>12
       DEF Interrupt, InterruptBody, InterruptTeardown, KnownInv, StartInv
  <2>5. SuperviseInv'
    BY <1>12
       DEF Interrupt, InterruptBody, InterruptTeardown, KnownInv, SuperviseInv
  <2>6. (Careful => TeardownInv)'
    BY <1>12, ThreadTyped, Bounds
       DEF Interrupt, InterruptBody, InterruptTeardown, KnownInv, Careful, TeardownInv,
           NobodyLives, Forgetting, StartInv, SuperviseInv, Row, Mapped, HasIdent, Latest,
           IdleInv, CountsOK
  <2> QED BY <2>1, <2>2, <2>3, <2>4, <2>5, <2>6 DEF KnownInv
<1>13. CASE Construct /\ pc' = "rollback"
  <2>1. ThreadsOK'
    BY <1>13
       DEF Construct, ThreadsOK
  <2>2. CurrentInv' /\ OneUserPerSection'
    BY <1>13
       DEF Construct, CurrentInv, OneUserPerSection
  <2>3. IdleInv'
    BY <1>13
       DEF Construct, KnownInv, IdleInv, NobodyLives
  <2>4. StartInv'
    BY <1>13
       DEF Construct, KnownInv, StartInv
  <2>5. SuperviseInv'
    BY <1>13
       DEF Construct, KnownInv, SuperviseInv
  <2>6. (Careful => TeardownInv)'
    BY <1>13
       DEF Construct, KnownInv, Careful, TeardownInv, NobodyLives, StartInv, Row, HasIdent
  <2> QED BY <2>1, <2>2, <2>3, <2>4, <2>5, <2>6 DEF KnownInv
<1>14. CASE Launch /\ pc' = "rollback"
  <2>1. ThreadsOK'
    BY <1>14
       DEF Launch, ThreadsOK
  <2>2. CurrentInv' /\ OneUserPerSection'
    BY <1>14
       DEF Launch, CurrentInv, OneUserPerSection
  <2>3. IdleInv'
    BY <1>14
       DEF Launch, KnownInv, IdleInv, NobodyLives
  <2>4. StartInv'
    BY <1>14
       DEF Launch, KnownInv, StartInv
  <2>5. SuperviseInv'
    BY <1>14
       DEF Launch, KnownInv, SuperviseInv
  <2>6. (Careful => TeardownInv)'
    BY <1>14
       DEF Launch, KnownInv, Careful, TeardownInv, NobodyLives, StartInv, Row, HasIdent, Latest
  <2> QED BY <2>1, <2>2, <2>3, <2>4, <2>5, <2>6 DEF KnownInv
<1>15. CASE Rebuild /\ pc' = "close_service"
  <2>1. ThreadsOK'
    BY <1>15
       DEF Rebuild, ThreadsOK
  <2>2. CurrentInv' /\ OneUserPerSection'
    BY <1>15
       DEF Rebuild, CurrentInv, OneUserPerSection
  <2>3. IdleInv'
    BY <1>15
       DEF Rebuild, KnownInv, IdleInv, NobodyLives
  <2>4. StartInv'
    BY <1>15
       DEF Rebuild, KnownInv, StartInv
  <2>5. SuperviseInv'
    BY <1>15
       DEF Rebuild, KnownInv, SuperviseInv
  <2>6. (Careful => TeardownInv)'
    BY <1>15, ThreadTyped
       DEF Rebuild, KnownInv, Careful, TeardownInv, NobodyLives, SuperviseInv, Mapped, HasIdent
  <2> QED BY <2>1, <2>2, <2>3, <2>4, <2>5, <2>6 DEF KnownInv
<1>16. CASE Relaunch /\ pc' = "close_service"
  <2>1. ThreadsOK'
    BY <1>16
       DEF Relaunch, ThreadsOK
  <2>2. CurrentInv' /\ OneUserPerSection'
    BY <1>16
       DEF Relaunch, CurrentInv, OneUserPerSection
  <2>3. IdleInv'
    BY <1>16
       DEF Relaunch, KnownInv, IdleInv, NobodyLives
  <2>4. StartInv'
    BY <1>16
       DEF Relaunch, KnownInv, StartInv
  <2>5. SuperviseInv'
    BY <1>16
       DEF Relaunch, KnownInv, SuperviseInv
  <2>6. (Careful => TeardownInv)'
    BY <1>16, ThreadTyped
       DEF Relaunch, KnownInv, Careful, TeardownInv, NobodyLives, SuperviseInv, Mapped, HasIdent
  <2> QED BY <2>1, <2>2, <2>3, <2>4, <2>5, <2>6 DEF KnownInv
<1> QED
  BY <1>1, <1>2, <1>3, <1>4, <1>5, <1>6, <1>7, <1>8, <1>9, <1>10, <1>11, <1>12, <1>13,
     <1>14, <1>15, <1>16 DEF Teardown

(* A source is built: nothing lives that did not live before. *)
LEMMA BuildStep ==
  ASSUME IInv, PlacesOK, CountsOK, ThreadsOK,
         \/ Construct /\ pc' # "rollback"
         \/ Rebuild /\ pc' # "close_service"
  PROVE  ThreadsOK' /\ CurrentInv' /\ OneUserPerSection' /\ KnownInv'
<1> USE DEF IInv, PlaceInv, sessionVars, Starting, Accepting, Supervising
<1>1. /\ threads' \in Seq(Source)
      /\ Latest \in Nat
      /\ Latest' = Latest + 1
      /\ threads'[Latest + 1] = [section |-> at, generation |-> generation, life |-> "built"]
      /\ \A j \in Thread : threads'[j] = threads[j]
  <2>1. at \in Section /\ BuildSource(at) /\ generation \in Nat
    BY Bounds DEF Construct, Rebuild, CountsOK, Section
  <2> QED BY <2>1, BuildEffect DEF ThreadsOK, Latest
<1>2. /\ UNCHANGED <<generation, sources, joining, at, publisher, error, candidate, interrupts>>
      /\ error = "none"
      /\ \/ pc = "start" /\ pc' = "launch"
         \/ pc = "sweep" /\ pc' = "relaunch" /\ threads[sources[at]].life = "dead" /\ at \in Section
  BY DEF Construct, Rebuild, CountsOK, Section
<1>3. /\ Thread' = Thread \cup {Latest + 1}
      /\ Latest + 1 \notin Thread
      /\ \A j \in Thread : j <= Latest
      /\ \A j \in Thread' : Living(j)' <=> j \in Thread /\ Living(j)
      /\ \A j \in Thread : HasIdent(j)' <=> HasIdent(j)
  BY <1>1 DEF Thread, Latest, Living, HasIdent
<1>4. ThreadsOK'
  BY <1>1, <1>2, <1>3 DEF ThreadsOK
<1>5. CurrentInv' /\ OneUserPerSection'
  BY <1>1, <1>2, <1>3 DEF CurrentInv, OneUserPerSection
<1>6. IdleInv'
  BY <1>2 DEF IdleInv
<1>7. StartInv'
  <2> SUFFICES ASSUME pc = "start", pc' = "launch" PROVE StartInv'
    BY <1>2 DEF StartInv
  <2>1. /\ at \in Nat /\ at > 0 /\ at - 1 <= Latest
        /\ \A s \in 1 .. at - 1 : threads[Latest - (at - 1) + s].section = s
        /\ \A i \in Thread : Living(i) => i > Latest - (at - 1)
        /\ \A i \in Thread : i > Latest - (at - 1) => HasIdent(i)
    BY Bounds DEF KnownInv, StartInv, Row, Section
  <2>2. ASSUME NEW s \in 1 .. at
        PROVE  threads'[Latest' - at + s].section = s
    <3>1. CASE s = at
      BY <1>1, <2>1, <3>1
    <3>2. CASE s # at
      <4>1. s \in 1 .. at - 1 /\ Latest' - at + s = Latest - (at - 1) + s
            /\ Latest - (at - 1) + s \in Thread
        BY <1>1, <2>1, <3>2 DEF Thread, Latest
      <4> QED BY <4>1, <2>1, <1>1
    <3> QED BY <3>1, <3>2
  <2>3. Row(at)'
    BY <1>1, <1>2, <1>3, <2>1, <2>2 DEF Row, Thread, Latest
  <2>4. \A i \in Thread' : i > Latest' - at' /\ i < Latest' => HasIdent(i)'
    <3> SUFFICES ASSUME NEW i \in Thread', i > Latest' - at', i < Latest' PROVE HasIdent(i)'
      OBVIOUS
    <3>1. Latest' = Latest + 1 /\ at' = at /\ Latest \in Nat
      BY <1>1, <1>2 DEF Latest
    <3>2. i \in Thread
      BY <1>3, <3>1
    <3>3. i > Latest - (at - 1)
      BY <2>1, <3>1, <3>2 DEF Thread
    <3> QED BY <1>3, <2>1, <3>2, <3>3
  <2> QED BY <2>3, <2>4, <1>1, <1>2 DEF StartInv
<1>8. SuperviseInv'
  BY <1>1, <1>2, <1>3 DEF KnownInv, SuperviseInv, Mapped, Section
<1>9. (Careful => TeardownInv)'
  BY <1>1, <1>2 DEF TeardownInv, OpenInv
<1> QED BY <1>4, <1>5, <1>6, <1>7, <1>8, <1>9 DEF KnownInv

(* A source is started: it is the only one of its section. *)
LEMMA LaunchStep ==
  ASSUME IInv, PlacesOK, CountsOK, ThreadsOK,
         \/ Launch /\ pc' # "rollback"
         \/ Relaunch /\ pc' # "close_service"
  PROVE  ThreadsOK' /\ CurrentInv' /\ OneUserPerSection' /\ KnownInv'
<1> USE DEF IInv, PlaceInv, sessionVars, Starting, Accepting, Supervising
<1>1. /\ UNCHANGED <<generation, sources, joining, at, publisher, error, candidate, interrupts>>
      /\ error = "none" /\ at \in Section
      /\ \/ pc = "launch" /\ pc' = "starting"
         \/ pc = "relaunch" /\ pc' = "restarting"
      /\ Live(Latest, "launched")
  BY DEF Launch, Relaunch
<1>2. Latest \in Thread /\ Latest \in Nat /\ \A j \in Thread : j <= Latest
  BY <1>1, Bounds DEF KnownInv, StartInv, SuperviseInv, Row, Mapped, ThreadsOK, Thread, Latest, Section
<1>3. /\ threads' \in Seq(Source)
      /\ Latest' = Latest /\ Thread' = Thread
      /\ threads'[Latest] = [section |-> threads[Latest].section,
                             generation |-> threads[Latest].generation, life |-> "launched"]
      /\ \A j \in Thread : j # Latest => threads'[j] = threads[j]
  BY <1>1, <1>2, LiveEffect DEF ThreadsOK, Latest, Lives, Thread
<1>4. /\ threads[Latest].life = "built" /\ threads[Latest].section = at
      /\ threads[Latest].generation = generation
  BY <1>1, Bounds DEF KnownInv, StartInv, SuperviseInv, Row, Section, Latest, ThreadsOK
<1>5. ASSUME NEW i \in Thread, Living(i)
      PROVE  threads[i].section # at
  <2>1. CASE pc = "launch"
    <3> DEFINE s == i - (Latest - at)
    <3>1. i # Latest
      BY <1>4, <1>5 DEF Living
    <3>2. i > Latest - at /\ \A r \in 1 .. at : threads[Latest - at + r].section = r
      BY <2>1, <1>5 DEF KnownInv, StartInv, Row
    <3>3. s \in 1 .. at /\ s # at /\ i = Latest - at + s
      BY <1>1, <1>2, <3>1, <3>2, Bounds DEF Section, Thread
    <3> HIDE DEF s
    <3> QED BY <3>2, <3>3
  <2>2. CASE pc = "relaunch"
    BY <2>2, <1>5 DEF KnownInv, SuperviseInv, Living
  <2> QED BY <1>1, <2>1, <2>2
<1>6. ThreadsOK'
  BY <1>1, <1>3 DEF ThreadsOK
<1>7. CurrentInv' /\ OneUserPerSection'
  BY <1>1, <1>3, <1>4, <1>5 DEF CurrentInv, OneUserPerSection, Living
<1>8. IdleInv'
  BY <1>1 DEF IdleInv
<1>9. StartInv'
  <2> SUFFICES ASSUME pc = "launch", pc' = "starting" PROVE StartInv'
    BY <1>1 DEF StartInv
  <2>1. Row(at) /\ \A i \in Thread : i > Latest - at /\ i < Latest => HasIdent(i)
    BY DEF KnownInv, StartInv
  <2>2. \A s \in 1 .. at : Latest - at + s \in Thread
    BY <1>1, <1>2, <2>1, Bounds DEF Row, Section, Thread, Latest
  <2>3. ASSUME NEW s \in 1 .. at
        PROVE  threads'[Latest - at + s].section = s
    <3>1. threads[Latest - at + s].section = s /\ Latest - at + s \in Thread
      BY <2>1, <2>2 DEF Row
    <3>2. threads'[Latest].section = threads[Latest].section
      BY <1>3
    <3> QED BY <1>3, <3>1, <3>2
  <2>4. \A i \in Thread : Living(i)' => i > Latest - at
    BY <1>1, <1>2, <1>3, <2>1, Bounds DEF Row, Section, Living
  <2>5. Row(at)'
    BY <1>1, <1>3, <2>1, <2>3, <2>4 DEF Row
  <2>6. \A i \in Thread : i > Latest - at /\ i < Latest => HasIdent(i)'
    BY <1>2, <1>3, <2>1 DEF HasIdent, Thread
  <2>7. threads'[Latest'].life = "launched" /\ threads'[Latest'].generation = generation'
    BY <1>1, <1>3, <1>4
  <2> QED BY <1>1, <1>3, <2>5, <2>6, <2>7 DEF StartInv
<1>10. SuperviseInv'
  <2> SUFFICES ASSUME pc = "relaunch", pc' = "restarting" PROVE SuperviseInv'
    BY <1>1 DEF SuperviseInv
  <2>1. /\ Mapped /\ threads[sources[at]].life = "dead"
        /\ \A i \in Thread : Living(i) => sources[threads[i].section] = i
    BY DEF KnownInv, SuperviseInv
  <2>2. \A s \in Section : sources[s] # Latest
    BY <1>4, <2>1 DEF Mapped, HasIdent
  <2>3. \A s \in Section : sources[s] \in Thread /\ threads'[sources[s]] = threads[sources[s]]
    BY <1>3, <2>1, <2>2 DEF Mapped
  <2>4. Mapped'
    BY <1>1, <1>3, <2>1, <2>3 DEF Mapped, HasIdent
  <2>5. \A i \in Thread : Living(i)' => i = Latest \/ sources[threads'[i].section] = i
    BY <1>3, <2>1 DEF Living
  <2>6. threads'[sources[at]].life = "dead"
    BY <1>1, <2>1, <2>3
  <2> QED BY <1>1, <1>3, <1>4, <2>4, <2>5, <2>6 DEF SuperviseInv
<1>11. (Careful => TeardownInv)'
  BY <1>1 DEF TeardownInv, OpenInv
<1> QED BY <1>6, <1>7, <1>8, <1>9, <1>10, <1>11 DEF KnownInv

(* A source runs, or ends: no source lives that did not live before. *)
LEMMA LifeStep ==
  ASSUME IInv, PlacesOK, CountsOK, ThreadsOK,
         NEW i \in Thread, Bootstrap(i) \/ Obey(i) \/ Fail(i)
  PROVE  ThreadsOK' /\ CurrentInv' /\ OneUserPerSection' /\ KnownInv'
<1>1. /\ UNCHANGED <<pc, generation, sources, joining, at, publisher, error, candidate, interrupts>>
      /\ threads[i].life \in {"launched", "alive"}
  BY DEF Bootstrap, Obey, Fail, sessionVars
<1>2. PICK life \in {"alive", "dead"} : Live(i, life)
  BY DEF Bootstrap, Obey, Fail, sessionVars
<1>3. /\ threads' \in Seq(Source)
      /\ Latest' = Latest /\ Thread' = Thread
      /\ threads'[i] = [section |-> threads[i].section,
                        generation |-> threads[i].generation, life |-> life]
      /\ \A j \in Thread : j # i => threads'[j] = threads[j]
  BY <1>2, LiveEffect DEF ThreadsOK, Latest, Lives, Thread
<1>4. Thread' = Thread /\ Latest' = Latest /\ Latest \in Nat
  BY <1>3 DEF ThreadsOK, Latest
<1>5. \A j \in Thread : /\ threads'[j].section = threads[j].section
                       /\ threads'[j].generation = threads[j].generation
  BY <1>3
<1>6. \A j \in Thread : Living(j)' => Living(j)
  BY <1>1, <1>3 DEF Living
<1>7. \A j \in Thread : HasIdent(j) => HasIdent(j)'
  BY <1>3 DEF HasIdent
<1>8. \A j \in Thread : \/ threads'[j].life = threads[j].life
                       \/ /\ threads[j].life \in {"launched", "alive"}
                          /\ threads'[j].life \in {"alive", "dead"}
  <2>1. threads[i].life \in {"launched", "alive"} /\ threads'[i].life \in {"alive", "dead"}
    BY <1>1, <1>2, <1>3
  <2>2. \A j \in Thread : j # i => threads'[j].life = threads[j].life
    BY <1>3
  <2> QED BY <2>1, <2>2
<1>9. ThreadsOK'
  BY <1>1, <1>3 DEF ThreadsOK
<1>10. CurrentInv' /\ OneUserPerSection'
  BY <1>1, <1>4, <1>5, <1>6 DEF IInv, CurrentInv, OneUserPerSection
<1>11. NobodyLives => NobodyLives'
  BY <1>4, <1>6 DEF NobodyLives
<1>12. IdleInv'
  BY <1>1, <1>11 DEF IInv, KnownInv, IdleInv
<1>13. StartInv'
  <2>1. ASSUME NEW n \in Nat, Row(n)
        PROVE  Row(n)'
    <3>1. n <= Latest /\ \A s \in 1 .. n : threads[Latest - n + s].section = s
      BY <2>1 DEF Row
    <3>2. \A s \in 1 .. n : Latest - n + s \in Thread
      BY <3>1 DEF Thread, Latest, ThreadsOK
    <3>3. \A s \in 1 .. n : threads'[Latest - n + s].section = s
      BY <1>5, <3>1, <3>2
    <3>4. \A j \in Thread' : Living(j)' => j > Latest' - n
      <4>1. \A j \in Thread : Living(j) => j > Latest - n
        BY <2>1 DEF Row
      <4>2. \A j \in Thread : Living(j)' => j > Latest - n
        BY <1>6, <4>1
      <4> QED BY <1>4, <4>2
    <3> QED BY <1>4, <3>1, <3>3, <3>4 DEF Row
  <2>2. pc \in {"launch", "starting"} => Latest \in Thread
    BY Bounds DEF IInv, PlaceInv, Starting, KnownInv, StartInv, Row, Thread, Latest, ThreadsOK, Section
  <2>3. pc \in Starting => at \in Nat /\ at - 1 \in Nat
    BY Bounds DEF IInv, PlaceInv, Section
  <2>4. CASE pc = "start"
    BY <1>1, <1>4, <1>7, <2>1, <2>3, <2>4 DEF Starting, IInv, KnownInv, StartInv
  <2>5. CASE pc \in {"launch", "starting"}
    <3>1. Row(at)'
      BY <1>1, <2>1, <2>3, <2>5 DEF Starting, IInv, KnownInv, StartInv
    <3>2. \A j \in Thread' : j > Latest' - at' /\ j < Latest' => HasIdent(j)'
      BY <1>1, <1>4, <1>7, <2>5 DEF IInv, KnownInv, StartInv
    <3>3. /\ threads[Latest].generation = generation
          /\ pc = "launch" => threads[Latest].life = "built"
          /\ pc = "starting" => threads[Latest].life # "built"
      BY <2>5 DEF IInv, KnownInv, StartInv
    <3>4. /\ threads'[Latest].generation = generation
          /\ pc = "launch" => threads'[Latest].life = "built"
          /\ pc = "starting" => threads'[Latest].life # "built"
      <4>1. Latest \in Thread
        BY <2>2, <2>5
      <4>2. threads'[Latest].generation = threads[Latest].generation
        BY <4>1, <1>5
      <4>3. (threads'[Latest].life = "built") <=> (threads[Latest].life = "built")
        BY <4>1, <1>8
      <4> QED BY <4>2, <4>3, <3>3
    <3>5. /\ threads'[Latest'].generation = generation'
          /\ pc' = "launch" => threads'[Latest'].life = "built"
          /\ pc' = "starting" => threads'[Latest'].life # "built"
      BY <1>1, <1>4, <3>4
    <3> QED BY <1>1, <2>5, <3>1, <3>2, <3>5 DEF StartInv
  <2> QED BY <1>1, <2>4, <2>5 DEF StartInv
<1>14. SuperviseInv'
  <2>1. Mapped => Mapped'
    BY <1>1, <1>4, <1>5, <1>7 DEF Mapped
  <2>2. pc \in {"relaunch", "restarting"} => Latest \in Thread /\ sources[at] \in Thread
    BY DEF IInv, PlaceInv, Accepting, Supervising, KnownInv, SuperviseInv, Mapped, Thread, Latest, ThreadsOK, Section
  <2>3. /\ pc \in Supervising \ {"restarting"} =>
             \A j \in Thread' : Living(j)' => sources'[threads'[j].section] = j
        /\ pc = "restarting" =>
             \A j \in Thread' : Living(j)' => j = Latest' \/ sources'[threads'[j].section] = j
    BY <1>1, <1>4, <1>5, <1>6 DEF IInv, KnownInv, SuperviseInv
  <2>4. ASSUME pc \in {"relaunch", "restarting"}
        PROVE  /\ threads'[sources'[at']].life = "dead"
               /\ threads'[Latest'].section = at'
               /\ threads'[Latest'].generation = generation'
               /\ pc = "relaunch" => threads'[Latest'].life = "built"
               /\ pc = "restarting" => threads'[Latest'].life # "built"
    <3>1. /\ threads[sources[at]].life = "dead"
          /\ threads[Latest].section = at
          /\ threads[Latest].generation = generation
          /\ pc = "relaunch" => threads[Latest].life = "built"
          /\ pc = "restarting" => threads[Latest].life # "built"
      BY <2>4 DEF IInv, KnownInv, SuperviseInv
    <3>2. /\ threads'[sources[at]].life = "dead"
          /\ threads'[Latest].section = at
          /\ threads'[Latest].generation = generation
          /\ pc = "relaunch" => threads'[Latest].life = "built"
          /\ pc = "restarting" => threads'[Latest].life # "built"
      <4>1. Latest \in Thread /\ sources[at] \in Thread
        BY <2>2, <2>4
      <4>2. /\ threads'[Latest].section = threads[Latest].section
            /\ threads'[Latest].generation = threads[Latest].generation
        BY <4>1, <1>5
      <4>3. (threads'[Latest].life = "built") <=> (threads[Latest].life = "built")
        BY <4>1, <1>8
      <4>4. threads[sources[at]].life = "dead" => threads'[sources[at]].life = "dead"
        BY <4>1, <1>8
      <4> QED BY <4>2, <4>3, <4>4, <3>1
    <3> QED BY <1>1, <1>4, <3>2
  <2> QED BY <1>1, <2>1, <2>3, <2>4 DEF Accepting, Supervising, IInv, KnownInv, SuperviseInv
<1>15. (Careful => TeardownInv)'
  <2> SUFFICES ASSUME Careful, TeardownInv PROVE TeardownInv'
    BY <1>1 DEF IInv, KnownInv, Careful
  <2>1. pc \in {"close_service", "stop"} =>
          \A j \in Thread' : Living(j)' => HasIdent(j)' /\ sources'[threads'[j].section] = j
    BY <1>1, <1>4, <1>5, <1>6, <1>7 DEF TeardownInv
  <2>2. /\ pc = "rollback" => \A j \in Thread' : Living(j)' => HasIdent(j)'
        /\ pc \in {"rollback_join", "join", "join_late"} =>
             \A j \in Thread' : Living(j)' => j \in joining'
    BY <1>1, <1>4, <1>6, <1>7 DEF TeardownInv
  <2> QED BY <1>1, <1>11, <2>1, <2>2 DEF TeardownInv
<1> QED BY <1>9, <1>10, <1>12, <1>13, <1>14, <1>15 DEF KnownInv
-----------------------------------------------------------------------------
(* The theorems. *)

LEMMA Inductive == IInv /\ [Next]_vars => IInv'
<1> SUFFICES ASSUME IInv, [Next]_vars PROVE IInv'
  OBVIOUS
<1>1. PlacesOK /\ CountsOK /\ ThreadsOK
  BY TypeParts DEF IInv
<1>2. PlacesOK' /\ CountsOK' /\ PlaceInv'
  BY <1>1, ScalarsStep DEF IInv
<1>3. OpenInv'
  BY <1>1, OpenStep DEF IInv
<1>4. ThreadsOK' /\ CurrentInv' /\ OneUserPerSection' /\ KnownInv'
  <2>1. CASE Main \/ Interrupt
    BY <1>1, <2>1, QuietStep, BuildStep, LaunchStep DEF Main, Start, Supervise
  <2>2. ASSUME NEW i \in Thread, Bootstrap(i) \/ Obey(i) \/ Fail(i)
        PROVE  ThreadsOK' /\ CurrentInv' /\ OneUserPerSection' /\ KnownInv'
    BY <1>1, <2>2, LifeStep
  <2>3. CASE UNCHANGED vars
    BY <1>1, <2>3 DEF vars, IInv, ThreadsOK, CurrentInv, OneUserPerSection, KnownInv, IdleInv,
       StartInv, SuperviseInv, TeardownInv, Careful, Row, Mapped, NobodyLives, Thread, Latest,
       Living, HasIdent
  <2> QED BY <2>1, <2>2, <2>3 DEF Next
<1> QED BY <1>2, <1>3, <1>4, TypeParts DEF IInv

LEMMA Invariant == Spec => []IInv
<1>1. Init => IInv
  <2> SUFFICES ASSUME Init PROVE IInv
    OBVIOUS
  <2>1. ThreadsOK
    BY DEF Init, ThreadsOK, Thread
  <2>2. Thread = {} /\ pc = "begin" /\ publisher = "none" /\ service = FALSE
    BY DEF Init, Thread
  <2>3. OpenInv
    BY <2>2 DEF OpenInv
  <2>4. CurrentInv /\ OneUserPerSection
    BY <2>2 DEF CurrentInv, OneUserPerSection
  <2>5. KnownInv
    BY <2>2 DEF KnownInv, IdleInv, NobodyLives, StartInv, SuperviseInv, TeardownInv,
       Starting, Accepting, Supervising
  <2> QED BY <2>1, <2>3, <2>4, <2>5, ScalarsInit, TypeParts DEF IInv
<1> QED BY <1>1, Inductive, PTL DEF Spec

(* Type correctness of the session, in every configuration. *)
THEOREM SessionTypeCorrect == Spec => []TypeOK
<1>1. IInv => TypeOK
  BY DEF IInv
<1> QED BY <1>1, Invariant, PTL

(* The hardware of a section has one user at a time, and when the supervisor *)
(* sleeps source_map leads to every living source: wherever interrupts       *)
(* arrive and whatever sources hang (run_until_stopped, start_enabled).      *)
THEOREM SourcesAreAlwaysKnown == Spec => []SourcesAreKnown
<1>1. IInv => SourcesAreKnown
  BY DEF IInv, SourcesAreKnown, EverySourceIsListed, KnownInv, SuperviseInv, Accepting, Supervising
<1> QED BY <1>1, Invariant, PTL

(* What a new session finds. *)
NothingLeftAtReload == pc = "begin" => NobodyLives /\ ~ service /\ publisher # "open"

(* A reload never starts a session while anything of the one before is left: *)
(* no source lives, the command service is closed and so is the publisher.   *)
(* It holds wherever interrupts arrive: one that makes the session forget a  *)
(* source finds no candidate, and the session is not replaced; one that      *)
(* finds a candidate comes when every source is known (_run_session).        *)
THEOREM ReloadStartsClean == Spec => []NothingLeftAtReload
<1>1. IInv => NothingLeftAtReload
  BY DEF IInv, NothingLeftAtReload, KnownInv, IdleInv, OpenInv
<1> QED BY <1>1, Invariant, PTL

(* While nothing has been forgotten, the teardown leaves nothing behind. *)
LEMMA CarefulIsClean == IInv /\ Careful => HandoverIsClean
<1> SUFFICES ASSUME IInv, Careful PROVE HandoverIsClean
  OBVIOUS
<1>1. TeardownInv
  BY DEF IInv, KnownInv
<1>2. NoSourceOutlivesPublisher
  BY <1>1 DEF NoSourceOutlivesPublisher, TeardownInv, NobodyLives, IInv, CurrentInv
<1>3. ClosedBeforeReplaced
  BY <1>1 DEF ClosedBeforeReplaced, TeardownInv, NobodyLives, IInv, KnownInv, IdleInv, OpenInv
<1> QED BY <1>2, <1>3 DEF HandoverIsClean

(* One session hands over to the next, or to the end of the program, without *)
(* leaving anything running or open, and no source outlives the publisher it *)
(* publishes into, as long as no interrupt has arrived: whether a session    *)
(* ends by a reload, an error or a source that cannot be started (the        *)
(* finally blocks of _run_session, stop_and_join).                           *)
THEOREM UninterruptedHandoverIsClean == Spec => [](interrupts = 0 => HandoverIsClean)
<1>1. IInv => (interrupts = 0 => HandoverIsClean)
  BY CarefulIsClean DEF Careful
<1> QED BY <1>1, Invariant, PTL

(* The same with interrupts, any number of them and at every other place:   *)
(* the handover is clean unless one arrives while a thread is being started *)
(* or while a failed start is rolled back.                                  *)
THEOREM HandoverIsAlwaysClean ==
  ASSUME InterruptAt \cap Forgetting = {}
  PROVE  Spec => []HandoverIsClean
<1>1. IInv => HandoverIsClean
  BY CarefulIsClean DEF Careful
<1> QED BY <1>1, Invariant, PTL

-----------------------------------------------------------------------------
(* RuntimeRules. *)

Coordinates == [latitude : Spot, longitude : Spot]
Air == [temperature : {0, 1, Word}]
Sample == [age : 0 .. Window + 1, sample : Level]

(* Values of the variables of RuntimeRules. *)
StoredOK ==
  /\ values \in [{"place", "air"} -> [age : Nat, fields : Coordinates \cup Air] \cup {None}]
  /\ values["place"] # None => values["place"].fields \in Coordinates
  /\ values["air"] # None => values["air"].fields \in Air
  /\ \A g \in {"place", "air"} : values[g] # None => values[g].age <= MaxAge[g] + 1

HistoryOK == history \in Seq(Sample) /\ Len(history) <= MaxSamples

EventsOK ==
  /\ pending \in 0 .. ForSeconds \cup {None}
  /\ held \in 0 .. ForSeconds \cup {None}
  /\ active \in BOOLEAN /\ busy \in BOOLEAN

PollerOK ==
  poller \in [doing : {"asleep", "reading"}, left : 0 .. PollInterval + MaxRetryDelay,
              retry : RetryDelay .. MaxRetryDelay]

WitnessOK ==
  /\ report \in [age : Nat, latitude : Spot, longitude : Spot] \cup {None}
  /\ run \in 0 .. MaxSamples
  /\ calm \in 0 .. Window + 1

RulesTyped == StoredOK /\ HistoryOK /\ EventsOK /\ PollerOK /\ WitnessOK

(* The place that is stored is the one reported last. *)
PlaceIsReported ==
  /\ values["place"] = None <=> report = None
  /\ report # None =>
       /\ values["place"].age = report.age
       /\ values["place"].fields = [latitude |-> report.latitude, longitude |-> report.longitude]

(* A debounce that runs is as old as the high temperature at most; only     *)
(* between a report and its evaluation may it have lost its reason.         *)
DebounceIsHeld ==
  /\ values["air"] # None /\ High => held # None
  /\ active => pending = None
  /\ pending # None =>
       \/ held # None /\ held >= pending
       \/ busy /\ (values["air"] = None \/ ~High)

(* The samples are as far apart as the polls, and the next is not due before *)
(* the last is that old.                                                     *)
SamplesAreSpaced ==
  /\ poller.doing = "reading" => poller.left = 0
  /\ history # << >> =>
       Least(PollInterval, Window + 1) <= history[Len(history)].age + poller.left
  /\ \A i \in 1 .. Len(history) :
       Least(history[Len(history)].age + PollInterval * (Len(history) - i), Window + 1)
         <= history[i].age

(* The last high temperature of the run is among the samples while it is in *)
(* the window.                                                              *)
CalmIsKnown ==
  calm <= Window => \E i \in 1 .. Len(history) : history[i].sample = 1 /\ history[i].age <= calm

(* The cap on the samples does not reach into the window: where it does,    *)
(* a high temperature may give way to later ones (the documentation says     *)
(* so), and an event may clear early.                                        *)
WindowFits == MaxSamples * PollInterval > Window

RulesInv ==
  /\ RulesTyped /\ PlaceIsReported /\ DebounceIsHeld /\ SamplesAreSpaced
  /\ WindowIsOneRun
  /\ WindowFits => CalmIsKnown

(* What is assumed of the constants. *)
LEMMA RulesConstants ==
  /\ MaxAge["place"] \in Nat \ {0} /\ MaxAge["air"] \in Nat \ {0}
  /\ Window \in Nat \ {0} /\ MaxSamples \in Nat \ {0} /\ PollInterval \in Nat \ {0}
  /\ RetryDelay \in Nat \ {0} /\ DependencyWait \in Nat \ {0}
  /\ ForSeconds \in Nat /\ MaxRetryDelay \in Nat /\ MaxRetryDelay >= RetryDelay
  /\ Word # 0 /\ Word # 1 /\ Word # None
  /\ None \notin Nat /\ None \notin Spot /\ None \notin Coordinates /\ None \notin Air
BY RulesAssumption DEF Coordinates, Air

(* A stored group is not None, and neither is a place that was reported. *)
LEMMA StoredIsSomething ==
  /\ \A a \in Nat, f \in Coordinates \cup Air : [age |-> a, fields |-> f] # None
  /\ \A a \in Nat, x \in Spot, y \in Spot :
       [age |-> a, latitude |-> x, longitude |-> y] # None
<1>1. None \notin [age : Nat, fields : Coordinates \cup Air]
  BY RulesAssumption DEF Coordinates, Air
<1>2. None \notin [age : Nat, latitude : Spot, longitude : Spot]
  BY RulesAssumption
<1> QED BY <1>1, <1>2

(* What the receiver's report changes. *)
LEMMA PlaceEffect ==
  ASSUME RulesTyped, NEW payload \in PlaceReport, Publish("place", payload)
  PROVE  /\ ~busy /\ busy' = TRUE
         /\ UNCHANGED <<history, pending, active, run, held, calm>>
         /\ DOMAIN values' = {"place", "air"} /\ values'["air"] = values["air"]
         /\ \/ values'["place"] = None /\ report' = None
            \/ \E x \in Spot, y \in Spot :
                 /\ values'["place"]
                      = [age |-> 0, fields |-> [latitude |-> x, longitude |-> y]]
                 /\ report' = [age |-> 0, latitude |-> x, longitude |-> y]
<1> DEFINE fields == extract("place", payload)
<1>1. /\ ~busy /\ busy' = TRUE
      /\ UNCHANGED <<pending, active>>
      /\ values' = [values EXCEPT !["place"] = IF fields = None THEN None
                                              ELSE [age |-> 0, fields |-> fields]]
      /\ remember("place", fields)
      /\ Witness("place", payload, fields)
  BY DEF Publish, update, eventVars
<1>2. UNCHANGED <<history, run, held, calm>>
  BY <1>1 DEF remember, Witness
<1>3. DOMAIN values = {"place", "air"}
  BY DEF RulesTyped, StoredOK
<1>4. /\ DOMAIN values' = {"place", "air"} /\ values'["air"] = values["air"]
      /\ values'["place"] = IF fields = None THEN None ELSE [age |-> 0, fields |-> fields]
  BY <1>1, <1>3
<1>5. payload.latitude \in Spot /\ payload.longitude \in Spot \cup {None}
  BY DEF PlaceReport
<1>6. CASE payload.mode = "fix" /\ payload.longitude # None
  <2>1. fields = [latitude |-> payload.latitude, longitude |-> payload.longitude]
    <3>1. fields = [f \in {"latitude", "longitude"} |-> payload[f]]
      BY <1>5, <1>6, RulesConstants DEF extract, Accepts, Fields
    <3> QED BY <3>1
  <2>2. fields # None
    BY <2>1, <1>5, <1>6, RulesConstants DEF Coordinates
  <2>3. report' = [age |-> 0, latitude |-> payload.latitude, longitude |-> payload.longitude]
    BY <1>1, <1>6 DEF Witness
  <2> QED BY <1>1, <1>2, <1>4, <1>5, <1>6, <2>1, <2>2, <2>3
<1>7. CASE ~(payload.mode = "fix" /\ payload.longitude # None)
  <2>1. fields = None
    BY <1>7, RulesConstants DEF extract, Accepts, Fields
  <2>2. report' = None
    BY <1>1, <1>7 DEF Witness
  <2> QED BY <1>1, <1>2, <1>4, <2>1, <2>2
<1> QED BY <1>6, <1>7

(* What a forecast changes: a temperature that is a number joins the run,   *)
(* everything else ends it.                                                 *)
Joins(t) ==
  /\ t \in Level
  /\ values'["air"] = [age |-> 0, fields |-> [temperature |-> t]]
  /\ history' = LET longer == Append(history, [age |-> 0, sample |-> t])
                IN  IF Len(longer) > MaxSamples THEN Tail(longer) ELSE longer
  /\ run' = Least(run + 1, MaxSamples)
  /\ held' = IF t # 1 THEN None ELSE IF held = None THEN 0 ELSE held
  /\ calm' = IF t = 1 THEN 0 ELSE calm

EndsRun ==
  /\ values'["air"] \in {None, [age |-> 0, fields |-> [temperature |-> Word]]}
  /\ history' = << >> /\ run' = 0 /\ held' = None /\ calm' = Window + 1

LEMMA AirEffect ==
  ASSUME RulesTyped, NEW payload \in AirReport, Publish("air", payload)
  PROVE  /\ ~busy /\ busy' = TRUE
         /\ UNCHANGED <<pending, active, report>>
         /\ DOMAIN values' = {"place", "air"} /\ values'["place"] = values["place"]
         /\ EndsRun \/ \E t \in Level : Joins(t)
<1> DEFINE fields == extract("air", payload)
           t == payload.temperature
<1>1. /\ ~busy /\ busy' = TRUE
      /\ UNCHANGED <<pending, active>>
      /\ values' = [values EXCEPT !["air"] = IF fields = None THEN None
                                            ELSE [age |-> 0, fields |-> fields]]
      /\ remember("air", fields)
      /\ Witness("air", payload, fields)
  BY DEF Publish, update, eventVars
<1>2. report' = report
  BY <1>1 DEF Witness
<1>3. DOMAIN values = {"place", "air"}
  BY DEF RulesTyped, StoredOK
<1>4. /\ DOMAIN values' = {"place", "air"} /\ values'["place"] = values["place"]
      /\ values'["air"] = IF fields = None THEN None ELSE [age |-> 0, fields |-> fields]
  BY <1>1, <1>3
<1>5. t \in {0, 1, Word, None}
  BY DEF AirReport, Level
<1>6. CASE t = None
  <2>1. fields = None
    BY <1>6 DEF extract, Fields
  <2>2. EndsRun
    BY <1>1, <1>4, <2>1 DEF EndsRun, remember, Witness
  <2> QED BY <1>1, <1>2, <1>4, <2>2
<1>7. CASE t # None
  <2>1. fields = [temperature |-> t]
    <3>1. fields = [f \in {"temperature"} |-> payload[f]]
      BY <1>7 DEF extract, Accepts, Fields
    <3> QED BY <3>1
  <2>2. fields # None /\ fields.temperature = t
    BY <2>1, <1>5, <1>7, RulesConstants DEF Air
  <2>3. CASE t = Word
    <3>1. EndsRun
      BY <1>1, <1>4, <2>1, <2>2, <2>3, RulesConstants DEF EndsRun, remember, Witness, Level
    <3> QED BY <1>1, <1>2, <1>4, <3>1
  <2>4. CASE t # Word
    <3>1. t \in Level
      BY <1>5, <1>7, <2>4 DEF Level
    <3>2. Joins(t)
      BY <1>1, <1>4, <2>1, <2>2, <3>1 DEF Joins, remember, Witness, Level
    <3> QED BY <1>1, <1>2, <1>4, <3>1, <3>2
  <2> QED BY <2>3, <2>4
<1> QED BY <1>6, <1>7

(* What an evaluation of the event does. *)
LEMMA EvaluateEffect ==
  ASSUME RulesTyped, evaluate
  PROVE  \/ pending' = None /\ active' = active
         \/ /\ active /\ PeakAvailable
            /\ pending' = pending /\ active' = (Peak = 1)
         \/ /\ values["air"] # None /\ ~active /\ High
            /\ pending' = None /\ active' = TRUE
            /\ IF pending = None THEN ForSeconds = 0 ELSE pending >= ForSeconds
         \/ /\ values["air"] # None /\ ~active /\ High
            /\ active' = FALSE
            /\ pending' = IF pending = None THEN 0 ELSE pending
         \/ pending' = None /\ ~active /\ active' = FALSE
<1> USE RulesConstants
<1>1. active \in BOOLEAN /\ (pending = None \/ pending \in 0 .. ForSeconds)
  BY DEF RulesTyped, EventsOK
<1>2. CASE ~Available("air") \/ (active /\ ~PeakAvailable)
  BY <1>2 DEF evaluate
<1>3. CASE Available("air") /\ active /\ PeakAvailable
  BY <1>3 DEF evaluate
<1>4. CASE Available("air") /\ ~active
  <2> DEFINE since == IF pending = None THEN 0 ELSE pending
  <2>1. since \in 0 .. ForSeconds
    BY <1>1
  <2>2. /\ active' = (High /\ since >= ForSeconds)
        /\ pending' = IF High /\ since < ForSeconds THEN since ELSE None
    BY <1>4 DEF evaluate
  <2>3. values["air"] # None
    BY <1>4 DEF Available
  <2>4. CASE ~High
    BY <1>4, <2>2, <2>4
  <2>5. CASE High /\ since >= ForSeconds
    <3>a. active' = TRUE
      BY <2>2, <2>5, Zenon
    <3>b. pending' = None
      BY <2>1, <2>2, <2>5
    <3>1. active' = TRUE /\ pending' = None
      BY <3>a, <3>b
    <3>2. IF pending = None THEN ForSeconds = 0 ELSE pending >= ForSeconds
      BY <2>1, <2>5
    <3> QED BY <1>4, <2>3, <2>5, <3>1, <3>2
  <2>6. CASE High /\ since < ForSeconds
    <3>a. ~(since >= ForSeconds)
      BY <2>1, <2>6
    <3>b. active' = FALSE
      BY <2>2, <3>a, Zenon
    <3>c. pending' = since
      BY <2>2, <2>6
    <3>1. active' = FALSE /\ pending' = since
      BY <3>b, <3>c
    <3> QED BY <1>4, <2>3, <2>6, <3>1
  <2>7. since >= ForSeconds \/ since < ForSeconds
    BY <2>1
  <2> QED BY <2>4, <2>5, <2>6, <2>7
<1> QED BY <1>1, <1>2, <1>3, <1>4

(* What a second changes. *)
LEMMA ElapseEffect ==
  ASSUME RulesTyped, Elapse
  PROVE  /\ UNCHANGED <<active, busy, asked, run>>
         /\ pending' = Older(pending, ForSeconds) /\ held' = Older(held, ForSeconds)
         /\ calm' = Least(calm + 1, Window + 1)
         /\ poller' \in [doing : {poller.doing}, retry : {poller.retry},
                         left : {IF poller.left > 0 THEN poller.left - 1 ELSE 0}]
         /\ DOMAIN values' = {"place", "air"}
         /\ \A g \in {"place", "air"} :
              IF values[g] = None THEN values'[g] = None
              ELSE values'[g] = [age |-> Least(values[g].age + 1, MaxAge[g] + 1),
                                 fields |-> values[g].fields]
         /\ IF report = None THEN report' = None
            ELSE report' = [age |-> Least(report.age + 1, MaxAge["place"] + 1),
                            latitude |-> report.latitude, longitude |-> report.longitude]
         /\ history' \in Seq(Sample) /\ Len(history') = Len(history)
         /\ \A i \in 1 .. Len(history) :
              /\ history'[i].age = Least(history[i].age + 1, Window + 1)
              /\ history'[i].sample = history[i].sample
<1> USE RulesConstants
<1>1. /\ UNCHANGED <<active, busy, asked, run>>
      /\ pending' = Older(pending, ForSeconds) /\ held' = Older(held, ForSeconds)
      /\ calm' = Least(calm + 1, Window + 1)
      /\ poller' = [poller EXCEPT !.left = IF @ > 0 THEN @ - 1 ELSE 0]
  BY DEF Elapse
<1>2. poller' \in [doing : {poller.doing}, retry : {poller.retry},
                   left : {IF poller.left > 0 THEN poller.left - 1 ELSE 0}]
  <2>1. poller \in [doing : {"asleep", "reading"}, left : 0 .. PollInterval + MaxRetryDelay,
                    retry : RetryDelay .. MaxRetryDelay]
    BY DEF RulesTyped, PollerOK
  <2> QED BY <1>1, <2>1
<1>3. /\ DOMAIN values' = {"place", "air"}
      /\ \A g \in {"place", "air"} :
           IF values[g] = None THEN values'[g] = None
           ELSE values'[g] = [age |-> Least(values[g].age + 1, MaxAge[g] + 1),
                              fields |-> values[g].fields]
  <2>1. values \in [{"place", "air"} -> [age : Nat, fields : Coordinates \cup Air] \cup {None}]
    BY DEF RulesTyped, StoredOK
  <2>2. values' = [g \in {"place", "air"} |->
                     IF values[g] = None THEN None
                     ELSE [values[g] EXCEPT !.age = Least(@ + 1, MaxAge[g] + 1)]]
    BY <2>1 DEF Elapse
  <2>3. \A n : \A v \in [age : Nat, fields : Coordinates \cup Air] :
           [v EXCEPT !.age = Least(@ + 1, n)] = [age |-> Least(v.age + 1, n), fields |-> v.fields]
    OBVIOUS
  <2>4. ASSUME NEW g \in {"place", "air"}, values[g] # None
        PROVE  [values[g] EXCEPT !.age = Least(@ + 1, MaxAge[g] + 1)]
                 = [age |-> Least(values[g].age + 1, MaxAge[g] + 1), fields |-> values[g].fields]
    BY <2>1, <2>3, <2>4
  <2> QED BY <2>2, <2>4
<1>4. IF report = None THEN report' = None
      ELSE report' = [age |-> Least(report.age + 1, MaxAge["place"] + 1),
                      latitude |-> report.latitude, longitude |-> report.longitude]
  <2>1. report = None \/ report \in [age : Nat, latitude : Spot, longitude : Spot]
    BY DEF RulesTyped, WitnessOK
  <2>2. report' = IF report = None THEN None
                  ELSE [report EXCEPT !.age = Least(@ + 1, MaxAge["place"] + 1)]
    BY DEF Elapse
  <2> QED BY <2>1, <2>2
<1>5. /\ history' \in Seq(Sample) /\ Len(history') = Len(history)
      /\ \A i \in 1 .. Len(history) :
           /\ history'[i].age = Least(history[i].age + 1, Window + 1)
           /\ history'[i].sample = history[i].sample
  <2>1. history \in Seq(Sample)
    BY DEF RulesTyped, HistoryOK
  <2>2. history' = [i \in 1 .. Len(history) |->
                      [history[i] EXCEPT !.age = Least(@ + 1, Window + 1)]]
    BY <2>1 DEF Elapse
  <2>3. ASSUME NEW i \in 1 .. Len(history)
        PROVE  /\ history'[i] \in Sample
               /\ history'[i].age = Least(history[i].age + 1, Window + 1)
               /\ history'[i].sample = history[i].sample
    <3>1. history[i] \in Sample
      BY <2>1
    <3>2. history'[i] = [history[i] EXCEPT !.age = Least(history[i].age + 1, Window + 1)]
      BY <2>2
    <3>3. history[i].age \in 0 .. Window + 1
          /\ Least(history[i].age + 1, Window + 1) \in 0 .. Window + 1
      BY <3>1 DEF Sample, Least
    <3> QED BY <3>1, <3>2, <3>3 DEF Sample
  <2>4. Len(history) \in Nat
    BY <2>1
  <2>5. Len(history') = Len(history)
    BY <2>2, <2>4
  <2>6. history' \in [1 .. Len(history) -> Sample]
    BY <2>2, <2>3
  <2>7. history' \in Seq(Sample)
    BY <2>4, <2>6
  <2> QED BY <2>3, <2>5, <2>7
<1> QED BY <1>1, <1>2, <1>3, <1>4, <1>5

(* The actions that neither report nor let time pass. *)
LEMMA QuietEffect ==
  ASSUME Settle \/ Maintain \/ Resolve \/ Failed
  PROVE  /\ UNCHANGED <<values, history, report, run, held, calm>>
         /\ \/ /\ evaluate /\ busy' = FALSE
               /\ UNCHANGED <<poller, asked>>
            \/ /\ UNCHANGED <<pending, active, busy>>
               /\ Resolve \/ Failed
<1>1. CASE Settle
  BY <1>1 DEF Settle, contextVars, pollVars, ghostVars
<1>2. CASE Maintain
  <2>1. /\ evaluate /\ ~busy
        /\ UNCHANGED <<values, history, busy, poller, asked, report, run, held, calm>>
    BY <1>2 DEF Maintain, contextVars, pollVars, ghostVars
  <2> QED BY <2>1, <1>2
<1>3. CASE Resolve
  BY <1>3 DEF Resolve, contextVars, eventVars, ghostVars
<1>4. CASE Failed
  BY <1>4 DEF Failed, contextVars, eventVars, ghostVars
<1> QED BY <1>1, <1>2, <1>3, <1>4

(* The place that is stored stays the one that was reported. *)
LEMMA PlaceStep ==
  ASSUME RulesTyped, PlaceIsReported, [RulesNext]_rulesVars
  PROVE  PlaceIsReported'
<1> USE RulesConstants
<1>1. CASE Receive
  <2>1. PICK payload \in PlaceReport : Publish("place", payload)
    BY <1>1 DEF Receive
  <2>2. \/ values'["place"] = None /\ report' = None
        \/ \E x \in Spot, y \in Spot :
             /\ values'["place"] = [age |-> 0, fields |-> [latitude |-> x, longitude |-> y]]
             /\ report' = [age |-> 0, latitude |-> x, longitude |-> y]
    BY <2>1, PlaceEffect
  <2>3. CASE values'["place"] = None /\ report' = None
    BY <2>3 DEF PlaceIsReported
  <2>4. ASSUME NEW x \in Spot, NEW y \in Spot,
               values'["place"] = [age |-> 0, fields |-> [latitude |-> x, longitude |-> y]],
               report' = [age |-> 0, latitude |-> x, longitude |-> y]
        PROVE  PlaceIsReported'
    <3>1. values'["place"] # None /\ report' # None
      BY <2>4, StoredIsSomething DEF Coordinates
    <3> QED BY <2>4, <3>1 DEF PlaceIsReported
  <2> QED BY <2>2, <2>3, <2>4
<1>2. CASE Forecast
  <2>1. PICK payload \in AirReport : Publish("air", payload)
    BY <1>2 DEF Forecast
  <2>2. values'["place"] = values["place"] /\ report' = report
    BY <2>1, AirEffect
  <2> QED BY <2>2 DEF PlaceIsReported
<1>3. CASE Settle \/ Maintain \/ Resolve \/ Failed
  <2>1. UNCHANGED <<values, report>>
    BY <1>3, QuietEffect
  <2> QED BY <2>1 DEF PlaceIsReported
<1>4. CASE Elapse
  <2>1. /\ IF values["place"] = None THEN values'["place"] = None
           ELSE values'["place"] = [age |-> Least(values["place"].age + 1, MaxAge["place"] + 1),
                                    fields |-> values["place"].fields]
        /\ IF report = None THEN report' = None
           ELSE report' = [age |-> Least(report.age + 1, MaxAge["place"] + 1),
                           latitude |-> report.latitude, longitude |-> report.longitude]
    BY <1>4, ElapseEffect
  <2>2. CASE report = None
    BY <2>1, <2>2 DEF PlaceIsReported
  <2>3. CASE report # None
    <3>1. /\ values["place"] # None /\ values["place"].age = report.age
          /\ values["place"].fields = [latitude |-> report.latitude,
                                       longitude |-> report.longitude]
      BY <2>3 DEF PlaceIsReported
    <3>2. /\ report.age \in Nat /\ report.latitude \in Spot /\ report.longitude \in Spot
          /\ values["place"].fields \in Coordinates
      BY <2>3, <3>1 DEF RulesTyped, WitnessOK, StoredOK
    <3>3. Least(report.age + 1, MaxAge["place"] + 1) \in Nat
      BY <3>2 DEF Least
    <3>4. values'["place"] # None /\ report' # None
      BY <2>1, <2>3, <3>1, <3>2, <3>3, StoredIsSomething
    <3>5. /\ values'["place"].age = report'.age
          /\ values'["place"].fields = values["place"].fields
          /\ report'.latitude = report.latitude /\ report'.longitude = report.longitude
      BY <2>1, <2>3, <3>1
    <3> QED BY <3>1, <3>4, <3>5 DEF PlaceIsReported
  <2> QED BY <2>2, <2>3
<1>5. CASE UNCHANGED rulesVars
  BY <1>5 DEF PlaceIsReported, rulesVars, contextVars, ghostVars
<1> QED BY <1>1, <1>2, <1>3, <1>4, <1>5 DEF RulesNext

(* What justifies a debounce is kept. *)
LEMMA DebounceStep ==
  ASSUME RulesTyped, DebounceIsHeld, [RulesNext]_rulesVars
  PROVE  DebounceIsHeld'
<1> USE RulesConstants
<1>t. /\ held = None \/ held \in 0 .. ForSeconds
      /\ pending = None \/ pending \in 0 .. ForSeconds
      /\ active \in BOOLEAN /\ busy \in BOOLEAN
      /\ values["air"] # None => values["air"].fields.temperature \in {0, 1, Word}
  BY DEF RulesTyped, EventsOK, StoredOK, Air
<1>1. CASE Receive
  <2>1. PICK payload \in PlaceReport : Publish("place", payload)
    BY <1>1 DEF Receive
  <2>2. /\ ~busy /\ busy' = TRUE /\ UNCHANGED <<pending, active, held>>
        /\ values'["air"] = values["air"]
    BY <2>1, PlaceEffect
  <2> QED BY <2>2 DEF DebounceIsHeld, High
<1>2. CASE Forecast
  <2>1. PICK payload \in AirReport : Publish("air", payload)
    BY <1>2 DEF Forecast
  <2>2. /\ ~busy /\ busy' = TRUE /\ UNCHANGED <<pending, active>>
        /\ EndsRun \/ \E t \in Level : Joins(t)
    BY <2>1, AirEffect
  <2>3. /\ pending # None => held # None /\ held >= pending
        /\ active => pending = None
    BY <2>2 DEF DebounceIsHeld
  <2>4. CASE EndsRun
    <3>1. values'["air"] = None \/ ~High'
      BY <2>4 DEF EndsRun, High
    <3> QED BY <2>2, <2>3, <3>1 DEF DebounceIsHeld
  <2>5. CASE \E t \in Level : Joins(t)
    <3>1. PICK t \in Level : Joins(t)
      BY <2>5
    <3>2. High' <=> t = 1
      BY <3>1 DEF Joins, High
    <3>3. CASE t = 1
      <4>1. held' = IF held = None THEN 0 ELSE held
        BY <3>1, <3>3 DEF Joins
      <4> QED BY <1>t, <2>2, <2>3, <4>1 DEF DebounceIsHeld
    <3>4. CASE t # 1
      BY <2>2, <2>3, <3>2, <3>4 DEF DebounceIsHeld
    <3> QED BY <3>3, <3>4
  <2> QED BY <2>2, <2>4, <2>5
<1>3. CASE Settle \/ Maintain \/ Resolve \/ Failed
  <2>1. /\ UNCHANGED <<values, held>>
        /\ \/ evaluate /\ busy' = FALSE
           \/ UNCHANGED <<pending, active, busy>>
    BY <1>3, QuietEffect
  <2>2. CASE UNCHANGED <<pending, active, busy>>
    BY <2>1, <2>2 DEF DebounceIsHeld, High
  <2>3. CASE evaluate /\ busy' = FALSE
    <3>1. High' <=> High
      BY <2>1 DEF High
    <3>2. \/ pending' = None /\ active' = active
          \/ active /\ pending' = pending
          \/ pending' = None
          \/ /\ values["air"] # None /\ High /\ active' = FALSE
             /\ pending' = IF pending = None THEN 0 ELSE pending
      BY <2>3, EvaluateEffect
    <3>3. CASE pending' = None
      BY <2>1, <3>1, <3>3 DEF DebounceIsHeld
    <3>4. CASE active /\ pending' = pending
      <4>1. pending' = None
        BY <3>4 DEF DebounceIsHeld
      <4> QED BY <3>3, <4>1
    <3>5. CASE /\ values["air"] # None /\ High /\ active' = FALSE
               /\ pending' = IF pending = None THEN 0 ELSE pending
      <4>1. held # None /\ (pending # None => held >= pending)
        BY <3>5 DEF DebounceIsHeld
      <4>2. held' >= pending'
        BY <1>t, <2>1, <3>5, <4>1
      <4> QED BY <2>1, <3>1, <3>5, <4>1, <4>2 DEF DebounceIsHeld
    <3> QED BY <3>2, <3>3, <3>4, <3>5
  <2> QED BY <2>1, <2>2, <2>3
<1>4. CASE Elapse
  <2>1. /\ UNCHANGED <<active, busy>>
        /\ pending' = Older(pending, ForSeconds) /\ held' = Older(held, ForSeconds)
        /\ IF values["air"] = None THEN values'["air"] = None
           ELSE values'["air"] = [age |-> Least(values["air"].age + 1, MaxAge["air"] + 1),
                                  fields |-> values["air"].fields]
    BY <1>4, ElapseEffect
  <2>2. \A a \in 0 .. ForSeconds : Older(a, ForSeconds) \in 0 .. ForSeconds
    BY DEF Older, Least
  <2>3. \A a, b \in 0 .. ForSeconds : b >= a => Older(b, ForSeconds) >= Older(a, ForSeconds)
    BY DEF Older, Least
  <2>4. /\ pending' = None <=> pending = None
        /\ held' = None <=> held = None
    BY <1>t, <2>1, <2>2 DEF Older
  <2>5. pending # None /\ held # None /\ held >= pending => held' >= pending'
    BY <1>t, <2>1, <2>3
  <2>6. values["air"] = None => values'["air"] = None
    BY <2>1
  <2>7. values["air"] # None => values'["air"].fields = values["air"].fields
    BY <2>1
  <2>8. CASE values["air"] = None
    BY <2>1, <2>4, <2>5, <2>6, <2>8 DEF DebounceIsHeld
  <2>9. CASE values["air"] # None
    <3>1. High' <=> High
      BY <2>7, <2>9 DEF High
    <3> QED BY <2>1, <2>4, <2>5, <2>9, <3>1 DEF DebounceIsHeld
  <2> QED BY <2>8, <2>9
<1>5. CASE UNCHANGED rulesVars
  BY <1>5 DEF DebounceIsHeld, High, rulesVars, contextVars, eventVars, ghostVars
<1> QED BY <1>1, <1>2, <1>3, <1>4, <1>5 DEF RulesNext

(* The samples when one joins them: the oldest gives way when they are full. *)
Shift == IF Len(history) = MaxSamples THEN 1 ELSE 0

LEMMA JoinedSamples ==
  ASSUME RulesTyped, NEW t \in Level, Joins(t)
  PROVE  /\ Len(history) \in Nat /\ Len(history) <= MaxSamples
         /\ history' \in Seq(Sample) /\ Len(history') = Len(history) + 1 - Shift
         /\ history'[Len(history')] = [age |-> 0, sample |-> t]
         /\ \A i \in 1 .. Len(history') - 1 : history'[i] = history[i + Shift]
<1> USE RulesConstants
<1> DEFINE new == [age |-> 0, sample |-> t]
           longer == Append(history, new)
<1>1. history \in Seq(Sample) /\ Len(history) <= MaxSamples /\ Len(history) \in Nat
  BY DEF RulesTyped, HistoryOK
<1>2. new \in Sample
  BY DEF Sample
<1>3. history' = IF Len(longer) > MaxSamples THEN Tail(longer) ELSE longer
  BY DEF Joins
<1> HIDE DEF new
<1>4. /\ longer \in Seq(Sample) /\ Len(longer) = Len(history) + 1
      /\ longer[Len(history) + 1] = new
      /\ \A i \in 1 .. Len(history) : longer[i] = history[i]
  BY <1>1, <1>2
<1> HIDE DEF longer
<1>5. CASE Len(history) = MaxSamples
  <2>1. history' = Tail(longer) /\ Shift = 1
    BY <1>3, <1>4, <1>5 DEF Shift
  <2>2. /\ history' \in Seq(Sample) /\ Len(history') = Len(history)
        /\ \A i \in 1 .. Len(history) : history'[i] = longer[i + 1]
    BY <1>1, <1>4, <2>1
  <2>3. history'[Len(history)] = new
    BY <1>1, <1>4, <1>5, <2>2
  <2>4. \A i \in 1 .. Len(history) - 1 : history'[i] = history[i + 1]
    BY <1>1, <1>4, <2>2
  <2>5. Len(history') = Len(history) + 1 - Shift
    BY <1>1, <2>1, <2>2
  <2>6. history'[Len(history')] = new
    BY <2>2, <2>3
  <2>7. \A i \in 1 .. Len(history') - 1 : history'[i] = history[i + Shift]
    BY <2>1, <2>2, <2>4
  <2> QED BY <1>1, <2>2, <2>5, <2>6, <2>7 DEF new
<1>6. CASE Len(history) # MaxSamples
  <2>1. history' = longer /\ Shift = 0
    BY <1>1, <1>3, <1>4, <1>6 DEF Shift
  <2> QED BY <1>1, <1>4, <2>1 DEF new
<1> QED BY <1>5, <1>6

(* The arithmetic of the spacing: one more poll, one more second. *)
LEMMA PollArithmetic ==
  ASSUME NEW p \in Nat, NEW w \in Nat, NEW n \in Nat, NEW last \in Nat, NEW age \in Nat,
         Least(p, w) <= last, Least(last + p * n, w) <= age
  PROVE  Least(0 + p * (n + 1), w) <= age
<1>1. p * (n + 1) = p * n + p
  OBVIOUS
<1>2. p * n \in Nat /\ p * (n + 1) \in Nat
  OBVIOUS
<1> QED BY <1>1, <1>2 DEF Least

(* The samples stay spaced. *)
LEMMA SpacedStep ==
  ASSUME RulesTyped, SamplesAreSpaced, [RulesNext]_rulesVars
  PROVE  SamplesAreSpaced'
<1> USE RulesConstants
<1>t. /\ history \in Seq(Sample) /\ Len(history) \in Nat
      /\ \A i \in 1 .. Len(history) : history[i].age \in Nat /\ history[i].age <= Window + 1
      /\ poller.left \in Nat
  <2>1. history \in Seq(Sample)
    BY DEF RulesTyped, HistoryOK
  <2>2. \A i \in 1 .. Len(history) : history[i] \in Sample
    BY <2>1
  <2>3. poller.left \in Nat
    BY DEF RulesTyped, PollerOK
  <2> QED BY <2>1, <2>2, <2>3 DEF Sample
<1>1. CASE Receive
  <2>1. PICK payload \in PlaceReport : Publish("place", payload)
    BY <1>1 DEF Receive
  <2>2. UNCHANGED history
    BY <2>1, PlaceEffect
  <2>3. UNCHANGED poller
    BY <1>1 DEF Receive, pollVars
  <2> QED BY <2>2, <2>3, Zenon DEF SamplesAreSpaced
<1>2. CASE Forecast
  <2>1. PICK payload \in AirReport : Publish("air", payload)
    BY <1>2 DEF Forecast
  <2>2. EndsRun \/ \E t \in Level : Joins(t)
    BY <2>1, AirEffect
  <2>3. /\ poller.doing = "reading" /\ poller.left = 0
        /\ poller'.doing = "asleep" /\ poller'.left = PollInterval
    BY <1>2 DEF Forecast, Asleep, SamplesAreSpaced
  <2>4. CASE EndsRun
    BY <2>3, <2>4 DEF EndsRun, SamplesAreSpaced
  <2>5. ASSUME NEW t \in Level, Joins(t) PROVE SamplesAreSpaced'
    <3> DEFINE L == Len(history)
               M == Len(history')
    <3>1. /\ L <= MaxSamples /\ M = L + 1 - Shift /\ Shift \in {0, 1}
          /\ history'[M] = [age |-> 0, sample |-> t]
          /\ \A i \in 1 .. M - 1 : history'[i] = history[i + Shift]
      BY <2>5, JoinedSamples DEF Shift
    <3>2. history'[M].age = 0
      BY <3>1
    <3>3. Least(PollInterval, Window + 1) <= history'[M].age + poller'.left
      BY <2>3, <3>2 DEF Least
    <3>4. ASSUME NEW i \in 1 .. M
          PROVE  Least(history'[M].age + PollInterval * (M - i), Window + 1) <= history'[i].age
      <4>1. CASE i = M
        BY <3>2, <4>1, <1>t, <3>1 DEF Least
      <4>2. CASE i # M
        <5> DEFINE k == i + Shift
        <5>1. k \in 1 .. L /\ history'[i] = history[k] /\ M - i = (L - k) + 1 /\ L - k \in Nat
          BY <1>t, <3>1, <4>2
        <5>2. /\ Least(PollInterval, Window + 1) <= history[L].age
              /\ Least(history[L].age + PollInterval * (L - k), Window + 1) <= history[k].age
              /\ history[L].age \in Nat /\ history[k].age \in Nat
          <6>1. history # << >> /\ L \in 1 .. L
            BY <1>t, <5>1
          <6>2. Least(PollInterval, Window + 1) <= history[L].age + poller.left
            BY <6>1 DEF SamplesAreSpaced
          <6>3. history[L].age \in Nat /\ history[k].age \in Nat
            BY <1>t, <5>1, <6>1
          <6>4. Least(history[L].age + PollInterval * (L - k), Window + 1) <= history[k].age
            BY <5>1 DEF SamplesAreSpaced
          <6> QED BY <2>3, <6>2, <6>3, <6>4
        <5> DEFINE d == L - k
                   last == history[L].age
                   age == history[k].age
        <5>3. /\ d \in Nat /\ last \in Nat /\ age \in Nat
              /\ PollInterval \in Nat /\ Window + 1 \in Nat
              /\ Least(PollInterval, Window + 1) <= last
              /\ Least(last + PollInterval * d, Window + 1) <= age
              /\ M - i = d + 1 /\ history'[i].age = age
          BY <5>1, <5>2
        <5> HIDE DEF k, L, M, d, last, age
        <5>4. Least(0 + PollInterval * (d + 1), Window + 1) <= age
          BY <5>3, PollArithmetic
        <5> QED BY <3>2, <5>3, <5>4
      <4> QED BY <4>1, <4>2
    <3> QED BY <2>3, <3>3, <3>4 DEF SamplesAreSpaced
  <2> QED BY <2>2, <2>4, <2>5
<1>3. CASE Settle \/ Maintain \/ Resolve \/ Failed
  <2>1. /\ UNCHANGED history
        /\ UNCHANGED poller \/ Resolve \/ Failed
    BY <1>3, QuietEffect
  <2>2. CASE UNCHANGED poller
    BY <2>1, <2>2 DEF SamplesAreSpaced
  <2>3. CASE Resolve \/ Failed
    <3>1. poller.left = 0
      BY <2>3 DEF Resolve, Failed, SamplesAreSpaced
    <3>2. poller \in [doing : {"asleep", "reading"}, left : 0 .. PollInterval + MaxRetryDelay,
                      retry : RetryDelay .. MaxRetryDelay]
      BY DEF RulesTyped, PollerOK
    <3>3. /\ poller'.doing = "reading" => poller'.left = 0
          /\ poller'.left \in Nat
      BY <2>3, <3>1, <3>2 DEF Resolve, Failed, Asleep, Least
    <3>4. history # << >> => history[Len(history)].age \in Nat
      BY <1>t
    <3>5. Least(PollInterval, Window + 1) \in Nat
      BY DEF Least
    <3> QED BY <2>1, <3>1, <3>3, <3>4, <3>5 DEF SamplesAreSpaced
  <2> QED BY <2>1, <2>2, <2>3
<1>4. CASE Elapse
  <2> DEFINE L == Len(history)
  <2>1. /\ Len(history') = L
        /\ \A i \in 1 .. L : history'[i].age = Least(history[i].age + 1, Window + 1)
        /\ poller'.doing = poller.doing
        /\ poller'.left = IF poller.left > 0 THEN poller.left - 1 ELSE 0
        /\ history' \in Seq(Sample)
    BY <1>4, ElapseEffect
  <2>2. poller'.doing = "reading" => poller'.left = 0
    BY <2>1 DEF SamplesAreSpaced
  <2>3. history' # << >> => L \in 1 .. L /\ history # << >>
    BY <1>t, <2>1
  <2>4. ASSUME history' # << >>
        PROVE  Least(PollInterval, Window + 1) <= history'[L].age + poller'.left
    <3>1. Least(PollInterval, Window + 1) <= history[L].age + poller.left
      BY <2>3, <2>4 DEF SamplesAreSpaced
    <3>2. /\ history'[L].age = Least(history[L].age + 1, Window + 1)
          /\ history[L].age \in Nat
      BY <1>t, <2>1, <2>3, <2>4
    <3>3. /\ poller'.left = IF poller.left > 0 THEN poller.left - 1 ELSE 0
          /\ poller.left \in Nat
      BY <1>t, <2>1
    <3> HIDE DEF L
    <3> QED BY <1>t, <3>1, <3>2, <3>3 DEF Least
  <2>5. ASSUME NEW i \in 1 .. L
        PROVE  Least(history'[L].age + PollInterval * (L - i), Window + 1) <= history'[i].age
    <3>1. Least(history[L].age + PollInterval * (L - i), Window + 1) <= history[i].age
      BY <2>5 DEF SamplesAreSpaced
    <3>2. L \in 1 .. L
      BY <1>t
    <3>3. PollInterval * (L - i) \in Nat
      BY <1>t
    <3>4. /\ history'[L].age = Least(history[L].age + 1, Window + 1)
          /\ history'[i].age = Least(history[i].age + 1, Window + 1)
          /\ history[L].age \in Nat /\ history[i].age \in Nat
      BY <1>t, <2>1, <3>2
    <3> HIDE DEF L
    <3> QED BY <3>1, <3>3, <3>4 DEF Least
  <2> QED BY <2>1, <2>2, <2>4, <2>5 DEF SamplesAreSpaced
<1>5. CASE UNCHANGED rulesVars
  BY <1>5 DEF SamplesAreSpaced, rulesVars, contextVars, pollVars
<1> QED BY <1>1, <1>2, <1>3, <1>4, <1>5 DEF RulesNext

(* A sample that gives way to a new one has left the window. *)
LEMMA EvictedIsOld ==
  ASSUME RulesTyped, SamplesAreSpaced, WindowFits, poller.doing = "reading",
         Len(history) = MaxSamples
  PROVE  history[1].age > Window
<1> USE RulesConstants
<1> DEFINE L == Len(history)
           last == history[L].age
           age == history[1].age
<1>1. /\ L = MaxSamples /\ history # << >> /\ 1 \in 1 .. L /\ L \in 1 .. L
      /\ last \in Nat /\ age \in Nat
  <2>1. history \in Seq(Sample) /\ L = MaxSamples
    BY DEF RulesTyped, HistoryOK
  <2>2. history # << >> /\ 1 \in 1 .. L /\ L \in 1 .. L
    BY <2>1
  <2>3. history[1] \in Sample /\ history[L] \in Sample
    BY <2>1, <2>2
  <2> QED BY <2>1, <2>2, <2>3 DEF Sample
<1>2. Least(PollInterval, Window + 1) <= last
  <2>1. Least(PollInterval, Window + 1) <= history[Len(history)].age + poller.left
    BY <1>1 DEF SamplesAreSpaced
  <2>2. poller.left = 0
    BY DEF SamplesAreSpaced
  <2> QED BY <1>1, <2>1, <2>2
<1>3. Least(last + PollInterval * (L - 1), Window + 1) <= age
  BY <1>1 DEF SamplesAreSpaced
<1> DEFINE n == L - 1
<1>4. /\ n \in Nat /\ PollInterval \in Nat /\ Window + 1 \in Nat
      /\ n + 1 = MaxSamples /\ Least(last + PollInterval * n, Window + 1) <= age
  BY <1>1, <1>3
<1> HIDE DEF L, last, age, n
<1>5. Least(0 + PollInterval * (n + 1), Window + 1) <= age
  BY <1>1, <1>2, <1>4, PollArithmetic
<1>6. PollInterval * (n + 1) = MaxSamples * PollInterval
  BY <1>4
<1>7. PollInterval * (n + 1) > Window /\ PollInterval * (n + 1) \in Nat
  BY <1>4, <1>6 DEF WindowFits
<1>8. age > Window
  BY <1>1, <1>5, <1>7 DEF Least
<1> QED BY <1>8 DEF age

(* The last high temperature stays known while it is in the window. *)
LEMMA CalmStep ==
  ASSUME RulesTyped, SamplesAreSpaced, WindowFits, CalmIsKnown, [RulesNext]_rulesVars
  PROVE  CalmIsKnown'
<1> USE RulesConstants
<1>t. /\ calm \in 0 .. Window + 1
      /\ Len(history) \in Nat
      /\ \A i \in 1 .. Len(history) : history[i].age \in Nat
  <2>1. history \in Seq(Sample) /\ calm \in 0 .. Window + 1
    BY DEF RulesTyped, HistoryOK, WitnessOK
  <2>2. \A i \in 1 .. Len(history) : history[i] \in Sample
    BY <2>1
  <2> QED BY <2>1, <2>2 DEF Sample
<1>1. CASE Receive
  <2>1. PICK payload \in PlaceReport : Publish("place", payload)
    BY <1>1 DEF Receive
  <2>2. UNCHANGED <<history, calm>>
    BY <2>1, PlaceEffect
  <2> QED BY <2>2 DEF CalmIsKnown
<1>2. CASE Forecast
  <2>1. PICK payload \in AirReport : Publish("air", payload)
    BY <1>2 DEF Forecast
  <2>2. EndsRun \/ \E t \in Level : Joins(t)
    BY <2>1, AirEffect
  <2>3. CASE EndsRun
    BY <2>3 DEF EndsRun, CalmIsKnown
  <2>4. ASSUME NEW t \in Level, Joins(t), calm' <= Window
        PROVE  \E i \in 1 .. Len(history') : history'[i].sample = 1 /\ history'[i].age <= calm'
    <3> DEFINE M == Len(history')
    <3>1. /\ Len(history) <= MaxSamples /\ M = Len(history) + 1 - Shift /\ Shift \in {0, 1}
          /\ history'[M] = [age |-> 0, sample |-> t]
          /\ \A i \in 1 .. M - 1 : history'[i] = history[i + Shift]
      BY <2>4, JoinedSamples DEF Shift
    <3>2. calm' = IF t = 1 THEN 0 ELSE calm
      BY <2>4 DEF Joins
    <3>3. CASE t = 1
      <4>1. M \in 1 .. M
        BY <1>t, <3>1 DEF Shift
      <4>2. history'[M].sample = 1 /\ history'[M].age <= calm'
        BY <3>1, <3>2, <3>3
      <4> QED BY <4>1, <4>2
    <3>4. CASE t # 1
      <4>1. PICK k \in 1 .. Len(history) : history[k].sample = 1 /\ history[k].age <= calm
        BY <2>4, <3>2, <3>4 DEF CalmIsKnown
      <4>2. k > Shift
        <5>1. CASE Len(history) = MaxSamples
          <6>1. history[1].age > Window
            BY <1>2, <5>1, EvictedIsOld DEF Forecast
          <6>2. k # 1
            BY <1>t, <2>4, <3>2, <3>4, <4>1, <6>1
          <6> QED BY <5>1, <6>2 DEF Shift
        <5>2. CASE Len(history) # MaxSamples
          BY <5>2 DEF Shift
        <5> QED BY <5>1, <5>2
      <4>3. k - Shift \in 1 .. M - 1 /\ k - Shift \in 1 .. M /\ (k - Shift) + Shift = k
        BY <1>t, <3>1, <4>2
      <4>4. history'[k - Shift] = history[k]
        BY <3>1, <4>3
      <4> QED BY <3>2, <3>4, <4>1, <4>3, <4>4
    <3> QED BY <3>3, <3>4
  <2> QED BY <2>2, <2>3, <2>4 DEF CalmIsKnown
<1>3. CASE Settle \/ Maintain \/ Resolve \/ Failed
  <2>1. UNCHANGED <<history, calm>>
    BY <1>3, QuietEffect
  <2> QED BY <2>1 DEF CalmIsKnown
<1>4. CASE Elapse
  <2>1. /\ Len(history') = Len(history) /\ calm' = Least(calm + 1, Window + 1)
        /\ \A i \in 1 .. Len(history) :
             /\ history'[i].age = Least(history[i].age + 1, Window + 1)
             /\ history'[i].sample = history[i].sample
    BY <1>4, ElapseEffect
  <2>2. ASSUME calm' <= Window
        PROVE  \E i \in 1 .. Len(history') : history'[i].sample = 1 /\ history'[i].age <= calm'
    <3>1. calm <= Window /\ calm' = calm + 1
      BY <1>t, <2>1, <2>2 DEF Least
    <3>2. PICK k \in 1 .. Len(history) : history[k].sample = 1 /\ history[k].age <= calm
      BY <3>1 DEF CalmIsKnown
    <3>3. history'[k].sample = 1 /\ history'[k].age <= calm'
      BY <1>t, <2>1, <3>1, <3>2 DEF Least
    <3> QED BY <2>1, <3>2, <3>3
  <2> QED BY <2>2 DEF CalmIsKnown
<1>5. CASE UNCHANGED rulesVars
  BY <1>5 DEF CalmIsKnown, rulesVars, contextVars, ghostVars
<1> QED BY <1>1, <1>2, <1>3, <1>4, <1>5 DEF RulesNext

(* The samples stay those of one run. *)
LEMMA OneRunStep ==
  ASSUME RulesTyped, WindowIsOneRun, [RulesNext]_rulesVars
  PROVE  WindowIsOneRun'
<1> USE RulesConstants
<1>1. CASE Receive
  <2>1. PICK payload \in PlaceReport : Publish("place", payload)
    BY <1>1 DEF Receive
  <2> QED BY <2>1, PlaceEffect DEF WindowIsOneRun
<1>2. CASE Forecast
  <2>1. PICK payload \in AirReport : Publish("air", payload)
    BY <1>2 DEF Forecast
  <2>2. EndsRun \/ \E t \in Level : Joins(t)
    BY <2>1, AirEffect
  <2>3. CASE EndsRun
    BY <2>3 DEF EndsRun, WindowIsOneRun
  <2>4. ASSUME NEW t \in Level, Joins(t) PROVE WindowIsOneRun'
    <3>1. Len(history) \in Nat /\ Len(history) <= MaxSamples /\ Len(history') = Len(history) + 1 - Shift
      BY <2>4, JoinedSamples
    <3>2. run' = Least(run + 1, MaxSamples) /\ run \in 0 .. MaxSamples
      BY <2>4 DEF Joins, RulesTyped, WitnessOK
    <3>3. Len(history') <= MaxSamples /\ Len(history') <= Len(history) + 1
      BY <3>1 DEF Shift
    <3>4. Len(history) <= run /\ Len(history') \in Int
      BY <3>1 DEF WindowIsOneRun, Shift
    <3>5. Len(history') <= run'
      BY <3>1, <3>2, <3>3, <3>4 DEF Least
    <3> QED BY <3>5 DEF WindowIsOneRun
  <2> QED BY <2>2, <2>3, <2>4
<1>3. CASE Settle \/ Maintain \/ Resolve \/ Failed
  <2>1. UNCHANGED <<history, run>>
    BY <1>3, QuietEffect
  <2> QED BY <2>1 DEF WindowIsOneRun
<1>4. CASE Elapse
  BY <1>4, ElapseEffect DEF WindowIsOneRun
<1>5. CASE UNCHANGED rulesVars
  BY <1>5 DEF WindowIsOneRun, rulesVars, contextVars, ghostVars
<1> QED BY <1>1, <1>2, <1>3, <1>4, <1>5 DEF RulesNext

(* The variables keep their types. *)
LEMMA RulesTypedStep ==
  ASSUME RulesTyped, [RulesNext]_rulesVars
  PROVE  RulesTyped'
<1> USE RulesConstants
<1>t. /\ StoredOK /\ HistoryOK /\ EventsOK /\ PollerOK /\ WitnessOK
      /\ report # None => /\ report.age \in Nat
                          /\ report.latitude \in Spot /\ report.longitude \in Spot
  BY DEF RulesTyped, WitnessOK
<1>1. CASE Receive
  <2>1. PICK payload \in PlaceReport : Publish("place", payload)
    BY <1>1 DEF Receive
  <2>2. /\ busy' = TRUE /\ UNCHANGED <<history, pending, active, run, held, calm, poller>>
        /\ DOMAIN values' = {"place", "air"} /\ values'["air"] = values["air"]
        /\ \/ values'["place"] = None /\ report' = None
           \/ \E x \in Spot, y \in Spot :
                /\ values'["place"] = [age |-> 0, fields |-> [latitude |-> x, longitude |-> y]]
                /\ report' = [age |-> 0, latitude |-> x, longitude |-> y]
    BY <1>1, <2>1, PlaceEffect DEF Receive, pollVars
  <2>3. HistoryOK' /\ EventsOK' /\ PollerOK'
    BY <1>t, <2>2 DEF HistoryOK, EventsOK, PollerOK
  <2>4. WitnessOK'
    BY <1>t, <2>2 DEF WitnessOK
  <2>5. values'["place"] # None =>
          /\ values'["place"] \in [age : Nat, fields : Coordinates]
          /\ values'["place"].age = 0
    BY <2>2 DEF Coordinates
  <2>6. StoredOK'
    <3>1. values' = [g \in {"place", "air"} |-> values'[g]]
      BY <2>1, <1>t DEF Publish, update, StoredOK
    <3> QED BY <1>t, <2>2, <2>5, <3>1 DEF StoredOK
  <2> QED BY <2>3, <2>4, <2>6 DEF RulesTyped
<1>2. CASE Forecast
  <2>1. PICK payload \in AirReport : Publish("air", payload)
    BY <1>2 DEF Forecast
  <2>2. /\ busy' = TRUE /\ UNCHANGED <<pending, active, report>>
        /\ DOMAIN values' = {"place", "air"} /\ values'["place"] = values["place"]
        /\ EndsRun \/ \E t \in Level : Joins(t)
    BY <2>1, AirEffect
  <2>3. PollerOK'
    BY <1>2 DEF Forecast, Asleep, PollerOK
  <2>4. values' = [g \in {"place", "air"} |-> values'[g]]
    BY <2>1, <1>t DEF Publish, update, StoredOK
  <2>5. CASE EndsRun
    <3>1. HistoryOK' /\ WitnessOK'
      BY <1>t, <2>2, <2>5 DEF EndsRun, HistoryOK, WitnessOK
    <3>2. EventsOK'
      BY <1>t, <2>2, <2>5 DEF EndsRun, EventsOK
    <3>3. values'["air"] # None =>
            values'["air"] \in [age : Nat, fields : Air] /\ values'["air"].age = 0
      BY <2>5 DEF EndsRun, Air
    <3>4. StoredOK'
      BY <1>t, <2>2, <2>4, <3>3 DEF StoredOK
    <3> QED BY <2>3, <3>1, <3>2, <3>4 DEF RulesTyped
  <2>6. ASSUME NEW t \in Level, Joins(t) PROVE RulesTyped'
    <3>1. HistoryOK'
      <4>1. /\ Len(history) \in Nat /\ Len(history) <= MaxSamples
            /\ history' \in Seq(Sample) /\ Len(history') = Len(history) + 1 - Shift
        BY <2>6, JoinedSamples
      <4> QED BY <4>1 DEF HistoryOK, Shift
    <3>2. WitnessOK'
      BY <1>t, <2>2, <2>6 DEF Joins, WitnessOK, Least
    <3>3. EventsOK'
      BY <1>t, <2>2, <2>6 DEF Joins, EventsOK
    <3>4. values'["air"] \in [age : Nat, fields : Air] /\ values'["air"].age = 0
      BY <2>6 DEF Joins, Air, Level
    <3>5. StoredOK'
      BY <1>t, <2>2, <2>4, <3>4 DEF StoredOK
    <3> QED BY <2>3, <3>1, <3>2, <3>3, <3>5 DEF RulesTyped
  <2> QED BY <2>2, <2>5, <2>6
<1>3. CASE Settle \/ Maintain \/ Resolve \/ Failed
  <2>1. /\ UNCHANGED <<values, history, report, run, held, calm>>
        /\ \/ evaluate /\ busy' = FALSE /\ UNCHANGED <<poller, asked>>
           \/ UNCHANGED <<pending, active, busy>> /\ (Resolve \/ Failed)
    BY <1>3, QuietEffect
  <2>2. StoredOK' /\ HistoryOK' /\ WitnessOK'
    BY <1>t, <2>1 DEF StoredOK, HistoryOK, WitnessOK
  <2>3. CASE evaluate /\ busy' = FALSE /\ UNCHANGED <<poller, asked>>
    <3>1. pending' \in {None, 0, pending}
      BY <2>3, EvaluateEffect
    <3>2. active' \in BOOLEAN
      BY <1>t, <2>3, EvaluateEffect DEF EventsOK
    <3>3. EventsOK'
      <4>1. pending' \in 0 .. ForSeconds \cup {None}
        BY <1>t, <3>1 DEF EventsOK
      <4>2. held' \in 0 .. ForSeconds \cup {None} /\ busy' \in BOOLEAN
        BY <1>t, <2>1, <2>3 DEF EventsOK
      <4> QED BY <3>2, <4>1, <4>2 DEF EventsOK
    <3>4. PollerOK'
      BY <1>t, <2>3 DEF PollerOK
    <3> QED BY <2>2, <3>3, <3>4 DEF RulesTyped
  <2>4. CASE UNCHANGED <<pending, active, busy>> /\ (Resolve \/ Failed)
    <3>1. EventsOK'
      BY <1>t, <2>1, <2>4 DEF EventsOK
    <3>2. poller' \in [doing : {"asleep", "reading"}, left : 0 .. PollInterval + MaxRetryDelay,
                       retry : RetryDelay .. MaxRetryDelay]
      <4>1. CASE Resolve
        BY <1>t, <4>1 DEF Resolve, Asleep, PollerOK, Least
      <4>2. CASE Failed
        BY <1>t, <4>2 DEF Failed, Asleep, PollerOK, Least
      <4> QED BY <2>4, <4>1, <4>2
    <3> QED BY <2>2, <3>1, <3>2 DEF RulesTyped, PollerOK
  <2> QED BY <2>1, <2>3, <2>4
<1>4. CASE Elapse
  <2>1. /\ UNCHANGED <<active, busy, run>>
        /\ pending' = Older(pending, ForSeconds) /\ held' = Older(held, ForSeconds)
        /\ calm' = Least(calm + 1, Window + 1)
        /\ poller' \in [doing : {poller.doing}, retry : {poller.retry},
                        left : {IF poller.left > 0 THEN poller.left - 1 ELSE 0}]
        /\ history' \in Seq(Sample) /\ Len(history') = Len(history)
    BY <1>4, ElapseEffect
  <2>2. HistoryOK'
    BY <1>t, <2>1 DEF HistoryOK
  <2>3. EventsOK'
    BY <1>t, <2>1 DEF EventsOK, Older, Least
  <2>4. PollerOK'
    BY <1>t, <2>1 DEF PollerOK
  <2>5. WitnessOK'
    <3>1. IF report = None THEN report' = None
          ELSE report' = [age |-> Least(report.age + 1, MaxAge["place"] + 1),
                          latitude |-> report.latitude, longitude |-> report.longitude]
      BY <1>4, ElapseEffect
    <3>2. report # None => Least(report.age + 1, MaxAge["place"] + 1) \in Nat
      BY <1>t DEF Least
    <3>3. report' \in [age : Nat, latitude : Spot, longitude : Spot] \cup {None}
      BY <1>t, <3>1, <3>2
    <3>4. run' \in 0 .. MaxSamples /\ calm' \in 0 .. Window + 1
      BY <1>t, <2>1 DEF WitnessOK, Least
    <3> QED BY <3>3, <3>4 DEF WitnessOK
  <2>6. StoredOK'
    <3>1. /\ DOMAIN values' = {"place", "air"}
          /\ \A g \in {"place", "air"} :
               IF values[g] = None THEN values'[g] = None
               ELSE values'[g] = [age |-> Least(values[g].age + 1, MaxAge[g] + 1),
                                  fields |-> values[g].fields]
      BY <1>4, ElapseEffect
    <3>2. \A g \in {"place", "air"} : values[g] # None =>
            /\ values[g].age \in Nat /\ values[g].age <= MaxAge[g] + 1
            /\ values[g].fields \in Coordinates \cup Air
      BY <1>t DEF StoredOK
    <3>3. \A g \in {"place", "air"} : values[g] # None =>
            /\ Least(values[g].age + 1, MaxAge[g] + 1) \in Nat
            /\ Least(values[g].age + 1, MaxAge[g] + 1) <= MaxAge[g] + 1
      BY <3>2 DEF Least
    <3>4. values' = [g \in {"place", "air"} |-> values'[g]]
      BY <1>4, <1>t DEF Elapse, StoredOK
    <3>5. ASSUME NEW g \in {"place", "air"}
          PROVE  /\ values'[g] \in [age : Nat, fields : Coordinates \cup Air] \cup {None}
                 /\ values'[g] # None => /\ values[g] # None /\ values'[g].age <= MaxAge[g] + 1
                                         /\ values'[g].fields = values[g].fields
      <4>1. CASE values[g] = None
        BY <3>1, <4>1
      <4>2. CASE values[g] # None
        BY <3>1, <3>2, <3>3, <4>2
      <4> QED BY <4>1, <4>2
    <3>6. values' \in [{"place", "air"} -> [age : Nat, fields : Coordinates \cup Air] \cup {None}]
      BY <3>4, <3>5
    <3> QED BY <1>t, <3>5, <3>6 DEF StoredOK
  <2> QED BY <2>2, <2>3, <2>4, <2>5, <2>6 DEF RulesTyped
<1>5. CASE UNCHANGED rulesVars
  BY <1>5, <1>t DEF RulesTyped, StoredOK, HistoryOK, EventsOK, PollerOK, WitnessOK,
     rulesVars, contextVars, eventVars, pollVars, ghostVars
<1> QED BY <1>1, <1>2, <1>3, <1>4, <1>5 DEF RulesNext

(* The invariant holds initially and no step breaks it. *)
LEMMA RulesInvHolds == RulesSpec => []RulesInv
<1> USE RulesConstants
<1>1. RulesInit => RulesInv
  <2> SUFFICES ASSUME RulesInit PROVE RulesInv
    OBVIOUS
  <2>1. StoredOK /\ HistoryOK
    BY DEF RulesInit, StoredOK, HistoryOK
  <2>5. EventsOK
    <3>1. pending = None /\ held = None /\ active = FALSE /\ busy = FALSE
      BY DEF RulesInit
    <3> QED BY <3>1, Zenon DEF EventsOK
  <2>6. WitnessOK
    BY DEF RulesInit, WitnessOK
  <2>2. PollerOK
    BY DEF RulesInit, PollerOK, Asleep
  <2>3. PlaceIsReported /\ DebounceIsHeld
    BY DEF RulesInit, PlaceIsReported, DebounceIsHeld
  <2>4. SamplesAreSpaced /\ CalmIsKnown /\ WindowIsOneRun
    BY DEF RulesInit, SamplesAreSpaced, CalmIsKnown, WindowIsOneRun, Asleep
  <2> QED BY <2>1, <2>2, <2>3, <2>4, <2>5, <2>6 DEF RulesInv, RulesTyped
<1>2. RulesInv /\ [RulesNext]_rulesVars => RulesInv'
  <2> SUFFICES ASSUME RulesInv, [RulesNext]_rulesVars PROVE RulesInv'
    OBVIOUS
  <2>1. /\ RulesTyped /\ PlaceIsReported /\ DebounceIsHeld /\ SamplesAreSpaced
        /\ WindowIsOneRun /\ (WindowFits => CalmIsKnown)
    BY DEF RulesInv
  <2>2. RulesTyped' /\ PlaceIsReported' /\ DebounceIsHeld'
    BY <2>1, RulesTypedStep, PlaceStep, DebounceStep
  <2>3. SamplesAreSpaced' /\ WindowIsOneRun'
    BY <2>1, SpacedStep, OneRunStep
  <2>4. WindowFits => CalmIsKnown'
    BY <2>1, CalmStep
  <2> QED BY <2>2, <2>3, <2>4 DEF RulesInv, WindowFits
<1> QED BY <1>1, <1>2, PTL DEF RulesSpec

(* The forecast is read for one place that was reported, as a whole, and    *)
(* that has not expired.                                                    *)
THEOREM ForecastOfOnePlace == RulesSpec => OnePlace
<1>1. ASSUME RulesInv, [RulesNext]_rulesVars, asked = None, asked' # None
      PROVE  /\ report # None
             /\ report.age < MaxAge["place"]
             /\ asked' = [latitude |-> report.latitude, longitude |-> report.longitude]
  <2>1. CASE Resolve
    <3>1. Available("place") /\ asked' = values["place"].fields
      BY <1>1, <2>1 DEF Resolve
    <3> QED BY <1>1, <3>1 DEF Available, RulesInv, PlaceIsReported
  <2>2. CASE ~Resolve
    <3>1. asked' = asked
      <4>1. CASE Receive
        BY <4>1 DEF Receive, pollVars
      <4>2. CASE Settle \/ Maintain
        BY <4>2 DEF Settle, Maintain, pollVars
      <4>3. CASE Forecast \/ Failed
        BY <1>1, <4>3 DEF Forecast, Failed
      <4>4. CASE Elapse
        BY <4>4 DEF Elapse
      <4>5. CASE UNCHANGED rulesVars
        BY <4>5 DEF rulesVars, pollVars
      <4> QED BY <1>1, <2>2, <4>1, <4>2, <4>3, <4>4, <4>5 DEF RulesNext
    <3> QED BY <1>1, <3>1
  <2> QED BY <2>1, <2>2
<1>2. RulesInv /\ [RulesNext]_rulesVars
        => [asked = None /\ asked' # None =>
              /\ report # None
              /\ report.age < MaxAge["place"]
              /\ asked' = [latitude |-> report.latitude,
                           longitude |-> report.longitude]]_rulesVars
  BY <1>1
<1> QED BY <1>2, RulesInvHolds, PTL DEF RulesSpec, OnePlace

(* An event becomes active after the high temperature it waits for, and     *)
(* clears when none is left in the window, as long as the samples that are  *)
(* kept span the window.                                                    *)
THEOREM EventsEarned ==
  ASSUME WindowFits
  PROVE  RulesSpec => EventsAreEarned
<1> USE RulesConstants
<1>1. ASSUME RulesInv, [RulesNext]_rulesVars
      PROVE  /\ ~active /\ active' => held # None /\ held >= ForSeconds
             /\ active /\ ~active' => calm > Window
  <2>t. /\ held = None \/ held \in 0 .. ForSeconds
        /\ pending = None \/ pending \in 0 .. ForSeconds
        /\ active \in BOOLEAN /\ calm \in 0 .. Window + 1
    BY <1>1 DEF RulesInv, RulesTyped, EventsOK, WitnessOK
  <2>1. CASE evaluate
    <3>1. ASSUME ~active, active' PROVE held # None /\ held >= ForSeconds
      <4>1. /\ values["air"] # None /\ High
            /\ IF pending = None THEN ForSeconds = 0 ELSE pending >= ForSeconds
        BY <1>1, <2>1, <3>1, EvaluateEffect DEF RulesInv
      <4>2. held # None /\ (pending # None => held >= pending)
        BY <1>1, <4>1 DEF RulesInv, DebounceIsHeld
      <4> QED BY <2>t, <4>1, <4>2
    <3>2. ASSUME active, ~active', ~(calm > Window) PROVE FALSE
      <4>1. active' = (Peak = 1)
        BY <1>1, <2>1, <3>2, EvaluateEffect DEF RulesInv
      <4>2. PICK i \in 1 .. Len(history) : history[i].sample = 1 /\ history[i].age <= calm
        BY <1>1, <2>t, <3>2 DEF RulesInv, CalmIsKnown
      <4>3. history[i].age <= Window /\ i \in DOMAIN history
        <5>1. history \in Seq(Sample)
          BY <1>1 DEF RulesInv, RulesTyped, HistoryOK
        <5>2. history[i] \in Sample /\ i \in DOMAIN history
          BY <5>1
        <5> QED BY <2>t, <3>2, <4>2, <5>2 DEF Sample
      <4>4. Peak = 1
        BY <4>2, <4>3 DEF Peak, InWindow
      <4> QED BY <3>2, <4>1, <4>4
    <3> QED BY <3>1, <3>2
  <2>2. CASE active' = active
    BY <2>2
  <2>3. evaluate \/ active' = active
    <3>1. CASE Receive
      BY <3>1, <1>1, PlaceEffect DEF Receive, RulesInv
    <3>2. CASE Forecast
      BY <3>2, <1>1, AirEffect DEF Forecast, RulesInv
    <3>3. CASE Settle \/ Maintain \/ Resolve \/ Failed
      BY <3>3, QuietEffect
    <3>4. CASE Elapse
      BY <3>4 DEF Elapse
    <3>5. CASE UNCHANGED rulesVars
      BY <3>5 DEF rulesVars, eventVars
    <3> QED BY <1>1, <3>1, <3>2, <3>3, <3>4, <3>5 DEF RulesNext
  <2> QED BY <2>1, <2>2, <2>3
<1>2. RulesInv /\ [RulesNext]_rulesVars
        => [/\ ~active /\ active' => held # None /\ held >= ForSeconds
            /\ active /\ ~active' => calm > Window]_rulesVars
  BY <1>1
<1> QED BY <1>2, RulesInvHolds, PTL DEF RulesSpec, EventsAreEarned

(* The window never reaches across a report that was no number. *)
THEOREM WindowOfOneRun == RulesSpec => []WindowIsOneRun
<1>1. RulesInv => WindowIsOneRun
  BY DEF RulesInv
<1> QED BY <1>1, RulesInvHolds, PTL

(* The variables keep their types. *)
THEOREM RulesTypes == RulesSpec => []RulesTypeOK
<1> USE RulesConstants
<1>1. ASSUME RulesTyped PROVE RulesTypeOK
  <2>1. StoredOK /\ HistoryOK /\ EventsOK /\ PollerOK
    BY <1>1 DEF RulesTyped
  <2>2. /\ active \in BOOLEAN /\ busy \in BOOLEAN
        /\ pending \in 0 .. ForSeconds \cup {None}
    BY <2>1 DEF EventsOK
  <2>3. ASSUME NEW g \in DOMAIN values, values[g] # None
        PROVE  values[g].age \in 0 .. MaxAge[g] + 1 /\ DOMAIN values[g].fields = Fields[g]
    <3>1. DOMAIN values = {"place", "air"}
      BY <2>1 DEF StoredOK
    <3>2. values[g].age \in Nat /\ values[g].age <= MaxAge[g] + 1
      BY <2>1, <2>3, <3>1 DEF StoredOK
    <3>3. CASE g = "place"
      <4>1. DOMAIN values[g].fields = {"latitude", "longitude"}
        BY <2>1, <2>3, <3>3 DEF StoredOK, Coordinates
      <4> QED BY <3>2, <3>3, <4>1 DEF Fields
    <3>4. CASE g = "air"
      <4>1. DOMAIN values[g].fields = {"temperature"}
        BY <2>1, <2>3, <3>4 DEF StoredOK, Air
      <4> QED BY <3>2, <3>4, <4>1 DEF Fields
    <3> QED BY <2>3, <3>1, <3>3, <3>4
  <2>4. /\ Len(history) <= MaxSamples
        /\ \A i \in DOMAIN history : history[i].age \in 0 .. Window + 1 /\ history[i].sample \in Level
    <3>1. history \in Seq(Sample) /\ Len(history) <= MaxSamples
      BY <2>1 DEF HistoryOK
    <3>2. \A i \in DOMAIN history : history[i] \in Sample
      BY <3>1
    <3> QED BY <3>1, <3>2 DEF Sample
  <2>5. /\ poller.doing \in {"asleep", "reading"}
        /\ poller.left \in 0 .. (PollInterval + MaxRetryDelay)
        /\ poller.retry \in RetryDelay .. MaxRetryDelay
    BY <2>1 DEF PollerOK
  <2> QED BY <2>2, <2>3, <2>4, <2>5 DEF RulesTypeOK
<1>2. RulesInv => RulesTypeOK
  BY <1>1 DEF RulesInv
<1> QED BY <1>2, RulesInvHolds, PTL
=============================================================================
