---------------------------- MODULE SourceSession ----------------------------
(***************************************************************************)
(* The life of the daemon's sessions: `run` and `_run_session` of cli.py   *)
(* on the main thread with start_enabled, run_until_stopped and            *)
(* stop_and_join of sources/base.py, the source threads they start, and    *)
(* KeyboardInterrupt, which the main thread may receive at any place.      *)
(*                                                                         *)
(* Every configuration generation enables the same sections.  A source     *)
(* that lives uses its hardware and may publish.                           *)
(***************************************************************************)
EXTENDS Integers, Sequences

CONSTANTS
  Sections,       (* how many sections are enabled; started in the order 1, 2, ... *)
  Hanging,        (* the sections whose source may not react to the stop event     *)
  InterruptAt,    (* the places at which an interrupt may arrive                   *)
  MaxGenerations, (* bound of the model: accepted configurations                   *)
  MaxFailures,    (* bound of the model: sources that end without being asked      *)
  MaxInterrupts   (* bound of the model: interrupts                                *)

Section == 1 .. Sections

ASSUME SessionAssumption ==
  /\ Sections \in Nat \ {0}
  /\ Hanging \subseteq Section
  /\ MaxGenerations \in Nat \ {0}
  /\ MaxFailures \in Nat
  /\ MaxInterrupts \in Nat

VARIABLES
  pc,          (* where the main thread is                                    *)
  generation,  (* history: how many sessions have begun                       *)
  candidate,   (* candidate is not None                                       *)
  error,       (* what leaves the try block: none, interrupt (caught), raised *)
  stop,        (* stop_event of this session                                  *)
  service,     (* the command service admits requests                         *)
  publisher,   (* none, open or closed                                        *)
  threads,     (* every source ever built: its section, generation and life   *)
  sources,     (* `sources` and source_map: the thread of a section, 0: none  *)
  at,          (* the section start_enabled or the sweep is at                *)
  joining,     (* the threads stop_and_join waits for                         *)
  failures,    (* how many sources have failed                                *)
  interrupts   (* how many interrupts have arrived                            *)

sessionVars == <<generation, candidate, service, publisher>>
vars == <<pc, generation, candidate, error, stop, service, publisher, threads, sources,
          at, joining, failures, interrupts>>

Thread == 1 .. Len(threads)
Latest == Len(threads)
Living(i) == threads[i].life \in {"launched", "alive"}
HasIdent(i) == threads[i].life \in {"alive", "dead"}

(* The list of start_enabled: every source it has built so far. *)
Built == {i \in Thread : threads[i].generation = generation}
Listed == {sources[s] : s \in Section} \ {0}

-----------------------------------------------------------------------------
(* The session is built and its targets are connected. *)

(* A configuration that is not accepted, or targets that cannot be built, *)
(* raise before there is anything to close.                               *)
Build ==
  /\ pc = "begin"
  /\ generation' = generation + 1
  /\ candidate' = FALSE
  /\ error' = "none"
  /\ stop' = FALSE
  /\ sources' = [s \in Section |-> 0]
  /\ at' = 1
  /\ \/ pc' = "ended" /\ UNCHANGED <<service, publisher>>
     \/ pc' = "connect" /\ service' = TRUE /\ publisher' = "open"
  /\ UNCHANGED <<threads, joining, failures, interrupts>>

(* wrap_publisher and connect: ClickException, ValueError or OSError. *)
Connect ==
  /\ pc = "connect"
  /\ \/ pc' = "start" /\ UNCHANGED error
     \/ pc' = "close_service" /\ error' = "raised"
  /\ UNCHANGED <<sessionVars, stop, threads, sources, at, joining, failures, interrupts>>

-----------------------------------------------------------------------------
(* start_enabled, and the replacement of one source in the sweep. *)

BuildSource(s) ==
  threads' = Append(threads, [section |-> s, generation |-> generation, life |-> "built"])

Live(i, life) == threads' = [threads EXCEPT ![i].life = life]

(* A constructor that raises ends start_enabled, which stops what it started. *)
Construct ==
  /\ pc = "start"
  /\ \/ BuildSource(at) /\ pc' = "launch" /\ UNCHANGED error
     \/ pc' = "rollback" /\ error' = "raised" /\ UNCHANGED threads
  /\ UNCHANGED <<sessionVars, stop, sources, at, joining, failures, interrupts>>

(* Thread.start: the thread runs before it has an ident, and start() waits *)
(* for it.  A thread that cannot be started raises RuntimeError.           *)
Launch ==
  /\ pc = "launch"
  /\ \/ Live(Latest, "launched") /\ pc' = "starting" /\ UNCHANGED error
     \/ pc' = "rollback" /\ error' = "raised" /\ UNCHANGED threads
  /\ UNCHANGED <<sessionVars, stop, sources, at, joining, failures, interrupts>>

(* Mutant: the list is off by one. *)
StartedShifted ==
  /\ pc = "starting"
  /\ HasIdent(Latest)
  /\ IF at < Sections
     THEN /\ at' = at + 1
          /\ pc' = "start"
          /\ UNCHANGED sources
     ELSE /\ sources' = [s \in Section |-> Latest - Sections + s + 1]
          /\ pc' = "tick"
          /\ UNCHANGED at
  /\ UNCHANGED <<sessionVars, error, stop, threads, joining, failures, interrupts>>

(* The last source started: the list and the map reach the session. *)
Started ==
  /\ pc = "starting"
  /\ HasIdent(Latest)
  /\ IF at < Sections
     THEN /\ at' = at + 1
          /\ pc' = "start"
          /\ UNCHANGED sources
     ELSE /\ sources' = [s \in Section |-> Latest - Sections + s]
          /\ pc' = "tick"
          /\ UNCHANGED at
  /\ UNCHANGED <<sessionVars, error, stop, threads, joining, failures, interrupts>>

(* stop_and_join of start_enabled: a source without an ident is not joined. *)
Rollback ==
  /\ pc = "rollback"
  /\ stop' = TRUE
  /\ joining' = {i \in Built : HasIdent(i)}
  /\ pc' = "rollback_join"
  /\ UNCHANGED <<sessionVars, error, threads, sources, at, failures, interrupts>>

RollbackJoined ==
  /\ pc = "rollback_join"
  /\ \A i \in joining : ~ Living(i)
  /\ pc' = "close_service"
  /\ UNCHANGED <<sessionVars, error, stop, threads, sources, at, joining, failures, interrupts>>

Start == Construct \/ Launch \/ Started \/ Rollback \/ RollbackJoined

-----------------------------------------------------------------------------
(* run_until_stopped. *)

(* on_tick: a changed configuration that passed validation becomes the candidate. *)
Tick ==
  /\ pc = "tick"
  /\ \/ /\ pc' = "sweep"
        /\ at' = 1
        /\ UNCHANGED candidate
     \/ /\ generation < MaxGenerations
        /\ candidate' = TRUE
        /\ pc' = "accepted"
        /\ UNCHANGED at
  /\ UNCHANGED <<generation, error, stop, service, publisher, threads, sources, joining, failures,
                 interrupts>>

(* Mutant: the stop event is not set, and the loop goes on with its sweep. *)
AcceptUnstopped ==
  /\ pc = "accepted"
  /\ pc' = "sweep"
  /\ at' = 1
  /\ UNCHANGED <<sessionVars, error, stop, threads, sources, joining, failures, interrupts>>

(* The candidate stops the session. *)
Accept ==
  /\ pc = "accepted"
  /\ stop' = TRUE
  /\ pc' = "breaking"
  /\ UNCHANGED <<sessionVars, error, threads, sources, at, joining, failures, interrupts>>

(* run_until_stopped sees the stop event and returns. *)
Break ==
  /\ pc = "breaking"
  /\ pc' = "close_service"
  /\ UNCHANGED <<sessionVars, error, stop, threads, sources, at, joining, failures, interrupts>>

(* Mutant: the sweep passes any source. *)
PassAny ==
  /\ pc = "sweep"
  /\ \/ at > Sections /\ pc' = "wait" /\ UNCHANGED at
     \/ at <= Sections /\ at' = at + 1 /\ UNCHANGED pc
  /\ UNCHANGED <<sessionVars, error, stop, threads, sources, joining, failures, interrupts>>

(* The sweep passes a source that is alive, and ends after the last one. *)
Pass ==
  /\ pc = "sweep"
  /\ \/ at > Sections /\ pc' = "wait" /\ UNCHANGED at
     \/ at <= Sections /\ threads[sources[at]].life = "alive" /\ at' = at + 1 /\ UNCHANGED pc
  /\ UNCHANGED <<sessionVars, error, stop, threads, sources, joining, failures, interrupts>>

(* Mutant: a source is replaced without asking whether it is alive. *)
RebuildAlways ==
  /\ pc = "sweep"
  /\ at <= Sections
  /\ BuildSource(at)
  /\ pc' = "relaunch"
  /\ UNCHANGED <<sessionVars, error, stop, sources, at, joining, failures, interrupts>>

(* A constructor that raises ends the session. *)
Rebuild ==
  /\ pc = "sweep"
  /\ at <= Sections
  /\ threads[sources[at]].life = "dead"
  /\ \/ BuildSource(at) /\ pc' = "relaunch" /\ UNCHANGED error
     \/ pc' = "close_service" /\ error' = "raised" /\ UNCHANGED threads
  /\ UNCHANGED <<sessionVars, stop, sources, at, joining, failures, interrupts>>

Relaunch ==
  /\ pc = "relaunch"
  /\ \/ Live(Latest, "launched") /\ pc' = "restarting" /\ UNCHANGED error
     \/ pc' = "close_service" /\ error' = "raised" /\ UNCHANGED threads
  /\ UNCHANGED <<sessionVars, stop, sources, at, joining, failures, interrupts>>

(* Mutant: the replacement is not recorded. *)
RestartedUnlisted ==
  /\ pc = "restarting"
  /\ HasIdent(Latest)
  /\ at' = at + 1
  /\ pc' = "sweep"
  /\ UNCHANGED <<sessionVars, error, stop, threads, sources, joining, failures, interrupts>>

Restarted ==
  /\ pc = "restarting"
  /\ HasIdent(Latest)
  /\ sources' = [sources EXCEPT ![at] = Latest]
  /\ at' = at + 1
  /\ pc' = "sweep"
  /\ UNCHANGED <<sessionVars, error, stop, threads, joining, failures, interrupts>>

(* stop_event.wait(1): only an accepted candidate sets the event in the loop. *)
Wait ==
  /\ pc = "wait"
  /\ pc' = "tick"
  /\ UNCHANGED <<sessionVars, error, stop, threads, sources, at, joining, failures, interrupts>>

Supervise == Tick \/ Accept \/ Break \/ Pass \/ Rebuild \/ Relaunch \/ Restarted \/ Wait

-----------------------------------------------------------------------------
(* The finally blocks of _run_session. *)

(* Mutant: only an error closes the command service. *)
CloseServiceOnError ==
  /\ pc = "close_service"
  /\ service' = (service /\ error = "none")
  /\ pc' = "stop"
  /\ UNCHANGED <<generation, candidate, error, stop, publisher, threads, sources, at, joining,
                 failures, interrupts>>

CloseService ==
  /\ pc = "close_service"
  /\ service' = FALSE
  /\ pc' = "stop"
  /\ UNCHANGED <<generation, candidate, error, stop, publisher, threads, sources, at, joining,
                 failures, interrupts>>

StopSources ==
  /\ pc = "stop"
  /\ stop' = TRUE
  /\ joining' = {i \in Listed : HasIdent(i)}
  /\ pc' = "join"
  /\ UNCHANGED <<sessionVars, error, threads, sources, at, failures, interrupts>>

(* Mutant: after the grace period the sources are left behind. *)
GraceGivesUp ==
  /\ pc = "join"
  /\ \E i \in joining : Living(i)
  /\ pc' = "close_publisher"
  /\ UNCHANGED <<sessionVars, error, stop, threads, sources, at, joining, failures, interrupts>>

(* The grace period ends with a source still alive: it is logged, and *)
(* joined without a limit.                                            *)
Grace ==
  /\ pc = "join"
  /\ \E i \in joining : Living(i)
  /\ pc' = "join_late"
  /\ UNCHANGED <<sessionVars, error, stop, threads, sources, at, joining, failures, interrupts>>

Joined ==
  /\ pc \in {"join", "join_late"}
  /\ \A i \in joining : ~ Living(i)
  /\ pc' = "close_publisher"
  /\ UNCHANGED <<sessionVars, error, stop, threads, sources, at, joining, failures, interrupts>>

(* The candidate, if there is one, is returned to `run` and starts the next   *)
(* session, also when an interrupt was caught after it had been accepted; any *)
(* other interrupted session returns like one that ended by itself.           *)
ClosePublisher ==
  /\ pc = "close_publisher"
  /\ publisher' = "closed"
  /\ LET aborted == candidate /\ \E i \in Listed : Living(i)
     IN  \/ /\ error # "raised"
            /\ ~ aborted
            /\ pc' = IF candidate THEN "begin" ELSE "ended"
            /\ UNCHANGED error
         \/ /\ pc' = "ended"  \* aborted, an error from before, or one of close() itself
            /\ error' = "raised"
  /\ UNCHANGED <<generation, candidate, stop, service, threads, sources, at, joining, failures,
                 interrupts>>

Teardown == CloseService \/ StopSources \/ Grace \/ Joined \/ ClosePublisher

-----------------------------------------------------------------------------
(* KeyboardInterrupt. *)

Starting    == {"start", "launch", "starting"}
Accepting   == {"accepted", "breaking"}
Supervising == {"tick", "sweep", "relaunch", "restarting", "wait"} \cup Accepting

(* Mutant: the supervisor goes on. *)
InterruptSwallowed ==
  /\ error' = "interrupt"
  /\ \/ pc \in Starting /\ pc' = "rollback"
     \/ pc \in {"connect", "rollback", "rollback_join"} /\ pc' = "close_service"
     \/ pc \in Supervising /\ pc' = "tick"
  /\ UNCHANGED service

(* Within the try block it is caught and the session is torn down: at once, *)
(* or after start_enabled has stopped what it started.  It also leaves the  *)
(* stop_and_join of start_enabled, whatever that still waits for.           *)
InterruptBody ==
  /\ error' = "interrupt"
  /\ \/ pc \in Starting /\ pc' = "rollback"
     \/ pc \in {"connect", "rollback", "rollback_join"} \cup Supervising
        /\ pc' = "close_service"
  /\ UNCHANGED service

(* Outside it, it ends the program.  From the close of the command service *)
(* the inner finally still stops the sources and closes the publisher;     *)
(* from there on an interrupt leaves everything else as it is.             *)
InterruptTeardown ==
  /\ error' = "raised"
  /\ \/ pc = "close_service" /\ pc' = "stop" /\ service' = FALSE
     \/ pc \in {"begin", "stop", "join", "join_late", "close_publisher"} /\ pc' = "ended"
        /\ UNCHANGED service

Interrupt ==
  /\ interrupts < MaxInterrupts
  /\ pc \in InterruptAt
  /\ interrupts' = interrupts + 1
  /\ InterruptBody \/ InterruptTeardown
  /\ UNCHANGED <<generation, candidate, stop, publisher, threads, sources, at, joining, failures>>

-----------------------------------------------------------------------------
(* The source threads. *)

Stopping(i) == threads[i].generation < generation \/ stop

Bootstrap(i) ==
  /\ threads[i].life = "launched"
  /\ Live(i, "alive")
  /\ UNCHANGED <<pc, sessionVars, error, stop, sources, at, joining, failures, interrupts>>

(* run() returns because the stop event is set. *)
Obey(i) ==
  /\ threads[i].life = "alive"
  /\ Stopping(i)
  /\ Live(i, "dead")
  /\ UNCHANGED <<pc, sessionVars, error, stop, sources, at, joining, failures, interrupts>>

(* run() ends by itself: an exception, or its retries are exhausted. *)
Fail(i) ==
  /\ failures < MaxFailures
  /\ threads[i].life = "alive"
  /\ ~ Stopping(i)
  /\ failures' = failures + 1
  /\ Live(i, "dead")
  /\ UNCHANGED <<pc, sessionVars, error, stop, sources, at, joining, interrupts>>

-----------------------------------------------------------------------------
Init ==
  /\ pc = "begin"
  /\ generation = 0
  /\ candidate = FALSE
  /\ error = "none"
  /\ stop = FALSE
  /\ service = FALSE
  /\ publisher = "none"
  /\ threads = <<>>
  /\ sources = [s \in Section |-> 0]
  /\ at = 1
  /\ joining = {}
  /\ failures = 0
  /\ interrupts = 0

Main == Build \/ Connect \/ Start \/ Supervise \/ Teardown

Next ==
  \/ Main
  \/ Interrupt
  \/ \E i \in Thread : Bootstrap(i) \/ Obey(i) \/ Fail(i)

Spec == Init /\ [][Next]_vars

(* The scheduler runs every thread; a source of a section that does not hang *)
(* looks at its stop event again and again, because every wait in run() has  *)
(* a timeout.  Nothing has to fail, and no interrupt has to come.            *)
Fairness ==
  /\ WF_vars(Main)
  /\ \A i \in 1 .. Sections * MaxGenerations + MaxFailures :
       /\ WF_vars(i \in Thread /\ Bootstrap(i))
       /\ WF_vars(i \in Thread /\ threads[i].section \notin Hanging /\ Obey(i))

FairSpec == Spec /\ Fairness
-----------------------------------------------------------------------------
(* Properties. *)

Place == {"begin", "connect", "rollback", "rollback_join", "close_service", "stop", "join",
          "join_late", "close_publisher", "ended"} \cup Starting \cup Supervising

(* Every variable has its type. *)
TypeOK ==
  /\ pc \in Place
  /\ generation \in 0 .. MaxGenerations
  /\ candidate \in BOOLEAN
  /\ error \in {"none", "interrupt", "raised"}
  /\ stop \in BOOLEAN
  /\ service \in BOOLEAN
  /\ publisher \in {"none", "open", "closed"}
  /\ threads \in Seq([section : Section, generation : Nat,
                      life : {"built", "launched", "alive", "dead"}])
  /\ sources \in [Section -> {0} \cup Thread]
  /\ at \in 1 .. Sections + 1
  /\ joining \subseteq Thread
  /\ failures \in 0 .. MaxFailures
  /\ interrupts \in 0 .. MaxInterrupts

(* stop_and_join keeps the publisher open until the sources have stopped: a *)
(* living source never publishes into closed targets, whether the session   *)
(* ends by a reload, an error, a failed start or an interrupt.              *)
NoSourceOutlivesPublisher ==
  \A i \in Thread : Living(i) =>
    threads[i].generation = generation /\ publisher # "closed"

(* Two threads never use the hardware of one section: not the source that *)
(* failed and its replacement, and not two generations of a reload.       *)
OneUserPerSection ==
  \A i, j \in Thread :
    Living(i) /\ Living(j) /\ threads[i].section = threads[j].section => i = j

(* When the supervisor sleeps it knows every living source, and source_map, *)
(* by which commands are routed, leads to it (run_until_stopped).           *)
EverySourceIsListed ==
  pc = "wait" => \A i \in Thread : Living(i) => sources[threads[i].section] = i

(* No new session begins while requests can still reach the one before, and *)
(* the program ends without an exception only with everything closed        *)
(* (_run_session closes one generation before it returns a replacement).    *)
ClosedBeforeReplaced ==
  \/ pc = "begin"
  \/ pc = "ended" /\ error # "raised"
  => ~ service /\ publisher # "open" /\ \A i \in Thread : ~ Living(i)

(* One session hands over to the next, or to the end of the program, without *)
(* leaving anything of it running or open.                                   *)
HandoverIsClean == NoSourceOutlivesPublisher /\ ClosedBeforeReplaced

(* The threads that live are the sources the session knows, one a section.   *)
SourcesAreKnown == OneUserPerSection /\ EverySourceIsListed

(* A source that has ended is replaced, unless the session ends. *)
FailedSourceIsReplaced ==
  \A s \in Section :
    pc = "wait" /\ threads[sources[s]].life = "dead"
      ~> \/ pc \notin Supervising
         \/ threads[sources[s]].life # "dead"

(* An accepted configuration is taken into use, or the program ends. *)
ReloadCompletes == candidate ~> pc = "ended" \/ ~ candidate

(* An interrupt ends the program (cli.py:171: run collectors until interrupted). *)
InterruptEnds == interrupts > 0 ~> pc = "ended"

(* The supervisor loses neither request to end a session.                    *)
SessionsEnd == ReloadCompletes /\ InterruptEnds

(* README.md:66: sources have up to 30 seconds to stop during a reload; if *)
(* any remain alive, the reload aborts.                                    *)
ReloadAborts == pc = "join_late" /\ candidate ~> pc = "ended"
=============================================================================
