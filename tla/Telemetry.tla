------------------------------- MODULE Telemetry -------------------------------
(***************************************************************************)
(* Telemetry: the daemon's TelemetryReporter with its AlertEvaluator, the  *)
(* rules it is given by the server, and the server itself.                 *)
(*                                                                         *)
(* Each event, error, log line and alert has a number, in the order they   *)
(* were made; notices the reporter makes itself have none.  Metrics are    *)
(* left out: a flush is as when no process is listed.  It takes what is    *)
(* buffered up to its request in one step; requests are under way several  *)
(* at once, may be answered in any order, and put back what they carried   *)
(* when they fail.                                                         *)
(***************************************************************************)
EXTENDS AlertEvaluator, FiniteSetsExt

CONSTANTS MaxBatch,     \* TELEMETRY_MAX_BATCH_SIZE
          MaxLines,     \* TELEMETRY_LOG_FLUSH_MAX_LINES
          MaxLogBuffer, \* ten times that
          Budget,       \* TELEMETRY_MAX_PAYLOAD_BYTES
          Bad,          \* numbers of items whose batch the server will never accept
          MaxItems,     \* bound on items
          MaxRequests,  \* bound on requests at once
          MaxSetbacks   \* bound on failed or refused requests and changes of the rules

ASSUME TelemetryAssumption ==
    /\ MaxBatch \in Nat \ {0} /\ MaxLines \in Nat \ {0} /\ MaxLogBuffer >= MaxLines
    /\ Budget \in Nat /\ MaxItems \in Nat /\ MaxRequests \in Nat \ {0} /\ MaxSetbacks \in Nat
    /\ Bad \subseteq Nat \ {0}

VARIABLES events, errors, logs,  \* the reporter's buffers
          alerts,         \* the evaluator's buffer
          states,         \* the evaluator's states
          rules,          \* the enabled rules of the configuration
          status,         \* the deploy status to send, or None
          limited,        \* rateLimitedStreak
          phase,          \* of the daemon: "running", "stopping"
          requests,       \* requests that have not ended, by number
          stored, seen, serverStatus,  \* the server: items, each subject's last alert, status
          made, setbacks,
          dropped,        \* history: items given up on purpose
          muddled,        \* history: subjects with alerts in two requests at once or given up
          final           \* history: a final deploy status was set

buffers == <<events, errors, logs, alerts>>
server == <<stored, seen, serverStatus>>
evaluator == <<states, rules>>
deploy == <<status, final>>
vars == <<buffers, evaluator, deploy, limited, phase, requests, server, made, setbacks, dropped, muddled>>

Notice == 0
Slots == 1..MaxRequests
UnderWay == {n \in Slots : requests[n] # None}
FinalPhases == {"success"}

Ids(p) == (Range(p.events) \cup {e.id : e \in Range(p.errors)} \cup {l.id : l \in Range(p.logs)}
              \cup {a.id : a \in Range(p.alerts)}) \ {Notice}
Buffered == [events |-> events, errors |-> errors, logs |-> logs, alerts |-> alerts]

Init ==
    /\ events = <<>> /\ errors = <<>> /\ logs = <<>> /\ alerts = <<>>
    /\ states = [s \in Subjects |-> None] /\ rules = Rules
    /\ status = None /\ final = FALSE
    /\ limited = FALSE /\ phase = "running" /\ requests = [n \in Slots |-> None]
    /\ stored = {} /\ seen = [s \in Subjects |-> None] /\ serverStatus = None
    /\ made = 0 /\ setbacks = 0 /\ dropped = {} /\ muddled = {}
----------------------------------------------------------------------------
(* fitPayloadToBudget(): sizes are 1, that of an error with its context 2. *)

Ending(seq, n) == IF Len(seq) > n THEN SubSeq(seq, Len(seq) - n + 1, Len(seq)) ELSE seq

ErrorBytes(es) == Len(es) + Cardinality({i \in DOMAIN es : es[i].heavy})
PayloadBytes(p) ==
    Len(p.events) + Len(p.logs) + Len(p.alerts) + ErrorBytes(p.errors)

\* The newest of seq that fit, when all of it makes p too large.
Newest(seq, Fits(_)) ==
    LET ns == {n \in 0..Len(seq) : Fits(SubSeq(seq, n + 1, Len(seq)))}
    IN IF ns = {} THEN <<>> ELSE SubSeq(seq, Min(ns) + 1, Len(seq))

Slimmed(es) == [i \in DOMAIN es |-> [es[i] EXCEPT !.heavy = FALSE]]

Within(p) == PayloadBytes(p) <= Budget

Fit(p) ==
    LET fewer == [p EXCEPT !.logs = Newest(p.logs, LAMBDA ls : Within([p EXCEPT !.logs = ls]))]
        slim == [fewer EXCEPT !.errors = Slimmed(@)]
    IN IF Within(p) THEN p
       ELSE IF Within(fewer) THEN fewer
       ELSE [slim EXCEPT !.errors = Newest(@, LAMBDA es : Within([slim EXCEPT !.errors = es]))]
----------------------------------------------------------------------------
(* A flush. *)

Marker(w) == [worker |-> w, id |-> Notice]

\* drainLogFlushBuffer(), worker by worker; what it leaves out it says in a marker.
Capped(ls, w) ==
    LET own == SelectSeq(ls, LAMBDA l : l.worker = w)
    IN IF Len(own) > MaxLines THEN <<Marker(w)>> \o Ending(own, MaxLines) ELSE own
Drained(ls) == FlattenSeq([i \in 1..Cardinality(Workers) |-> Capped(ls, SetToSeq(Workers)[i])])

AlertsOf(p, s) == {a \in Range(p.alerts) : a.subject = s}
Flights(s) == {n \in UnderWay : AlertsOf(requests[n], s) # {}}

RoomForRequest == UnderWay # Slots

Trimmed(p) ==
    LET fit == Fit(p) IN IF fit = p THEN p ELSE [fit EXCEPT !.events = Append(@, Notice)]

\* collectAndFlush() with these events, errors and status there, up to its await.
Flush(ev, er, st) ==
    /\ RoomForRequest
    /\ \E whole \in {[events |-> ev, errors |-> er, logs |-> Drained(logs), alerts |-> alerts,
                      status |-> st, at |-> "sent"]} :
       \E sent \in {Trimmed(whole)} :
          /\ requests' = [requests EXCEPT ![Min(Slots \ UnderWay)] = sent]
          /\ dropped' = dropped \cup (({l.id : l \in Range(logs)} \cup Ids(whole)) \ ({Notice} \cup Ids(sent)))
    /\ events' = <<>> /\ errors' = <<>> /\ logs' = <<>> /\ alerts' = <<>>
    /\ status' = IF st \in FinalPhases THEN None ELSE st
    /\ muddled' = muddled \cup {s \in Subjects : Flights(s) # {} /\ AlertsOf(Buffered, s) # {}}

SomethingToSend == Len(events) + Len(errors) + Len(logs) + Len(alerts) > 0

Tick ==
    /\ phase = "running" /\ SomethingToSend
    /\ Flush(events, errors, status)
    /\ UNCHANGED <<evaluator, final, limited, phase, server, made, setbacks>>

\* A full buffer is flushed at once.
Pushes(pushed, ev, er, st) ==
    IF Len(pushed) >= MaxBatch THEN Flush(ev, er, st)
    ELSE /\ events' = ev /\ errors' = er /\ status' = st
         /\ UNCHANGED <<logs, alerts, requests, dropped, muddled>>

Makes(n) == made + n <= MaxItems /\ made' = made + n

\* What the orchestrator emits.
PushEvent ==
    /\ Makes(1)
    /\ LET ev == Append(events, made') IN Pushes(ev, ev, errors, status)
    /\ UNCHANGED <<evaluator, final, limited, phase, server, setbacks>>

CaptureError ==
    /\ Makes(1)
    /\ LET er == Append(errors, [id |-> made', heavy |-> TRUE]) IN Pushes(er, events, er, status)
    /\ UNCHANGED <<evaluator, final, limited, phase, server, setbacks>>

LogLine(w) ==
    /\ Makes(1)
    /\ LET ls == Append(logs, [worker |-> w, id |-> made'])
       IN /\ logs' = Ending(ls, MaxLogBuffer)
          /\ dropped' = dropped \cup ({l.id : l \in Range(ls)} \ ({Notice} \cup {l.id : l \in Range(logs')}))
    /\ UNCHANGED <<events, errors, alerts, evaluator, deploy, limited, phase, requests, server,
                   setbacks, muddled>>

\* The alert rules, evaluated each second.
Evaluate(listed, over) ==
    /\ phase = "running"
    /\ states' = Evaluated(states, rules, listed, over)
    /\ LET raised == Raised(states, states', rules, listed)
       IN /\ Makes(Len(raised))
          /\ alerts' = alerts \o [i \in DOMAIN raised |-> [subject |-> raised[i].subject,
                                                            type |-> raised[i].type, id |-> made + i]]
    /\ muddled' = muddled \cup {s \in Subjects : IsTriggered(states[s]) /\ RuleOf(s) \notin rules}
    /\ UNCHANGED <<events, errors, logs, rules, deploy, limited, phase, requests, server, setbacks,
                   dropped>>

\* A deploy's first and final phase: setDeployStatus(), then an event.
SetStatus(ph) ==
    /\ ph \in FinalPhases => status # None \/ serverStatus # None
    /\ ~final /\ final' = (ph \in FinalPhases)
    /\ Makes(1)
    /\ LET ev == Append(events, made') IN Pushes(ev, ev, errors, ph)
    /\ UNCHANGED <<evaluator, limited, phase, server, setbacks>>
----------------------------------------------------------------------------
(* The server, and what becomes of a request. *)

Unmade == UNCHANGED <<buffers, evaluator, deploy, limited, phase, made, dropped, muddled>>
Becomes(n, at) == requests' = [requests EXCEPT ![n].at = at]
Over(n) == requests' = [requests EXCEPT ![n] = None]

\* The latest of p's alerts on s, or what was known.
Latest(p, s) ==
    LET own == SelectSeq(p.alerts, LAMBDA a : a.subject = s)
    IN IF own = <<>> THEN seen[s] ELSE own[Len(own)].type

Accepts(n) ==
    /\ requests[n].at = "sent" /\ Ids(requests[n]) \cap Bad = {}
    /\ Becomes(n, "ok")
    /\ stored' = stored \cup Ids(requests[n])
    /\ seen' = [s \in Subjects |-> Latest(requests[n], s)]
    /\ serverStatus' = IF requests[n].status = None THEN serverStatus ELSE requests[n].status
    /\ UNCHANGED setbacks /\ Unmade

Rejects(n) ==
    /\ requests[n].at = "sent" /\ Ids(requests[n]) \cap Bad # {}
    /\ Becomes(n, "rejected")
    /\ UNCHANGED <<server, setbacks>> /\ Unmade

Refuses(n, at) ==
    /\ requests[n].at = "sent" /\ setbacks < MaxSetbacks /\ setbacks' = setbacks + 1
    /\ Becomes(n, at)
    /\ UNCHANGED server /\ Unmade

\* restoreBuffers(): what was sent goes before what came since, the oldest over the limit go.
RestoredNot(old, new) == new
Restored(old, new) == Ending(old \o new, 2 * MaxBatch)
Overflow(old, new) == SubSeq(old \o new, 1, Len(old) + Len(new) - 2 * MaxBatch)

RestoredAlertsBehind(old, new) == new \o old
RestoredAlerts(old, new) == old \o new

Restores(r, newEvents) ==
    /\ events' = Restored(r.events, newEvents)
    /\ errors' = Restored(r.errors, errors)
    /\ logs' = Restored(r.logs, logs)
    /\ alerts' = RestoredAlerts(r.alerts, alerts)
    /\ dropped' = dropped \cup Ids([events |-> Overflow(r.events, newEvents), errors |-> Overflow(r.errors, errors),
                                    logs |-> Overflow(r.logs, logs), alerts |-> <<>>])
    /\ UNCHANGED muddled

GivesUpNever(r) == FALSE
GivesUp(r) == r.at = "rejected"

\* The rest of collectAndFlush(); an answer may bring new rules, or commands.
Answered(n) ==
    /\ requests[n].at # "sent"
    /\ Over(n)
    /\ LET r == requests[n]
       IN /\ \/ UNCHANGED <<rules, setbacks>>
             \/ r.at = "ok" /\ setbacks < MaxSetbacks /\ setbacks' = setbacks + 1 /\ rules' \in SUBSET Rules
          /\ limited' = (r.at # "ok" /\ (limited \/ r.at = "limited"))
          /\ IF r.at = "ok" THEN UNCHANGED <<buffers, dropped, muddled>>
             ELSE IF GivesUp(r)
             THEN /\ dropped' = dropped \cup Ids(r)
                  /\ muddled' = muddled \cup {a.subject : a \in Range(r.alerts)}
                  /\ UNCHANGED buffers
             ELSE Restores(r, IF r.at = "limited" /\ ~limited THEN Append(events, Notice) ELSE events)
    /\ UNCHANGED <<states, deploy, phase, server, made>>

\* The connection fails, or time runs out, before the request arrives or with its answer lost.
Fails(n) ==
    /\ requests[n].at \in {"sent", "ok"}
    /\ setbacks < MaxSetbacks /\ setbacks' = setbacks + 1
    /\ Over(n)
    /\ Restores(requests[n], events)
    /\ UNCHANGED <<evaluator, deploy, limited, phase, server, made>>
----------------------------------------------------------------------------
(* shutdown(): a last flush, which the daemon waits for, but not for long. *)

\* The daemon may end at any time after that.
Shutdown ==
    /\ phase = "running" /\ phase' = "stopping"
    /\ IF SomethingToSend THEN Flush(events, errors, status)
       ELSE UNCHANGED <<buffers, status, requests, dropped, muddled>>
    /\ UNCHANGED <<evaluator, final, limited, server, made, setbacks>>

Serves(n) == n \in UnderWay /\ (Accepts(n) \/ Rejects(n))
Ends(n) == n \in UnderWay /\ Answered(n)

Next ==
    \/ Tick \/ PushEvent \/ CaptureError \/ Shutdown
    \/ \E w \in Workers : LogLine(w)
    \/ \E listed \in SUBSET Workers, over \in SUBSET Subjects : Evaluate(listed, over)
    \/ \E ph \in {"downloading"} \cup FinalPhases : SetStatus(ph)
    \/ \E n \in UnderWay : Fails(n) \/ (\E at \in {"limited", "failed"} : Refuses(n, at))
    \/ \E n \in Slots : Serves(n) \/ Ends(n)

Spec == Init /\ [][Next]_vars

\* The timer fires, the server answers, answers are read.
FairSpec ==
    Spec /\ WF_vars(Tick) /\ \A n \in Slots : WF_vars(Serves(n)) /\ WF_vars(Ends(n))
----------------------------------------------------------------------------
(* Properties. *)

TypeOK ==
    /\ events \in Seq(0..MaxItems) 
    /\ \A e \in Range(errors) : e.id \in 1..MaxItems
    /\ \A l \in Range(logs) : l.worker \in Workers
    /\ states \in [Subjects -> States \cup {None}] /\ rules \subseteq Rules
    /\ made \in 0..MaxItems /\ stored \subseteq 1..made /\ dropped \subseteq 1..made

Unprocessed == {requests[n] : n \in {m \in UnderWay : requests[m].at # "ok"}}

\* Nothing is lost but on purpose, and nothing is in two places, so that only an answer that
\* was lost has an item stored twice (TelemetryReporter.ts:384-393, 622-639).
AllPlaced ==
    LET places == Unprocessed \cup {Buffered}
        size(p) == Cardinality(Ids(p))
    IN /\ UNION {Ids(p) : p \in places} \cup stored \cup dropped = 1..made
       /\ \A p \in places, q \in places : p # q => Ids(p) \cap Ids(q) = {}
       /\ Len(SelectSeq(events, LAMBDA i : i # Notice)) + Len(errors) + Len(alerts)
              + Len(SelectSeq(logs, LAMBDA l : l.id # Notice)) = size(Buffered)

\* When the server has all alerts on a rule and worker, what it knows is what the evaluator
\* knows, however often they had to be sent again (AlertEvaluator.ts:64-101, 137-145).
\* Excepted: alerts under way in two requests, given up, or of a rule taken away.
AlertsAgree ==
    \A s \in Subjects \ muddled :
        (\A p \in Unprocessed \cup {Buffered} : AlertsOf(p, s) = {}) =>
            (IsTriggered(states[s]) <=> seen[s] = "triggered")

\* What is sent fits the budget, but for events and alerts, which are never trimmed,
\* and the notice of the trimming itself (payload-budget.ts:20-27).
PayloadFits ==
    \A n \in UnderWay : \/ PayloadBytes(requests[n]) <= Budget + 1
                        \/ requests[n].logs = <<>> /\ requests[n].errors = <<>>

\* Batches are sound: what a flush takes from the buffers and what a failure puts back
\* (TelemetryReporter.ts:330-470, 622-640).
Accounted == TypeOK /\ AllPlaced /\ PayloadFits

\* Everything made in time is stored or given up; no batch can block those after it
\* (TelemetryReporter.ts:445-447, 504-506).
NothingStuck == \A i \in 1..MaxItems : (made >= i) ~> (i \in stored \cup dropped \/ phase # "running")

\* "Clear after terminal state is sent" (TelemetryReporter.ts:441): until the server has it.
FinalStatusKept ==
    final => \/ status \in FinalPhases \/ serverStatus \in FinalPhases
             \/ \E n \in UnderWay : requests[n].status \in FinalPhases
=============================================================================
