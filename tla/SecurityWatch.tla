---------------------------- MODULE SecurityWatch ----------------------------
(***************************************************************************)
(* The security monitor and the register of privacy incidents.  Each       *)
(* process of the server runs a monitor, which looks at the failed logins  *)
(* of the last hour every quarter of an hour and files an incident about   *)
(* each subnet with too many (main.py, SecurityAuditService); admins file  *)
(* others (IncidentService).  An incident's number counts the year's, and  *)
(* is unique: the module is about the numbers of one year.                 *)
(*                                                                         *)
(* A worker is a process.  Passes are short next to the period: time       *)
(* passes when nobody has one to make.                                     *)
(***************************************************************************)
EXTENDS Integers, Sequences, Workers

CONSTANTS
  Subnets,  \* addresses as they are logged, without their last part
  SECURITY_BRUTE_FORCE_THRESHOLD,
  WATCH_PERIOD, WATCH_WINDOW,
  MaxWatchTime, MaxIncidents,  \* bounds: time, and incidents
  MaxFailures, LastFailure     \* bounds: failed logins of a subnet, and the time of the last

ASSUME SecurityWatchAssumption ==
  /\ "admin" \notin Subnets
  /\ {SECURITY_BRUTE_FORCE_THRESHOLD, WATCH_WINDOW, MaxWatchTime, MaxIncidents,
      MaxFailures, LastFailure} \subseteq Nat
  /\ WATCH_PERIOD \in 1..WATCH_WINDOW

VARIABLES
  failures,   \* the audit log: when logins from each subnet failed
  incidents,  \* the register, by number
  watchTime,
  due,        \* when each process makes its next pass
  cut,        \* history: when a process failed in a pass
  watchReq    \* the pass or the request that each process is in

watchVars == <<workers, failures, incidents, watchTime, due, cut, watchReq>>

-----------------------------------------------------------------------------
Incident == [about : Subnets \cup {"admin"}, at : 0..MaxWatchTime]
Failed(s, first, last) ==
  Cardinality({k \in DOMAIN failures[s] : first <= failures[s][k] /\ failures[s][k] <= last})

\* The time of an admin's incident is left out, as 0.  A request or a pass has
\* the incidents still to be filed, the one in hand and its number, which is 0
\* before it is computed.
WatchRequest == [alerts : SUBSET Incident, number : 0..MaxIncidents+1, incident : Incident]
WatchIdle == [alerts |-> {}, number |-> 0, incident |-> [about |-> "admin", at |-> 0]]
Resting(q) == q \in workers /\ watchReq[q] = WatchIdle
Watching(q) == q \in workers /\ watchReq[q].alerts # {}
WatchGoto(q, r) == watchReq' = [watchReq EXCEPT ![q] = r]
PassEnds(q, next) == WatchGoto(q, WatchIdle) /\ due' = [due EXCEPT ![q] = next]

SecurityWatchInit ==
  /\ WorkersInit
  /\ failures = [s \in Subnets |-> <<>>]
  /\ incidents = <<>>
  /\ watchTime = 0
  /\ due = [q \in Worker |-> 0]
  /\ cut = [q \in Worker |-> {}]
  /\ watchReq = [q \in Worker |-> WatchIdle]

-----------------------------------------------------------------------------
\* log_login_failure's row in the audit log.
LoginFails(s) ==
  /\ watchTime <= LastFailure /\ Len(failures[s]) < MaxFailures
  /\ failures' = [failures EXCEPT ![s] = Append(@, watchTime)]
  /\ UNCHANGED <<incidents, watchTime, due, cut, watchReq>>

\* detect_suspicious_patterns: more failures than the threshold since an hour
\* ago.
\* Mutant of Since: since the last pass.
SinceLastPass == watchTime - WATCH_PERIOD
Since == watchTime - WATCH_WINDOW
Suspicious == {s \in Subnets : Failed(s, Since, watchTime) > SECURITY_BRUTE_FORCE_THRESHOLD}
StartPass(q) ==
  /\ Resting(q) /\ due[q] <= watchTime
  /\ IF Suspicious = {}
     THEN PassEnds(q, watchTime + WATCH_PERIOD)
     ELSE /\ WatchGoto(q, [WatchIdle EXCEPT !.alerts =
                             {[about |-> s, at |-> watchTime] : s \in Suspicious}])
          /\ due' = due
  /\ UNCHANGED <<failures, incidents, watchTime, cut>>

\* _generate_incident_number: one more than there are.
NextNumber == Cardinality(DOMAIN incidents) + 1
TakeNumber(q, incident) ==
  /\ q \in workers /\ watchReq[q].number = 0 /\ NextNumber <= MaxIncidents
  /\ WatchGoto(q, [watchReq[q] EXCEPT !.number = NextNumber, !.incident = incident])
  /\ UNCHANGED <<failures, incidents, watchTime, due, cut>>
NumberAlert(q) == \E incident \in watchReq[q].alerts : TakeNumber(q, incident)
ReportIncident(q) ==
  Resting(q) /\ TakeNumber(q, WatchIdle.incident)

\* The insert is committed, and a monitor goes on with the next alert.
Filing(q) == q \in workers /\ watchReq[q].number # 0
NumberTaken(q) == watchReq[q].number \in DOMAIN incidents
FileIncident(q) ==
  /\ Filing(q) /\ ~NumberTaken(q)
  /\ LET r == watchReq[q]
         left == r.alerts \ {r.incident}
     IN /\ incidents' = [n \in DOMAIN incidents \cup {r.number} |->
                           IF n = r.number THEN r.incident ELSE incidents[n]]
        /\ IF left = {} /\ Watching(q)
           THEN PassEnds(q, watchTime + WATCH_PERIOD)
           ELSE WatchGoto(q, [WatchIdle EXCEPT !.alerts = left]) /\ due' = due
  /\ UNCHANGED <<failures, watchTime, cut>>

\* Another process has taken the number: the insert fails, and with it the
\* request, or the rest of the pass.  So does any exception in a pass.
RequestFails(q) ==
  /\ Filing(q) /\ NumberTaken(q) /\ ~Watching(q) /\ WatchGoto(q, WatchIdle)
  /\ UNCHANGED <<failures, incidents, watchTime, due, cut>>
PassFails(q) ==
  /\ Watching(q) /\ (Filing(q) => NumberTaken(q)) /\ PassEnds(q, watchTime + WATCH_PERIOD)
  /\ cut' = [cut EXCEPT ![q] = @ \cup {watchTime}]
  /\ UNCHANGED <<failures, incidents, watchTime>>

\* The process dies and is started again, and its monitor makes a pass at once.
\* (One that dies at rest only makes a pass too many.)
WatcherDies(q) ==
  /\ q \in workers /\ ~Resting(q) /\ PassEnds(q, watchTime)
  /\ UNCHANGED <<failures, incidents, watchTime, cut>>

PassesMade == \A q \in workers : Resting(q) /\ due[q] > watchTime
WatchTick ==
  /\ watchTime < MaxWatchTime /\ PassesMade
  /\ watchTime' = watchTime + 1
  /\ UNCHANGED <<failures, incidents, due, cut, watchReq>>

WatchStep(q) ==
  \/ StartPass(q) \/ NumberAlert(q) \/ ReportIncident(q) \/ FileIncident(q)
  \/ RequestFails(q) \/ PassFails(q) \/ WatcherDies(q)
SecurityWatchNext ==
  /\ UNCHANGED workers
  /\ WatchTick \/ (\E s \in Subnets : LoginFails(s)) \/ \E q \in workers : WatchStep(q)
SecurityWatchSpec == SecurityWatchInit /\ [][SecurityWatchNext]_watchVars

\* Numbers are given without a gap.
SecurityWatchTypeOK ==
  /\ DOMAIN failures = Subnets
  /\ \A s \in Subnets : failures[s] \in Seq(0..LastFailure) /\ Len(failures[s]) <= MaxFailures
  /\ DOMAIN incidents \in {1..n : n \in 0..MaxIncidents}
  /\ \A n \in DOMAIN incidents : incidents[n] \in Incident
  /\ watchTime \in 0..MaxWatchTime
  /\ due \in [Worker -> 0..MaxWatchTime + WATCH_PERIOD]
  /\ cut \in [Worker -> SUBSET (0..MaxWatchTime)]
  /\ watchReq \in [Worker -> WatchRequest]

\* Failed logins of a subnet that exceed the threshold within the window, less
\* the period between two passes, have an incident about them when the period
\* is over, unless every process had a pass that failed in it.
AttacksFiled ==
  \A s \in Subnets, t \in 0..watchTime - WATCH_PERIOD :
    LET soon == t..t + WATCH_PERIOD
    IN /\ t + WATCH_PERIOD < watchTime \/ PassesMade
       /\ Failed(s, t - (WATCH_WINDOW - WATCH_PERIOD), t) > SECURITY_BRUTE_FORCE_THRESHOLD
       /\ \E q \in workers : cut[q] \cap soon = {}
       => \E n \in DOMAIN incidents : incidents[n].about = s /\ incidents[n].at \in soon
=============================================================================
